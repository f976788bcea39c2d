-------------------------------- MODULE Trftp --------------------------------
(***************************************************************************)
(* File transfers from a Server to a Client over UDP: the server           *)
(* (TrftpServer) and the client (TrftpClient) share the network net, which *)
(* delivers each socket's datagrams in order and may lose, corrupt or      *)
(* duplicate up to MaxFaults of them.  The application calls               *)
(* StartFileTransfer Transfers times, each call after the previous one     *)
(* returned.                                                               *)
(*                                                                         *)
(* Time is not modelled; the timeouts of the code fire in the order their  *)
(* lengths impose (server waits for CHK and RDY 1 s, the client's receive  *)
(* times out after 3 s, the server waits 5 min for DONE) and only when no  *)
(* datagram that would beat them is in flight or about to be sent.         *)
(***************************************************************************)
EXTENDS Naturals, Sequences
LOCAL INSTANCE SequencesExt

CONSTANTS
    HeaderSize, PayloadSize, SizeofCxl,
    FileSize, FileVersion, IoFaults, MaxAborts, Transfers,
    ServerShutdown, ClientShutdown,
    MaxFaults,      \* datagrams the network may lose, corrupt or duplicate
    FaultKinds      \* subset of {"lose", "corrupt", "dup", "reorder", "intr"}

VARIABLES
    net,
    sInMap, sStatus, sPsn, sRtx, sAddrKnown, sSnd,
    ctlPc, ctlPhase, ctlOld, ctlResult, sAborts, sTrn, sFins,
    dPc, dMsg, dTrn, sRunning, sDtor, aPc, aTrn,
    cActive, cStatus, cPsn, cTpn, cSize, cVersion, cFile, cThread, cDelivered,
    cLsn, cNtf, cTrn, cRunning, cDtor, cAddr, cAborted,
    faults          \* datagrams lost, corrupted, duplicated or reordered, and signals, so far

S == INSTANCE TrftpServer
C == INSTANCE TrftpClient

serverVars == <<sInMap, sStatus, sPsn, sRtx, sAddrKnown, sSnd,
                ctlPc, ctlPhase, ctlOld, ctlResult, sAborts, sTrn, sFins,
                dPc, dMsg, dTrn, sRunning, sDtor, aPc, aTrn>>
clientVars == <<cActive, cStatus, cPsn, cTpn, cSize, cVersion, cFile,
                cThread, cDelivered, cLsn, cNtf, cTrn, cRunning, cDtor,
                cAddr, cAborted>>
vars == <<net, serverVars, clientVars, faults>>

\* No datagram is on its way to a thread that will handle it, and no reply
\* is about to be sent.  The listener's Begin blocks only in Reset's join of
\* a thread that still loops, until that thread's 3 s timeout; what reaches
\* a socket while no thread reads it stays in the socket's buffer, and so
\* does all that reaches the client once its process has ended.
Quiet ==
    /\ dPc # "exited" => net["S"] = <<>>
    /\ dPc # "found"
    /\ aPc # "found"
    /\ ~cAborted =>
           /\ cLsn = "recv" => net["L"] = <<>>
           /\ cLsn = "join" => cThread = "loop"
           /\ cThread = "loop" /\ cActive => net["T"] = <<>>

ServerStep(A) == A /\ UNCHANGED <<clientVars, faults>>

\* No thread of a client process that std::terminate has ended takes a step.
ClientStep(A) == ~cAborted /\ A /\ UNCHANGED <<serverVars, faults>>

\* A 1 s WaitForStatus times out only when no answer is on its way; the 5
\* min wait for DONE also outlasts the sender and the client's own 3 s
\* receive timeout.
ServerWaitTimeout ==
    /\ Quiet
    /\ ctlPhase = "DATA" => cThread # "loop" /\ ~S!SenderRunning
    /\ ServerStep(S!WaitTimesOut)

\* The client's 3 s receive timeout outlasts the server's 1 s waits, the
\* gaps (at most 300 us) between DATA datagrams and every step the control
\* thread takes without blocking: it fires only while that thread is out of
\* StartFileTransfer or in the 5 min wait for DONE with nothing to wake it.
ClientTimeout ==
    /\ Quiet
    /\ \/ ctlPc \in {"idle", "done"}
       \/ ctlPc = "wait" /\ ctlPhase = "DATA" /\ sStatus = ctlOld
    /\ ~S!SenderRunning
    /\ ClientStep(C!ThreadTimeout)

\* The network drops one datagram in flight.
LoseDatagram ==
    /\ faults < MaxFaults
    /\ "lose" \in FaultKinds
    /\ \E p \in S!Ports : \E i \in 1..Len(net[p]) :
           net' = [net EXCEPT ![p] = RemoveAt(@, i)]
    /\ faults' = faults + 1
    /\ UNCHANGED <<serverVars, clientVars>>

\* The network flips bits in one datagram: its CRC check will fail.
CorruptDatagram ==
    /\ faults < MaxFaults
    /\ "corrupt" \in FaultKinds
    /\ \E p \in S!Ports : \E i \in 1..Len(net[p]) :
           net' = [net EXCEPT ![p][i].bad = TRUE]
    /\ faults' = faults + 1
    /\ UNCHANGED <<serverVars, clientVars>>

\* The network delivers one datagram twice; the copy arrives later.
DuplicateDatagram ==
    /\ faults < MaxFaults
    /\ "dup" \in FaultKinds
    /\ \E p \in S!Ports : \E i \in 1..Len(net[p]) : \E j \in i + 1..Len(net[p]) + 1 :
           net' = [net EXCEPT ![p] = InsertAt(@, j, @[i])]
    /\ faults' = faults + 1
    /\ UNCHANGED <<serverVars, clientVars>>

\* The network delivers two datagrams for one socket out of order: one
\* overtakes the datagram sent just before it.
ReorderDatagram ==
    /\ faults < MaxFaults
    /\ "reorder" \in FaultKinds
    /\ \E p \in S!Ports : \E i \in 1..Len(net[p]) - 1 :
           LET q == net[p]
           IN  net' = [net EXCEPT ![p] = [q EXCEPT ![i] = q[i + 1], ![i + 1] = q[i]]]
    /\ faults' = faults + 1
    /\ UNCHANGED <<serverVars, clientVars>>

\* A signal interrupts the transaction thread's recvfrom while its socket is
\* empty: Receive returns 0 on EINTR exactly as on a timeout, at any time,
\* and the thread cancels as after 3 s of silence.
ThreadInterrupted ==
    /\ faults < MaxFaults
    /\ "intr" \in FaultKinds
    /\ ~cAborted
    /\ C!ThreadTimeout
    /\ faults' = faults + 1
    /\ UNCHANGED serverVars

\* The client is at rest: its process has ended, or no transaction thread
\* loops and the listener is out of Begin.
ClientAtRest == cAborted \/ (cThread # "loop" /\ cLsn # "join")

\* Every call has returned, no thread of the client runs and nothing is
\* left to handle.  (A transaction left alive without a thread is idle too:
\* the listener only drops what reaches it; a listener that is still in its
\* loop keeps timing out of Receive every 100 ms.)
Finished ==
    /\ ctlPc = "done"
    /\ sTrn = Transfers
    /\ ClientAtRest
    /\ Quiet

Init ==
    /\ net = [p \in S!Ports |-> <<>>]
    /\ S!ServerInit
    /\ C!ClientInit
    /\ faults = 0

Next ==
    \/ ServerStep(S!StartFileTransfer)
    \/ ServerStep(S!WaitLoad)
    \/ ServerStep(S!WaitWakes)
    \/ ServerWaitTimeout
    \/ ServerStep(S!Join)
    \/ ServerStep(S!SenderOpen)
    \/ ServerStep(S!SenderIteration)
    \/ ServerStep(S!SenderSleep)
    \/ ServerStep(S!ServerReceive)
    \/ ServerStep(S!DispatchOnReceive)
    \/ ServerStep(S!AbortFind)
    \/ ServerStep(S!AbortSend)
    \/ ServerStep(S!DispatcherExit)
    \/ ServerStep(S!DestroyServer)
    \/ ServerStep(S!DispatcherJoined)
    \/ ClientStep(C!ListenerReceive)
    \/ ClientStep(C!ListenerBegin)
    \/ ClientStep(C!ThreadReceive)
    \/ ClientStep(C!ThreadExit)
    \/ ClientTimeout
    \/ ClientStep(C!ListenerExit)
    \/ ClientStep(C!DestroyClient)
    \/ ClientStep(C!ListenerJoined)
    \/ ClientStep(C!DestroyTransaction)
    \/ ClientStep(C!TransactionJoined)
    \/ ClientStep(C!DestroyFileHandler)
    \/ LoseDatagram
    \/ CorruptDatagram
    \/ DuplicateDatagram
    \/ ReorderDatagram
    \/ ThreadInterrupted
    \/ Finished /\ UNCHANGED vars

\* Every thread of both programs keeps running while it can, timers expire
\* and the application makes its next call; its aborts, its destruction of
\* the Client and the network's faults may not come.
Fairness ==
    /\ WF_vars(ServerStep(S!StartFileTransfer))
    /\ WF_vars(ServerStep(S!WaitLoad))
    /\ WF_vars(ServerStep(S!WaitWakes))
    /\ WF_vars(ServerWaitTimeout)
    /\ WF_vars(ServerStep(S!Join))
    /\ WF_vars(ServerStep(S!SenderOpen))
    /\ WF_vars(ServerStep(S!SenderIteration))
    /\ WF_vars(ServerStep(S!SenderSleep))
    /\ WF_vars(ServerStep(S!ServerReceive))
    /\ WF_vars(ServerStep(S!DispatchOnReceive))
    /\ WF_vars(ServerStep(S!AbortSend))
    /\ WF_vars(ServerStep(S!DispatcherExit))
    /\ WF_vars(ServerStep(S!DispatcherJoined))
    /\ WF_vars(ClientStep(C!ListenerReceive))
    /\ WF_vars(ClientStep(C!ListenerBegin))
    /\ WF_vars(ClientStep(C!ThreadReceive))
    /\ WF_vars(ClientStep(C!ThreadExit))
    /\ WF_vars(ClientTimeout)
    /\ WF_vars(ClientStep(C!ListenerExit))
    /\ WF_vars(ClientStep(C!ListenerJoined))
    /\ WF_vars(ClientStep(C!DestroyTransaction))
    /\ WF_vars(ClientStep(C!TransactionJoined))
    /\ WF_vars(ClientStep(C!DestroyFileHandler))

Spec == Init /\ [][Next]_vars /\ Fairness

-----------------------------------------------------------------------------

TypeOK ==
    /\ net \in [S!Ports -> Seq(S!Datagrams)]
    /\ S!ServerTypeOK
    /\ C!ClientTypeOK
    /\ faults \in 0..MaxFaults

\* For one transfer: the server reports FIN only once the client has
\* written every packet and checked size and CRC, and the client's handler
\* (Client::OnFileReceived) runs only after the server reported FIN: the
\* transfer refines TrftpTransfer, with the client's verified file as the
\* count of written packets reaching total_packet_number_.
Abs == INSTANCE TrftpTransfer
           WITH verified  <- (cTpn # 0 /\ cPsn = cTpn),
                outcome   <- ctlResult,
                delivered <- (cDelivered > 0)

TransferRefinement == Abs!Spec

\* Whatever is lost, corrupted or duplicated, every StartFileTransfer call
\* returns and joins its sender, and the client comes to rest: no
\* transaction thread loops and the listener is out of Begin, or the client
\* process has ended.  No thread of either program runs or waits forever.
BothSidesTerminate ==
    <>(ctlPc = "done" /\ sTrn = Transfers /\ ClientAtRest)

\* Destroying either program never hangs in a join.  Once the host destroys
\* the Client, ~Client returns and every member is gone, unless a thread's
\* exception ends the process first (ClientNeverAborts): the listener
\* leaves its loop (is_running_ is cleared before the join, even while it
\* is inside Begin waiting for an old thread), and ~ClientTransaction's
\* join returns once the transaction thread, still serving a transfer
\* whose is_active_ nobody clears, has finished or timed out.  Once the
\* application destroys the Server, the dispatcher leaves its loop, also
\* when it was handing a late datagram to an erased transaction, and
\* ~Server's join returns.
ShutdownCompletes ==
    /\ cDtor = "join" ~> (cDtor = "gone" \/ cAborted)
    /\ sDtor = "join" ~> sDtor = "gone"

\* Client::OnFileReceived never runs once file_handler_ is destroyed: the
\* members are destroyed in reverse order, so the transaction thread that
\* calls the handler is joined (~ClientTransaction) before file_handler_
\* goes, even when the listener started it after ~Client began.
HandlerOutlivesCalls ==
    [][cDelivered' > cDelivered => cDtor # "gone"]_vars

\* Spec section 3: the last packet carries pl_last in [1, 1408] bytes, size
\* mod 1408 when that is not zero and 1408 otherwise.
LastPayloadPerSpec(size) ==
    IF size % PayloadSize # 0 THEN size % PayloadSize ELSE PayloadSize

\* The reads of SendFileAsync for every file of up to three packets and a
\* byte: each packet reads 1 to 1408 bytes at offset psn * 1408, the reads
\* of packets 0..tpn-1 add up to the file size, and the last one is the
\* spec's pl_last.
ReadsTileEveryFile ==
    \A size \in 1..3 * PayloadSize + 1 :
        LET n == S!TotalPacketNumber(size)
        IN  /\ \A psn \in 0..n - 1 : S!SendLen(size, psn) \in 1..PayloadSize
            /\ S!BytesSent(size, n) = size
            /\ S!SendLen(size, n - 1) = LastPayloadPerSpec(size)

\* Once StartFileTransfer has started SendFileAsync's thread, the reads it
\* makes tile the file, for this file and any other of up to three packets
\* and a byte: no byte is skipped or read twice, and none past the end.
SenderReadsWholeFile == sSnd # "none" => ReadsTileEveryFile

\* Every DATA datagram SendFileAsync puts on the wire passes the client's
\* ValidateMessageIntegrity: the pl CompleteHeader writes is the length of
\* the payload sent, also for a last packet of exactly 1408 bytes (spec
\* 4.6: pl = 1408 when tpl mod 1408 = 0).
DataFramesIntact ==
    \A p \in S!Ports : \A i \in 1..Len(net[p]) :
        LET m == net[p][i] IN
            m.xid = "DATA" /\ ~m.bad => S!Intact(m)

\* A retransmission request the server accepted (retransmit_psn_ armed by
\* OnReceive) is honoured by the sender thread before it stops, unless the
\* transfer was cancelled: spec 4.3 and scenario 5 (lost DATA, RTX, rewind,
\* FIN).
RtxHonoured ==
    sSnd = "exited" /\ sStatus # "CXL" => sRtx = S!NoRtx

\* With no datagram lost, no abort and no I/O failure, StartFileTransfer
\* returns FIN (spec section 8, scenarios 1 and 2).
CleanRunSucceeds == ctlResult \in {"none", "FIN"}

\* The datagram a step takes off port p, if it takes one and it was
\* handled rather than lost.
Taken(p) ==
    /\ net[p] # <<>>
    /\ net'[p] = Tail(net[p])
    /\ faults' = faults

\* When the dispatcher hands the client's DONE to the transaction in the
\* DATA phase, OnReceive moves it to DONE (spec 4.3: DATA --[DONE matches
\* announced]--> DONE); it is never dropped for arriving early.
DoneAccepted ==
    [][ /\ dPc = "found" /\ dPc' = "recv"
        /\ dMsg.xid = "DONE" /\ S!Intact(dMsg) /\ dMsg.arg = FileVersion
        /\ dTrn = sTrn /\ sInMap
        /\ sStatus = "DATA"
        => sStatus' = "DONE" ]_vars

\* The client's thread handles an intact DATA datagram of the transfer in
\* RDY or DATA as spec 4.4 says: the expected psn is written, any other is
\* answered with RTX(expected) and leaves the transaction alive.
ClientDataPerSpec ==
    [][ LET m == Head(net["T"]) IN
          /\ Taken("T")
          /\ cThread = "loop" /\ cActive
          /\ m.xid = "DATA" /\ S!Intact(m)
          /\ cStatus \in {"RDY", "DATA"}
          => IF m.psn = cPsn
             THEN cPsn' = cPsn + 1
             ELSE cActive' /\ cPsn' = cPsn ]_vars

\* Outside Begin, the client's transaction is alive (is_active_, so the
\* listener drops every NTF) only while its thread runs and can end it.
AliveHasThread == cActive /\ cLsn = "recv" => cThread = "loop"

\* Spec 4.4 and 6: on its own receive timeout the client sends CXL and
\* becomes idle.  No SendMessage of a transaction thread ends the client
\* process: server_address_ is never the zeroed address Reset leaves when
\* the thread sends without having received since, so UdpSocket::Send does
\* not throw out of the thread.
ClientNeverAborts == ~cAborted

\* An iterator into active_transactions_ stays valid from the find to its
\* use: the control thread does not erase (or replace) the entry between
\* the dispatcher's find and it->second->OnReceive, nor between
\* AbortFileTransfer's find and it->second->SendMessage(CXL).
FoundEntryValid ==
    /\ dPc = "found" => sInMap /\ dTrn = sTrn
    /\ aPc = "found" => sInMap /\ aTrn = sTrn

\* No transfer is moved by a datagram of an earlier transfer to the same
\* client.  On the server, OnReceive changes status_ or retransmit_psn_ of
\* the transaction the dispatcher found only for what the client sent in
\* that transfer; on the client, the transaction thread's OnReceive neither
\* advances nor cancels the transaction for what the server sent before
\* this transaction's NTF (a datagram left in the transaction socket).
OwnTransferOnly ==
    [][ /\ dPc = "found" /\ dPc' = "recv" /\ <<sStatus, sRtx>>' # <<sStatus, sRtx>>
           => dMsg.trn = dTrn
        /\ Taken("T") /\ cThread = "loop" /\ cActive /\ Head(net["T"]).trn # cTrn
           => <<cActive, cStatus, cPsn>>' = <<cActive, cStatus, cPsn>> ]_vars

\* Client::OnFileReceived runs at most once per StartFileTransfer call that
\* returned FIN: a duplicated, late or stale FIN never hands the host a
\* file twice or one the server gave up on.
HandlerOncePerFin == cDelivered <= sFins
=============================================================================
