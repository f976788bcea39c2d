----------------------------- MODULE TrftpServer -----------------------------
(***************************************************************************)
(* The server side of one transfer: Server::StartFileTransfer on the       *)
(* control thread, ServerTransaction::OnReceive on the dispatcher thread   *)
(* (Server::HandleIncomingMessages), the paced sender thread of            *)
(* SendFileAsync and Server::AbortFileTransfer from the application.       *)
(*                                                                         *)
(* net[p] is the queue of datagrams in flight to port p:                   *)
(*   "S" the server socket, "L" the client's listening socket,             *)
(*   "T" the socket of the client's transaction.                           *)
(***************************************************************************)
EXTENDS TrftpWire, Integers, Sequences

CONSTANTS
    FileSize,       \* std::filesystem::file_size(file_path)
    FileVersion,    \* file_version of StartFileTransfer
    IoFaults,       \* TRUE: opening or reading the file may fail
    MaxAborts,      \* how many AbortFileTransfer calls the application makes
    Transfers,      \* how many StartFileTransfer calls, one after the other
    ServerShutdown  \* TRUE: the application destroys the Server after its calls

VARIABLES
    net,            \* [Ports -> Seq(Datagrams)]
    sInMap,         \* active_transactions_ holds the client's IP
    sStatus,        \* ServerTransaction::status_
    sPsn,           \* packet_sequence_number_
    sRtx,           \* retransmit_psn_, NoRtx when empty
    sAddrKnown,     \* client_address_ was overwritten by OnReceive (port "T")
    sSnd,           \* pc of the sender thread thr_
    ctlPc,          \* pc of StartFileTransfer
    ctlPhase,       \* which WaitForStatus the control thread is in
    ctlOld,         \* old_status loaded by WaitForStatus
    ctlResult,      \* the FtpStatus StartFileTransfer returned
    sAborts,        \* AbortFileTransfer calls made so far
    sTrn,           \* ghost: StartFileTransfer calls so far; numbers the transaction
    sFins,          \* ghost: calls that returned FIN
    dPc,            \* pc of the dispatcher: "recv", or "found" the transaction
    dMsg,           \* the datagram the dispatcher is delivering
    dTrn,           \* ghost: the transaction the dispatcher's find returned
    sRunning,       \* Server::is_running_
    sDtor,          \* how far ~Server has got: "live", "join", "gone"
    aPc,            \* pc of AbortFileTransfer: "idle", or "found" the entry
    aTrn            \* ghost: the transaction AbortFileTransfer's find returned

serverVars == <<sInMap, sStatus, sPsn, sRtx, sAddrKnown, sSnd,
                ctlPc, ctlPhase, ctlOld, ctlResult, sAborts, sTrn, sFins,
                dPc, dMsg, dTrn, sRunning, sDtor, aPc, aTrn>>

\* What the control thread and the sender leave to the dispatcher, the
\* destructor and the application's abort.
dispVars == <<dPc, dMsg, dTrn, sRunning, sDtor, aPc, aTrn>>

\* The empty retransmit slot: std::numeric_limits<std::uint32_t>::max(),
\* written -1U in SendFileAsync.  The slot is only compared with it for
\* equality, so -1 stands for it (TLC integers are signed 32-bit).
NoRtx == -1

Tpn == TotalPacketNumber(FileSize)

SenderRunning == sSnd \in {"open", "top", "sleep"}

\* client_address_: the URI's port until a datagram from the client is seen.
ClientPort == IF sAddrKnown THEN "T" ELSE "L"

\* The datagram SendMessage(id) builds for the kinds it sends itself.
SrvDatagram(id) ==
    CASE id = "NTF"  -> ServerDatagram("NTF", SizeofNtf, 0, SizeofNtf, FileVersion)
      [] id = "INFO" -> ServerDatagram("INFO", SizeofInfo, 0, SizeofInfo, FileVersion)
      [] OTHER       -> ServerDatagram(id, 0, 0, 0, 0)

\* ServerTransaction::SendMessage for NTF, INFO, FIN and CXL: status_ = id,
\* notify, then send to client_address_.
SendMessage(id) ==
    /\ sStatus' = id
    /\ net' = [net EXCEPT ![ClientPort] = Append(@, Stamp(SrvDatagram(id), sTrn))]

-----------------------------------------------------------------------------
(* Control thread: Server::StartFileTransfer.                              *)

\* The application calls StartFileTransfer again once the previous call
\* returned.  CreateTransaction builds a new transaction (status NTF, psn 0,
\* empty retransmit slot, client_address_ from the URI), try_emplace puts
\* it in the map, SendMessage(NTF) sends to the URI's port, then
\* WaitForStatus.
StartFileTransfer ==
    /\ ctlPc \in {"idle", "done"}
    /\ sTrn < Transfers
    /\ sTrn' = sTrn + 1
    /\ sInMap' = TRUE
    /\ sStatus' = "NTF"
    /\ net' = [net EXCEPT !["L"] = Append(@, Stamp(SrvDatagram("NTF"), sTrn + 1))]
    /\ sPsn' = 0
    /\ sRtx' = NoRtx
    /\ sAddrKnown' = FALSE
    /\ sSnd' = "none"
    /\ ctlPc' = "load"
    /\ ctlPhase' = "NTF"
    /\ UNCHANGED <<ctlOld, ctlResult, sAborts, sFins, dispVars>>

\* WaitForStatus: old_status = status_.load(), before taking the lock.
WaitLoad ==
    /\ ctlPc = "load"
    /\ ctlOld' = sStatus
    /\ ctlPc' = "wait"
    /\ UNCHANGED <<net, sInMap, sStatus, sPsn, sRtx, sAddrKnown, sSnd,
                   ctlPhase, ctlResult, sAborts, sTrn, sFins, dispVars>>

\* active_transactions_.erase(client_ip); return r.  The destructor of the
\* erased transaction joins the sender thread (Join).
Finish(r) ==
    /\ sInMap' = FALSE
    /\ ctlResult' = r
    /\ sFins' = sFins + (IF r = "FIN" THEN 1 ELSE 0)
    /\ ctlPc' = "join"
    /\ UNCHANGED ctlPhase

\* Continue with SendMessage(next) and the next WaitForStatus.
Advance(next, phase) ==
    /\ SendMessage(next)
    /\ ctlPc' = "load"
    /\ ctlPhase' = phase
    /\ UNCHANGED <<sInMap, ctlResult, sFins>>

\* Mutant: a 5 min wait that ends without an answer counts as success.
TransferDoneOrSilent(w) == w \in {"DONE", "none"}

\* The last wait of StartFileTransfer succeeds: status == FtpStatus::DONE.
TransferDone(w) == w = "DONE"

\* What StartFileTransfer does with the value w the wait returned
\* ("none" for std::nullopt), in each of its three phases.
AfterWait(w) ==
    \/ /\ ctlPhase = "NTF"
       /\ \/ w = "none" /\ Finish("NTF") /\ UNCHANGED <<net, sStatus, sSnd>>
          \/ w = "CXL" /\ Finish("CXL") /\ UNCHANGED <<net, sStatus, sSnd>>
          \/ w \notin {"none", "CXL", "CHK"} /\ SendMessage("CXL") /\ Finish("CXL")
             /\ UNCHANGED sSnd
          \/ w = "CHK" /\ Advance("INFO", "INFO") /\ UNCHANGED sSnd
    \/ /\ ctlPhase = "INFO"
       /\ \/ w = "CXL" /\ Finish("CXL") /\ UNCHANGED <<net, sStatus, sSnd>>
          \/ w \notin {"CXL", "RDY"} /\ SendMessage("CXL") /\ Finish("CXL")
             /\ UNCHANGED sSnd
          \* SendMessage(DATA): status_ = DATA and SendFileAsync starts thr_.
          \/ /\ w = "RDY"
             /\ sStatus' = "DATA"
             /\ sSnd' = "open"
             /\ ctlPc' = "load"
             /\ ctlPhase' = "DATA"
             /\ UNCHANGED <<net, sInMap, ctlResult, sFins>>
    \/ /\ ctlPhase = "DATA"
       /\ \/ w = "CXL" /\ Finish("CXL") /\ UNCHANGED <<net, sStatus, sSnd>>
          \/ w # "CXL" /\ ~TransferDone(w) /\ SendMessage("CXL") /\ Finish("CXL")
             /\ UNCHANGED sSnd
          \/ w # "CXL" /\ TransferDone(w) /\ SendMessage("FIN") /\ Finish("FIN")
             /\ UNCHANGED sSnd

\* cv_.wait_for returns because the predicate status_ != old_status holds.
WaitWakes ==
    /\ ctlPc = "wait"
    /\ sStatus # ctlOld
    /\ AfterWait(sStatus)
    /\ UNCHANGED <<sPsn, sRtx, sAddrKnown, ctlOld, sAborts, sTrn, dispVars>>

\* Mutant: the wait for DONE has no timeout; a spurious or timed wake-up
\* waits again.
WaitTimesOutRewaits ==
    /\ ctlPc = "wait"
    /\ sStatus = ctlOld
    /\ IF ctlPhase = "DATA"
       THEN /\ ctlPc' = "load"
            /\ UNCHANGED <<net, sInMap, sStatus, sSnd, ctlPhase, ctlResult, sFins>>
       ELSE AfterWait("none")
    /\ UNCHANGED <<sPsn, sRtx, sAddrKnown, ctlOld, sAborts, sTrn, dispVars>>

\* cv_.wait_for times out with the predicate still false: std::nullopt.
WaitTimesOut ==
    /\ ctlPc = "wait"
    /\ sStatus = ctlOld
    /\ AfterWait("none")
    /\ UNCHANGED <<sPsn, sRtx, sAddrKnown, ctlOld, sAborts, sTrn, dispVars>>

\* ~ServerTransaction joins thr_ before StartFileTransfer returns.
Join ==
    /\ ctlPc = "join"
    /\ ~SenderRunning
    /\ ctlPc' = "done"
    /\ UNCHANGED <<net, sInMap, sStatus, sPsn, sRtx, sAddrKnown, sSnd,
                   ctlPhase, ctlOld, ctlResult, sAborts, sTrn, sFins, dispVars>>

-----------------------------------------------------------------------------
(* Sender thread: the lambda of SendFileAsync.                             *)

\* Open the file; on failure SendMessage(CXL) and return.  The loop starts
\* with packet_sequence_number_ = 0.
SenderOpen ==
    /\ sSnd = "open"
    /\ \/ /\ sPsn' = 0
          /\ sSnd' = "top"
          /\ UNCHANGED <<net, sStatus>>
       \/ /\ IoFaults
          /\ SendMessage("CXL")
          /\ sSnd' = "exited"
          /\ UNCHANGED sPsn
    /\ UNCHANGED <<sInMap, sRtx, sAddrKnown, ctlPc, ctlPhase, ctlOld,
                   ctlResult, sAborts, sTrn, sFins, dispVars>>

\* Mutant: the loop runs one packet past the end (<= for <).
SenderLoopTestPastEnd == sPsn <= Tpn

\* The loop condition packet_sequence_number_ < total_packet_number_.
SenderLoopTest == sPsn < Tpn

\* One iteration up to the sleep: loop test, CXL check, take the retransmit
\* slot, read the chunk at psn * 1408 and send it.
SenderIteration ==
    /\ sSnd = "top"
    /\ \/ /\ ~SenderLoopTest
          /\ sSnd' = "exited"
          /\ UNCHANGED <<net, sStatus, sPsn, sRtx>>
       \/ /\ SenderLoopTest
          /\ sStatus = "CXL"
          /\ sSnd' = "exited"
          /\ UNCHANGED <<net, sStatus, sPsn, sRtx>>
       \/ /\ SenderLoopTest
          /\ sStatus # "CXL"
          /\ LET psn == IF sRtx # NoRtx THEN sRtx ELSE sPsn
             IN  /\ sPsn' = psn
                 /\ sRtx' = NoRtx
                 /\ \/ /\ net' = [net EXCEPT ![ClientPort] =
                                      Append(@, Stamp(DataDatagram(FileSize, psn), sTrn))]
                       /\ sSnd' = "sleep"
                       /\ UNCHANGED sStatus
                    \/ /\ IoFaults
                       /\ SendMessage("CXL")
                       /\ sSnd' = "exited"
    /\ UNCHANGED <<sInMap, sAddrKnown, ctlPc, ctlPhase, ctlOld, ctlResult,
                   sAborts, sTrn, sFins, dispVars>>

\* sleep_until(now + ipg), then packet_sequence_number_++.
SenderSleep ==
    /\ sSnd = "sleep"
    /\ sPsn' = sPsn + 1
    /\ sSnd' = "top"
    /\ UNCHANGED <<net, sInMap, sStatus, sRtx, sAddrKnown, ctlPc, ctlPhase,
                   ctlOld, ctlResult, sAborts, sTrn, sFins, dispVars>>

-----------------------------------------------------------------------------
(* Dispatcher thread: Server::HandleIncomingMessages and OnReceive.        *)

\* The ValidateMessage overloads: the payload length of each kind, DONE's
\* version against new_file_version_ (its length and CRC are abstracted:
\* the client sends the ones it checked), RTX's psn not past the current
\* packet_sequence_number_.
ValidateMessage(m) ==
    CASE m.xid = "CHK"  -> PayloadLen(m) = SizeofChk
      [] m.xid = "RDY"  -> PayloadLen(m) = SizeofRdy
      [] m.xid = "DONE" -> PayloadLen(m) = SizeofDone /\ m.arg = FileVersion
      [] m.xid = "CXL"  -> PayloadLen(m) = SizeofCxl - 1
      [] m.xid = "RTX"  -> PayloadLen(m) = SizeofRtx /\ m.arg <= sPsn
      [] OTHER          -> FALSE

\* The state checks of OnReceive for each kind it accepts, before its
\* ValidateMessage; any other xid is dropped.
Accepts(m) ==
    /\ CASE m.xid = "CHK"  -> sStatus = "NTF"
         [] m.xid = "RDY"  -> sStatus = "INFO"
         [] m.xid = "DONE" -> sStatus = "DATA" /\ sPsn = Tpn
         [] m.xid = "CXL"  -> TRUE
         [] m.xid = "RTX"  -> sStatus = "DATA"
         [] OTHER          -> FALSE
    /\ ValidateMessage(m)

\* OnReceive: client_address_ = addr, drop what fails a check, arm the
\* retransmit slot on RTX, otherwise status_ = id and notify.
OnReceive(m) ==
    /\ sAddrKnown' = TRUE
    /\ IF Intact(m) /\ Accepts(m)
       THEN IF m.xid = "RTX"
            THEN sRtx' = m.arg /\ UNCHANGED sStatus
            ELSE sStatus' = m.xid /\ UNCHANGED sRtx
       ELSE UNCHANGED <<sStatus, sRtx>>

\* Where the dispatcher goes after an iteration: back into Receive while
\* is_running_, else out of its loop.
DispatchLoopTop == IF sRunning THEN "recv" ELSE "exited"

\* Receive one datagram and find the transaction of its source IP in
\* active_transactions_; with none, log and drop it.
ServerReceive ==
    /\ dPc = "recv"
    /\ net["S"] # <<>>
    /\ net' = [net EXCEPT !["S"] = Tail(@)]
    /\ IF sInMap
       THEN /\ dPc' = "found"
            /\ dMsg' = Head(net["S"])
            /\ dTrn' = sTrn
       ELSE /\ dPc' = DispatchLoopTop
            /\ UNCHANGED <<dMsg, dTrn>>
    /\ UNCHANGED <<sRunning, sDtor, aPc, aTrn, sInMap, sStatus, sPsn, sRtx, sAddrKnown, sSnd, ctlPc,
                   ctlPhase, ctlOld, ctlResult, sAborts, sTrn, sFins>>

\* it->second->OnReceive(msg): nothing orders this after the find against
\* the control thread's erase.  On the entry it found, OnReceive runs.  On
\* an erased entry the iterator is dangling (undefined behaviour): either
\* nothing observable happens, or OnReceive runs on the erased transaction
\* while it is still alive (StartFileTransfer has not yet returned).
DispatchOnReceive ==
    /\ dPc = "found"
    /\ dPc' = DispatchLoopTop
    /\ \/ /\ dTrn = sTrn /\ sInMap
          /\ OnReceive(dMsg)
       \/ /\ ~(dTrn = sTrn /\ sInMap)
          /\ UNCHANGED <<sStatus, sRtx, sAddrKnown>>
       \/ /\ dTrn = sTrn /\ ~sInMap /\ ctlPc # "done"
          /\ OnReceive(dMsg)
    /\ UNCHANGED <<net, sInMap, sPsn, sSnd, ctlPc, ctlPhase, ctlOld, ctlResult,
                   sAborts, sTrn, sFins, dMsg, dTrn, sRunning, sDtor, aPc, aTrn>>

\* The loop test while (is_running_) fails, at the top of the loop or after
\* Receive has timed out (100 ms) with nothing read: the dispatcher returns.
DispatcherExit ==
    /\ dPc = "recv"
    /\ ~sRunning
    /\ dPc' = "exited"
    /\ UNCHANGED <<net, sInMap, sStatus, sPsn, sRtx, sAddrKnown, sSnd, ctlPc,
                   ctlPhase, ctlOld, ctlResult, sAborts, sTrn, sFins, dMsg,
                   dTrn, sRunning, sDtor, aPc, aTrn>>

-----------------------------------------------------------------------------
(* Application thread: Server::AbortFileTransfer.                          *)

(* It takes no lock: its find and its use of the iterator are two steps   *)
(* between which the control thread may erase the entry.                   *)

\* active_transactions_.find(client_ip); with no entry the call throws and
\* changes nothing, so only a find that succeeds is a step.
AbortFind ==
    /\ aPc = "idle"
    /\ sAborts < MaxAborts
    /\ sInMap
    /\ aPc' = "found"
    /\ aTrn' = sTrn
    /\ sAborts' = sAborts + 1
    /\ UNCHANGED <<net, sInMap, sStatus, sPsn, sRtx, sAddrKnown, sSnd, ctlPc,
                   ctlPhase, ctlOld, ctlResult, sTrn, sFins, dPc, dMsg, dTrn,
                   sRunning, sDtor>>

\* it->second->SendMessage(CXL): sent for the entry found; on an erased
\* entry (dangling iterator, undefined behaviour) either nothing is sent,
\* or the CXL goes out from the erased transaction while it is still alive
\* (StartFileTransfer has not yet returned).
AbortSend ==
    /\ aPc = "found"
    /\ aPc' = "idle"
    /\ \/ /\ aTrn = sTrn /\ sInMap
          /\ SendMessage("CXL")
       \/ /\ ~(aTrn = sTrn /\ sInMap)
          /\ UNCHANGED <<net, sStatus>>
       \/ /\ aTrn = sTrn /\ ~sInMap /\ ctlPc # "done"
          /\ SendMessage("CXL")
    /\ UNCHANGED <<sInMap, sPsn, sRtx, sAddrKnown, sSnd, ctlPc,
                   ctlPhase, ctlOld, ctlResult, sAborts, sTrn, sFins, dPc,
                   dMsg, dTrn, sRunning, sDtor, aTrn>>

-----------------------------------------------------------------------------
(* The application destroys the Server once its last call has returned:  *)
(* ~Server, then the members (active_transactions_, now empty, factory_,  *)
(* thread_, udp_socket_).                                                  *)

\* Mutant: ~Server joins the dispatcher without clearing is_running_.
DestroyServerKeepsRunning ==
    /\ ServerShutdown
    /\ sDtor = "live"
    /\ ctlPc = "done"
    /\ aPc = "idle"
    /\ sTrn = Transfers
    /\ sDtor' = "join"
    /\ UNCHANGED <<net, sInMap, sStatus, sPsn, sRtx, sAddrKnown, sSnd, ctlPc,
                   ctlPhase, ctlOld, ctlResult, sAborts, sTrn, sFins, dPc,
                   dMsg, dTrn, sRunning, aPc, aTrn>>

\* ~Server: is_running_ = false, then thread_.join().
DestroyServer ==
    /\ ServerShutdown
    /\ sDtor = "live"
    /\ ctlPc = "done"
    /\ aPc = "idle"
    /\ sTrn = Transfers
    /\ sRunning' = FALSE
    /\ sDtor' = "join"
    /\ UNCHANGED <<net, sInMap, sStatus, sPsn, sRtx, sAddrKnown, sSnd, ctlPc,
                   ctlPhase, ctlOld, ctlResult, sAborts, sTrn, sFins, dPc,
                   dMsg, dTrn, aPc, aTrn>>

\* The join returns once the dispatcher has left its loop; the members go.
DispatcherJoined ==
    /\ sDtor = "join"
    /\ dPc = "exited"
    /\ sDtor' = "gone"
    /\ UNCHANGED <<net, sInMap, sStatus, sPsn, sRtx, sAddrKnown, sSnd, ctlPc,
                   ctlPhase, ctlOld, ctlResult, sAborts, sTrn, sFins, dPc,
                   dMsg, dTrn, sRunning, aPc, aTrn>>

-----------------------------------------------------------------------------

ServerInit ==
    /\ sInMap = FALSE
    /\ sStatus = "NTF"
    /\ sPsn = 0
    /\ sRtx = NoRtx
    /\ sAddrKnown = FALSE
    /\ sSnd = "none"
    /\ ctlPc = "idle"
    /\ ctlPhase = "NTF"
    /\ ctlOld = "NTF"
    /\ ctlResult = "none"
    /\ sAborts = 0
    /\ sTrn = 0
    /\ sFins = 0
    /\ dPc = "recv"
    /\ dMsg = ClientDatagram("CXL", 0, 0)
    /\ dTrn = 0
    /\ sRunning = TRUE
    /\ sDtor = "live"
    /\ aPc = "idle"
    /\ aTrn = 0

ServerTypeOK ==
    /\ sInMap \in BOOLEAN
    /\ sStatus \in Kinds
    /\ sPsn \in 0..Tpn
    /\ sRtx \in 0..Tpn \cup {NoRtx}
    /\ sAddrKnown \in BOOLEAN
    /\ sSnd \in {"none", "open", "top", "sleep", "exited"}
    /\ ctlPc \in {"idle", "load", "wait", "join", "done"}
    /\ ctlPhase \in {"NTF", "INFO", "DATA"}
    /\ ctlOld \in Kinds
    /\ ctlResult \in {"none", "NTF", "CXL", "FIN"}
    /\ sAborts \in 0..MaxAborts
    /\ sTrn \in 0..Transfers
    /\ sFins \in 0..sTrn
    /\ dPc \in {"recv", "found", "exited"}
    /\ dMsg \in Datagrams
    /\ dTrn \in 0..sTrn
    /\ sRunning \in BOOLEAN
    /\ sDtor \in {"live", "join", "gone"}
    /\ aPc \in {"idle", "found"}
    /\ aTrn \in 0..sTrn
=============================================================================
