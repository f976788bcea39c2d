----------------------------- MODULE TrftpClient -----------------------------
(***************************************************************************)
(* The client side: Client::HandleIncomingMessages on the listening socket *)
(* (port "L"), which starts a ClientTransaction with Begin, and the        *)
(* transaction's own thread, ClientTransaction::HandleIncomingMessages,    *)
(* which reads the transaction socket (port "T") with a 3 s timeout.       *)
(* Every datagram the client sends goes to server_address_, the source of *)
(* the last datagram received: the server socket "S", or nothing at all   *)
(* once Reset has zeroed it.                                               *)
(***************************************************************************)
EXTENDS TrftpWire, Sequences

CONSTANTS
    FileSize,       \* file_length the server announces in INFO
    IoFaults,       \* TRUE: opening or writing the staging file may fail
    ClientShutdown  \* TRUE: the host may destroy the Client

VARIABLES
    net,            \* [Ports -> Seq(Datagrams)], shared with the server
    cActive,        \* ClientTransaction::is_active_
    cStatus,        \* ClientTransaction::status_
    cPsn,           \* packet_sequence_number_: the next psn expected
    cTpn,           \* total_packet_number_
    cSize,          \* new_file_size_
    cVersion,       \* new_file_version_
    cFile,          \* new_file_stream_: "closed" or "open"
    cThread,        \* pc of the transaction thread thread_
    cDelivered,     \* how many times Client::OnFileReceived was called
    cLsn,           \* pc of the listener: "recv", "join" inside Begin, "exited"
    cNtf,           \* the NTF the listener is beginning a transaction with
    cTrn,           \* ghost: the transfer whose NTF began the transaction
    cRunning,       \* Client::is_running_
    cDtor,          \* how far ~Client has got: "live", "join" (waiting for
                    \* the listener), "transaction", "tjoin" (waiting for
                    \* thread_), "handler", "gone"
    cAddr,          \* server_address_ holds the server's address; FALSE for {}
    cAborted        \* an exception left a client thread: std::terminate

clientVars == <<cActive, cStatus, cPsn, cTpn, cSize, cVersion, cFile,
                cThread, cDelivered, cLsn, cNtf, cTrn, cRunning, cDtor,
                cAddr, cAborted>>

\* What the transaction thread leaves to the listener and the destructor.
listenerVars == <<cLsn, cNtf, cTrn, cRunning, cDtor>>

\* ClientTransaction::SendMessage(id): CHK, RDY, DONE and CXL set status_,
\* CXL also clears is_active_; RTX carries packet_sequence_number_.  base
\* is the network once the datagram being handled has been taken off it.
\* UdpSocket::Send sends to server_address_ as it is at the send (cAddr');
\* to the zeroed address sendto fails (port 0: EINVAL), Send throws, no
\* frame of the thread catches it and the process ends in std::terminate.
Emit(base, id, payloadLen, a) ==
    IF cAddr'
    THEN /\ net' = [base EXCEPT !["S"] = Append(@, Stamp(ClientDatagram(id, payloadLen, a), cTrn))]
         /\ UNCHANGED cAborted
    ELSE /\ net' = base
         /\ cAborted' = TRUE

\* Mutant: SendMessage(CXL) leaves is_active_ set.
CancelKeepsActive(base) ==
    /\ cStatus' = "CXL"
    /\ UNCHANGED cActive
    /\ Emit(base, "CXL", 0, 0)

\* SendMessage(CXL) after a failed check.
Cancel(base) ==
    /\ cStatus' = "CXL"
    /\ cActive' = FALSE
    /\ Emit(base, "CXL", 0, 0)

-----------------------------------------------------------------------------
(* Listener thread: Client::HandleIncomingMessages and Begin.              *)

\* Reset's assignments, made before it joins the previous thread_, which
\* may still be running.
Reset ==
    /\ cAddr' = FALSE
    /\ cPsn' = 0
    /\ cTpn' = 0
    /\ cSize' = 0
    /\ cVersion' = 0
    /\ cFile' = "closed"

\* ClientTransaction::ValidateMessageIntegrity repeats the server's checks:
\* CRC32 and magic (the datagram was not corrupted in flight), the length
\* against header.pl, and tpn > psn.
ValidateMessageIntegrity(m) == Intact(m)

\* OnReceive(NTF) once Reset has joined the previous thread_.  A datagram
\* that fails the integrity check is dropped; a good NTF starts thread_ and
\* answers CHK (status_ = CHK).  Neither touches is_active_, which is
\* whatever Begin set and the previous thread left.
BeginNtf(m, base) ==
    /\ cAddr' = TRUE
    /\ cTrn' = m.trn
    /\ \/ /\ ~ValidateMessageIntegrity(m)
          /\ net' = base
          /\ UNCHANGED <<cActive, cStatus, cThread, cVersion, cAborted>>
       \/ /\ ValidateMessageIntegrity(m)
          /\ PayloadLen(m) # SizeofNtf
          /\ Cancel(base)
          /\ UNCHANGED <<cThread, cVersion>>
       \/ /\ ValidateMessageIntegrity(m)
          /\ PayloadLen(m) = SizeofNtf
          /\ cVersion' = m.arg
          /\ cThread' = "loop"
          /\ cStatus' = "CHK"
          /\ net' = [base EXCEPT !["S"] =
                        Append(@, Stamp(ClientDatagram("CHK", SizeofChk, 0), m.trn))]
          /\ UNCHANGED <<cActive, cAborted>>

\* Where the listener goes after an iteration: back into Receive while
\* is_running_, else out of its loop.
LoopTop == IF cRunning THEN "recv" ELSE "exited"

\* One datagram on the listening socket.  While IsAlive() it is dropped.
\* Otherwise Begin sets is_active_ = (xid == NTF) before any check and, on
\* NTF, goes on to Reset.
ListenerReceive ==
    /\ cLsn = "recv"
    /\ net["L"] # <<>>
    /\ LET m == Head(net["L"])
       IN  /\ net' = [net EXCEPT !["L"] = Tail(@)]
           /\ \/ /\ cActive
                 /\ cLsn' = LoopTop
                 /\ UNCHANGED <<cActive, cNtf, cPsn, cTpn, cSize, cVersion, cFile, cAddr>>
              \/ /\ ~cActive
                 /\ cActive' = (m.xid = "NTF")
                 /\ IF m.xid = "NTF"
                    THEN cLsn' = "join" /\ cNtf' = m /\ Reset
                    ELSE /\ cLsn' = LoopTop
                         /\ UNCHANGED <<cNtf, cPsn, cTpn, cSize, cVersion, cFile, cAddr>>
    /\ UNCHANGED <<cStatus, cThread, cDelivered, cTrn, cRunning, cDtor, cAborted>>

\* Reset's thread_.join() returns once the previous thread has left its
\* loop; then the NTF is handled.
ListenerBegin ==
    /\ cLsn = "join"
    /\ cThread # "loop"
    /\ BeginNtf(cNtf, net)
    /\ cLsn' = LoopTop
    /\ UNCHANGED <<cNtf, cDelivered, cPsn, cTpn, cSize, cFile, cRunning, cDtor>>

\* The loop test while (is_running_) fails, at the top of the loop or after
\* Receive has timed out (100 ms) with nothing read: the listener returns.
ListenerExit ==
    /\ cLsn = "recv"
    /\ ~cRunning
    /\ cLsn' = "exited"
    /\ UNCHANGED <<net, cActive, cStatus, cPsn, cTpn, cSize, cVersion, cFile,
                   cThread, cDelivered, cNtf, cTrn, cRunning, cDtor, cAddr, cAborted>>

-----------------------------------------------------------------------------
(* Transaction thread: OnReceive for the kinds the server sends to "T".    *)

\* INFO: state, length, version and size checks, open the staging file,
\* answer RDY.
OnInfo(m, base) ==
    \/ /\ \/ cStatus # "CHK"
          \/ PayloadLen(m) # SizeofInfo
          \/ cVersion # m.arg
          \/ FileSize = 0
       /\ Cancel(base)
       /\ UNCHANGED <<cPsn, cTpn, cSize, cFile, cDelivered>>
    \/ /\ cStatus = "CHK"
       /\ PayloadLen(m) = SizeofInfo
       /\ cVersion = m.arg
       /\ FileSize # 0
       /\ cSize' = FileSize
       /\ cTpn' = TotalPacketNumber(FileSize)
       /\ \/ /\ cFile' = "open"
             /\ cStatus' = "RDY"
             /\ Emit(base, "RDY", SizeofRdy, cVersion)
             /\ UNCHANGED cActive
          \/ /\ IoFaults
             /\ Cancel(base)
             /\ UNCHANGED cFile
       /\ UNCHANGED <<cPsn, cDelivered>>

\* The state and length check of a DATA datagram, by its position.
DataAcceptable(m) ==
    IF m.psn = 0
    THEN cStatus = "RDY" /\ PayloadLen(m) = PayloadSize
    ELSE IF m.psn < m.tpn - 1
         THEN cStatus = "DATA" /\ PayloadLen(m) = PayloadSize
         ELSE cStatus = "DATA" /\ PayloadLen(m) = cSize % PayloadSize

\* new_file_stream_.write fails on an I/O error, and always on a stream
\* that Reset has closed under the running thread.
WriteFails == IoFaults \/ cFile = "closed"

\* packet_sequence_number_ == total_packet_number_ after the increment.
LastPacketWritten(n) == n = cTpn

\* DATA: cancel on a bad state or length, ask for the expected psn when
\* this one is out of order, else append it; after the last packet close
\* the file, check its size and CRC and answer DONE.
OnData(m, base) ==
    \/ /\ ~DataAcceptable(m)
       /\ Cancel(base)
       /\ UNCHANGED <<cPsn, cFile>>
    \/ /\ DataAcceptable(m)
       /\ m.psn # cPsn
       /\ Emit(base, "RTX", SizeofRtx, cPsn)
       /\ UNCHANGED <<cActive, cStatus, cPsn, cFile>>
    \/ /\ DataAcceptable(m)
       /\ m.psn = cPsn
       /\ WriteFails
       /\ Cancel(base)
       /\ UNCHANGED <<cPsn, cFile>>
    \/ /\ DataAcceptable(m)
       /\ m.psn = cPsn
       /\ cFile = "open"
       /\ cPsn' = cPsn + 1
       /\ IF LastPacketWritten(cPsn + 1)
          THEN /\ cFile' = "closed"
               /\ cStatus' = "DONE"
               /\ Emit(base, "DONE", SizeofDone, cVersion)
          ELSE /\ cStatus' = "DATA"
               /\ net' = base
               /\ UNCHANGED <<cFile, cAborted>>
       /\ UNCHANGED cActive

\* Mutant: FIN handled without the status_ != DONE check.
OnFinAnyStatus(m, base) ==
    \/ /\ PayloadLen(m) # 0
       /\ Cancel(base)
       /\ UNCHANGED cDelivered
    \/ /\ PayloadLen(m) = 0
       /\ cStatus' = "FIN"
       /\ cActive' = FALSE
       /\ cDelivered' = cDelivered + 1
       /\ net' = base
       /\ UNCHANGED cAborted

\* FIN: in DONE with an empty payload the transfer is over and the host's
\* handler gets the staging file.
OnFin(m, base) ==
    \/ /\ cStatus # "DONE" \/ PayloadLen(m) # 0
       /\ Cancel(base)
       /\ UNCHANGED cDelivered
    \/ /\ cStatus = "DONE"
       /\ PayloadLen(m) = 0
       /\ cStatus' = "FIN"
       /\ cActive' = FALSE
       /\ cDelivered' = cDelivered + 1
       /\ net' = base
       /\ UNCHANGED cAborted

\* CXL: close and remove the staging file, answer CXL.
OnCxl(base) ==
    /\ cFile' = "closed"
    /\ Cancel(base)

\* ClientTransaction::OnReceive on the transaction thread: server_address_
\* becomes the datagram's source before any check.
OnReceive(m, base) ==
    /\ cAddr' = TRUE
    /\ \/ /\ ~ValidateMessageIntegrity(m)
          /\ net' = base
          /\ UNCHANGED <<cActive, cStatus, cPsn, cTpn, cSize, cFile, cDelivered, cAborted>>
       \/ /\ ValidateMessageIntegrity(m)
          /\ \/ m.xid = "INFO" /\ OnInfo(m, base)
             \/ m.xid = "DATA" /\ OnData(m, base) /\ UNCHANGED <<cTpn, cSize, cDelivered>>
             \/ m.xid = "FIN" /\ OnFin(m, base) /\ UNCHANGED <<cPsn, cTpn, cSize, cFile>>
             \/ m.xid = "CXL" /\ OnCxl(base) /\ UNCHANGED <<cPsn, cTpn, cSize, cDelivered>>
             \/ /\ m.xid \notin {"INFO", "DATA", "FIN", "CXL"}
                /\ net' = base
                /\ UNCHANGED <<cActive, cStatus, cPsn, cTpn, cSize, cFile,
                               cDelivered, cAborted>>

\* The loop test while (is_active_) fails: the thread returns.
ThreadExit ==
    /\ cThread = "loop"
    /\ ~cActive
    /\ cThread' = "exited"
    /\ UNCHANGED <<net, cActive, cStatus, cPsn, cTpn, cSize, cVersion, cFile,
                   cDelivered, listenerVars, cAddr, cAborted>>

\* Receive one datagram on the transaction socket and handle it.
ThreadReceive ==
    /\ cThread = "loop"
    /\ cActive
    /\ net["T"] # <<>>
    /\ OnReceive(Head(net["T"]), [net EXCEPT !["T"] = Tail(@)])
    /\ UNCHANGED <<cVersion, cThread, listenerVars>>

\* Mutant: the timeout breaks out of the loop without SendMessage(CXL).
ThreadTimeoutSilent ==
    /\ cThread = "loop"
    /\ cActive
    /\ net["T"] = <<>>
    /\ cThread' = "exited"
    /\ UNCHANGED <<net, cActive, cStatus, cPsn, cTpn, cSize, cVersion, cFile,
                   cDelivered, listenerVars, cAddr, cAborted>>

\* Receive times out (3 s without a datagram): SendMessage(CXL), break.
\* Nothing was received, so the CXL goes to server_address_ as the last
\* datagram, or a Reset since, left it.
ThreadTimeout ==
    /\ cThread = "loop"
    /\ cActive
    /\ net["T"] = <<>>
    /\ UNCHANGED cAddr
    /\ Cancel(net)
    /\ cThread' = "exited"
    /\ UNCHANGED <<cPsn, cTpn, cSize, cVersion, cFile, cDelivered, listenerVars>>

-----------------------------------------------------------------------------
(* The host destroys the Client: ~Client, then its members in reverse     *)
(* order of declaration: transaction_, file_handler_, thread_, is_running_, *)
(* udp_socket_.                                                            *)

\* Mutant: ~Client joins the listener without clearing is_running_.
DestroyClientKeepsRunning ==
    /\ ClientShutdown
    /\ cDtor = "live"
    /\ cDtor' = "join"
    /\ UNCHANGED <<net, cActive, cStatus, cPsn, cTpn, cSize, cVersion, cFile,
                   cThread, cDelivered, cLsn, cNtf, cTrn, cRunning, cAddr, cAborted>>

\* ~Client: is_running_ = false, then thread_.join().
DestroyClient ==
    /\ ClientShutdown
    /\ cDtor = "live"
    /\ cRunning' = FALSE
    /\ cDtor' = "join"
    /\ UNCHANGED <<net, cActive, cStatus, cPsn, cTpn, cSize, cVersion, cFile,
                   cThread, cDelivered, cLsn, cNtf, cTrn, cAddr, cAborted>>

\* The join returns once the listener has left its loop.
ListenerJoined ==
    /\ cDtor = "join"
    /\ cLsn = "exited"
    /\ cDtor' = "transaction"
    /\ UNCHANGED <<net, cActive, cStatus, cPsn, cTpn, cSize, cVersion, cFile,
                   cThread, cDelivered, cLsn, cNtf, cTrn, cRunning, cAddr, cAborted>>

\* ~ClientTransaction: Reset() zeroes server_address_ and the counters and
\* closes the staging file, then joins thread_, which may still be serving
\* a transfer: is_active_ is left as it was.
DestroyTransaction ==
    /\ cDtor = "transaction"
    /\ Reset
    /\ cDtor' = "tjoin"
    /\ UNCHANGED <<net, cActive, cStatus, cThread, cDelivered, cLsn, cNtf,
                   cTrn, cRunning, cAborted>>

\* Reset's thread_.join() returns once the transaction thread has left its
\* loop.
TransactionJoined ==
    /\ cDtor = "tjoin"
    /\ cThread # "loop"
    /\ cDtor' = "handler"
    /\ UNCHANGED <<net, cActive, cStatus, cPsn, cTpn, cSize, cVersion, cFile,
                   cThread, cDelivered, cLsn, cNtf, cTrn, cRunning, cAddr, cAborted>>

\* Mutant: file_handler_ destroyed as soon as the listener is joined, as it
\* would be were it declared after transaction_.
DestroyFileHandlerFirst ==
    /\ cDtor \in {"transaction", "tjoin", "handler"}
    /\ cDtor' = "gone"
    /\ UNCHANGED <<net, cActive, cStatus, cPsn, cTpn, cSize, cVersion, cFile,
                   cThread, cDelivered, cLsn, cNtf, cTrn, cRunning, cAddr, cAborted>>

\* file_handler_ is destroyed, and with it the last member anything uses.
DestroyFileHandler ==
    /\ cDtor = "handler"
    /\ cDtor' = "gone"
    /\ UNCHANGED <<net, cActive, cStatus, cPsn, cTpn, cSize, cVersion, cFile,
                   cThread, cDelivered, cLsn, cNtf, cTrn, cRunning, cAddr, cAborted>>

-----------------------------------------------------------------------------

ClientInit ==
    /\ cActive = FALSE
    /\ cStatus = "FIN"
    /\ cPsn = 0
    /\ cTpn = 0
    /\ cSize = 0
    /\ cVersion = 0
    /\ cFile = "closed"
    /\ cThread = "none"
    /\ cDelivered = 0
    /\ cLsn = "recv"
    /\ cNtf = ClientDatagram("NTF", 0, 0)
    /\ cTrn = 0
    /\ cRunning = TRUE
    /\ cDtor = "live"
    /\ cAddr = FALSE
    /\ cAborted = FALSE

ClientTypeOK ==
    /\ cActive \in BOOLEAN
    /\ cStatus \in Kinds
    /\ cPsn \in 0..TotalPacketNumber(FileSize)
    /\ cTpn \in 0..TotalPacketNumber(FileSize)
    /\ cSize \in {0, FileSize}
    /\ cVersion \in Nat
    /\ cFile \in {"closed", "open"}
    /\ cThread \in {"none", "loop", "exited"}
    /\ cDelivered \in Nat
    /\ cLsn \in {"recv", "join", "exited"}
    /\ cNtf \in Datagrams
    /\ cTrn \in Nat
    /\ cRunning \in BOOLEAN
    /\ cDtor \in {"live", "join", "transaction", "tjoin", "handler", "gone"}
    /\ cAddr \in BOOLEAN
    /\ cAborted \in BOOLEAN
=============================================================================
