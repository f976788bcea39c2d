# TLA+ model of trftp

trftp pushes one file from a server to a client over UDP. The protocol is
NTF → CHK → INFO → RDY → DATA… → DONE → FIN, with CXL as the cancel message
in either direction. The modules here model the C++ code under `src/`, checked
against `spec.md`. Every action is translated from the code; `PROJECT.json`
maps each definition to the lines it models.

## The system

| Part | Code | Threads |
|---|---|---|
| Framing, integrity check | `include/trftp/common.h`, `CompleteHeader`, `ValidateMessageIntegrity` | n/a |
| UDP endpoint | `src/udp_socket.cpp` | n/a |
| Server control plane | `Server::StartFileTransfer`, `AbortFileTransfer` (`src/server/server.cpp`) | caller's thread, application |
| Server dispatcher | `Server::HandleIncomingMessages`, `~Server` | one thread |
| Server transaction | `ServerTransaction::SendMessage`, `OnReceive`, `WaitForStatus` | called from all three |
| Paced sender | lambda of `SendFileAsync` | one thread per transfer (`thr_`) |
| Client listener | `Client::HandleIncomingMessages`, `ClientTransaction::Begin`, `~Client` | one thread, listening socket |
| Client transaction | `ClientTransaction::HandleIncomingMessages`, `OnReceive`, `SendMessage` | `thread_`, own socket with 3 s timeout |
| Not modelled | CRC helpers (no source under `src/`), logging, factory, examples | n/a |

How the parts interact:

- **Server side.**
  - The control thread sends NTF, INFO and DATA. After each, it blocks in `WaitForStatus`: 1 s for CHK and RDY, 5 min for DONE.
  - The dispatcher thread hands each datagram to `OnReceive`. That call changes `status_` and notifies the control thread, or arms the one-slot `retransmit_psn_`.
  - The sender thread sends DATA packets paced by the inter-packet gap. At the top of each iteration it checks for CXL and takes the retransmit slot.
- **Client side.**
  - The listener thread starts a transaction on NTF, which resets state and starts `thread_`. While `is_active_` is set, it drops everything else.
  - The transaction thread answers INFO, DATA, FIN and CXL.
  - A 3 s silence makes the thread send CXL and stop.
- **Shutdown.** `~Server` and `~Client` clear `is_running_` and join their receiving thread, which sees the flag at the top of its loop (its `recvfrom` times out every 100 ms). The members then go in reverse order of declaration. On the client that is `transaction_` first: `~ClientTransaction` joins `thread_`, which may still be serving a transfer. Then `file_handler_` goes.
- **Replies.** The server first replies to the client's listening port, and to the transaction's port once a client datagram has been seen (`client_address_ = addr` in `OnReceive`).

## Modules

- **`TrftpWire`** has pure operators.
  - The datagram record holds `xid`, `tpn`, `psn`, `pl`, the length handed to `sendto`, one payload word, a corruption flag and the ghost `trn`, the transfer whose transaction sent it (`Stamp`). No code reads `trn`; the properties use it to tell datagrams of different transfers apart.
  - `ServerDatagram` is `CompleteHeader`. `DataDatagram` is the DATA that `SendFileAsync` builds. `ClientDatagram` is the client's `SendMessage`.
  - `SendLen` is `SendFileAsync`'s `payload_len`: 1408, or `size - psn·1408` for the last packet. `BytesSent` (RECURSIVE) sums the reads of packets `0..n-1`.
  - `Intact` is the server's `ValidateMessageIntegrity`; the client's copy of the same four checks is `TrftpClient`'s `ValidateMessageIntegrity`. The CRC is not computed. The sender's CRC spans `HeaderSize + pl` and the receiver's spans the received length, so they agree exactly when `len = HeaderSize + pl` and nothing was corrupted.
- **`TrftpServer`** models the server's transactions with one client, one after another.
  - State:
    - `sStatus`, `sPsn`, `sRtx`, `sAddrKnown` for `status_`, `packet_sequence_number_`, `retransmit_psn_` and `client_address_`;
    - `sInMap` for the map entry;
    - `sSnd` for the sender thread's pc;
    - `ctlPc`, `ctlPhase`, `ctlOld`, `ctlResult` for the control thread;
    - `dPc`, `dMsg` for the dispatcher's pc and the datagram it holds;
    - `sRunning`, `sDtor` for `is_running_` and how far `~Server` has got;
    - ghosts: `sTrn` counts `StartFileTransfer` calls, `sFins` counts FIN results, `dTrn` is the transfer whose entry the dispatcher found.
  - Actions:
    - `StartFileTransfer` (NTF), called again after each return up to `Transfers` times, each time with a fresh transaction;
    - `WaitLoad`, the load of `old_status` as its own step, because the load is the race;
    - `WaitWakes` and `WaitTimesOut`, each followed by `AfterWait`, which is every branch of the three phases;
    - `Join`, the destructor;
    - `SenderOpen`, `SenderIteration` and `SenderSleep`;
    - `ServerReceive`, the dispatcher's receive and `find` by IP;
    - `DispatchOnReceive`, its `it->second->OnReceive` (with `Accepts`, every state check, and `ValidateMessage`, the payload checks of its overloads) as a later step. If the control thread erased the entry in between, the outcome is undefined behaviour, modelled as a choice: nothing happens, or `OnReceive` runs on the erased object while `StartFileTransfer` has not yet returned;
    - `AbortFileTransfer` as two steps of the application thread, with no lock between them: `AbortFind`, its `find` (a missing entry throws and changes nothing), and `AbortSend`, `it->second->SendMessage(CXL)`. `aPc` and the ghost `aTrn` carry the iterator between them, and an erased entry gets the same choice of outcomes as in `DispatchOnReceive`;
    - `DispatcherExit` (the loop test), `DestroyServer` and `DispatcherJoined`. The application destroys the Server only after its last call has returned, when `ServerShutdown` is TRUE.
- **`TrftpClient`** models the listener and the one `ClientTransaction` object, which all transfers reuse.
  - State: `cActive`, `cStatus`, `cPsn`, `cTpn`, `cSize`, `cVersion`, `cFile`, `cThread`, `cDelivered` (how often the file handler ran), `cLsn` (the listener's pc: receiving, or in `Reset`'s join), `cNtf` (the NTF being begun), the ghost `cTrn` (the transfer that began the transaction), `cRunning` (`is_running_`), `cDtor` (how far `~Client` has got), `cAddr` (`server_address_` holds the server's address rather than the `{}` of the constructor and `Reset`) and `cAborted` (an exception left a client thread and `std::terminate` ended the process).
  - Every send goes to `server_address_` as it is when the send is made (`Emit`). `OnReceive` sets it from every datagram before any check. A send that follows no receive since a `Reset` goes to port 0: `sendto` fails, `UdpSocket::Send` throws, nothing on the thread catches it, and the process ends. The only such send is the timeout CXL. After that no client thread takes a step (`ClientStep`).
  - After each iteration the listener goes back to its receive while `is_running_`, and out of its loop otherwise (`LoopTop`). An iteration that started before the flag fell finishes, so the listener may begin a transaction after `~Client` started.
  - Actions:
    - `ListenerReceive`: the `IsAlive` check, `Begin`'s `is_active_ = (xid == NTF)` before any check, and `Reset`'s assignments, which come before its join;
    - `ListenerBegin`: the join returns once the previous thread left its loop, then `OnReceive(NTF)` (`BeginNtf`);
    - `ThreadReceive`, which is `OnInfo`, `OnData`, `OnFin` and `OnCxl`. A write fails on an I/O error, and always on a stream that `Reset` has closed under the running thread (`WriteFails`);
    - `ThreadExit`;
    - `ThreadTimeout`;
    - `ListenerExit` (the loop test) and, when `ClientShutdown` is TRUE, `DestroyClient` at any time, `ListenerJoined`, `DestroyTransaction` (`~ClientTransaction`'s `Reset`: the address, the counters and the staging file, before the join), `TransactionJoined` (the join returns once the thread has left its loop) and `DestroyFileHandler`.
- **`TrftpTransfer`** is the abstract promise of spec §8, invariants 3 and 4.
  - The client verifies the file, then the server reports FIN, then the handler runs.
  - The server may give up with NTF or CXL at any time.
- **`Trftp`** composes the server and the client over the shared `net`. `net[p]` is a FIFO per socket: `"S"` is the server's, `"L"` the client's listening socket, `"T"` the transaction's.
  - `LoseDatagram`, `CorruptDatagram`, `DuplicateDatagram` (the copy arrives later) and `ReorderDatagram` (a datagram overtakes the one sent before it) act up to `MaxFaults` times, of the kinds in `FaultKinds`. So does `ThreadInterrupted`: a signal makes the transaction thread's `recvfrom` fail with `EINTR`, which `Receive` returns as 0 like a timeout, so the thread cancels at once.
  - A datagram that reaches a socket nobody reads stays in it. The client's transaction socket persists across transfers, so the next transaction's thread reads what the previous one left.
  - Timeouts are untimed but ordered:
    - A server wait times out only when nothing is in flight to a reader and no reply is about to be sent (`Quiet`). The listener blocked in `Reset`'s join of a looping thread is not about to reply: it waits for that thread's 3 s timeout.
    - The 5 min DONE wait also outlasts the client's thread and the sender.
    - The client's 3 s timeout fires only while `Quiet` and while the control thread is blocked: out of `StartFileTransfer`, or in the DONE wait with nothing to wake it. It cannot fire during a 1 s wait, while the sender runs (its gaps are 100 to 300 µs), or between two steps of the control thread that do not block.
  - `TransferRefinement` maps the transfer onto `TrftpTransfer`:
    - `verified` is `cPsn = cTpn ≠ 0`;
    - `outcome` is `ctlResult`;
    - `delivered` is `cDelivered > 0`.
    - The mapping is for one transfer; the runs that check it set `Transfers = 1`.
- **`MCTrftp`** defines the file sizes and fault sets the configs use.

## Runs

Every run uses `HeaderSize = 32`, `PayloadSize = 1408`, `sizeof(TrftpCxl) = 1` (an empty packed struct) and `FileVersion = 7`.

| Run | Config | Expect | What it shows |
|---|---|---|---|
| transfer | `MCTrftp.cfg` | pass | One transfer of a 3-packet file, up to 3 losses, corruptions, reorderings or signals, one abort, failing file I/O, and the Server destroyed after the call. Checks `TypeOK`, `SenderReadsWholeFile` (the sender's reads tile every file of 1 to 3·1408+1 bytes, with the spec's `pl_last` as the last one), `TransferRefinement`, `BothSidesTerminate`, `ShutdownCompletes`. |
| two_transfers | `MCTrftpTwice.cfg` | pass | Two transfers of a 2-packet file to one client, one loss or duplication, and the Client destroyed at any point. Checks `AliveHasThread`, `HandlerOncePerFin` (the handler runs at most once per FIN the server returned), `BothSidesTerminate`, `ShutdownCompletes` (`~Client` never hangs in a join, even while a transaction is running: it returns, or a thread's exception ends the process first, which the ntf_during_old_thread finding shows), `HandlerOutlivesCalls` (no handler call after `file_handler_` is destroyed). |
| full_last_packet | `MCTrftpFullLast.cfg` | violation | `DataFramesIntact`: a 2×1408-byte file; the last DATA carries `pl = 0`. |
| rtx_after_loop | `MCTrftpRtx.cfg` | violation | `RtxHonoured`: the middle packet is lost; the RTX arrives after the sender loop ended and is never served. |
| done_dropped | `MCTrftpClean.cfg` | violation | `DoneAccepted`: on a perfect network, DONE arrives during the sender's last sleep and is dropped. |
| short_file | `MCTrftpShort.cfg` | violation | `ClientDataPerSpec`: a 1000-byte file is cancelled because psn 0 must be 1408 bytes. |
| first_data_lost | `MCTrftpFirstLost.cfg` | violation | `ClientDataPerSpec`: the first DATA is lost; the client sends CXL, not RTX(0). |
| corrupt_ntf | `MCTrftpCorrupt.cfg` | violation | `AliveHasThread`: a corrupted NTF wedges the client with `is_active_` set. |
| wait_race | `MCTrftpRace.cfg` | violation | `CleanRunSucceeds`: CHK is handled before `WaitForStatus` loads `old_status`, so the server returns NTF. |
| erased_entry | `MCTrftpErase.cfg` | violation | `FoundEntryValid`: two transfers on a perfect network; the control thread erases (and destroys) the transaction between a `find` and the use of its iterator. TLC shows it for the dispatcher's `find` and `OnReceive`; with that conjunct removed, it shows the same for `AbortFileTransfer`'s `find` and `SendMessage(CXL)` (`MaxAborts = 1`). |
| ntf_during_old_thread | `MCTrftpNtfRace.cfg` | violation | `ClientNeverAborts`: two transfers on a perfect network. The next NTF reaches the listener after the old thread cleared `is_active_` but before its loop test. `Begin` sets the flag again and `Reset` zeroes `server_address_` before its join. The old thread loops on with nothing sent to it, times out, and its CXL to port 0 throws: the client process ends. |
| stale_datagram | `MCTrftpStale.cfg` | violation | `OwnTransferOnly`: a CXL sent for the first transfer cancels the second. |

**Bounds.**
- Three packets is the smallest file with a first, a middle and a last packet, which is every branch of the client's DATA check. Three faults reach every loss, corruption or reordering of one datagram of each kind, a loss followed by a lost retransmission request, and losses on both sides. `MaxAborts = 1` puts an abort in every phase.
- Two transfers is the smallest number in which a transfer can meet what an earlier one left behind: a thread still looping, a datagram still in a socket or in flight, an entry being erased. The two-transfer runs use a two-packet file (first and last DATA). With the Client's destruction possible at every step, two faults make the pass run take minutes, past what a check of each property's mutant can afford; one fault (a lost or duplicated datagram, FIN included) keeps it at 53,000 states. Loss and duplication together are covered by the stale_datagram run.
- `SenderReadsWholeFile` quantifies over 4,225 file sizes: every size with one, two and three packets, the exact multiples of 1408 and the size one byte past three packets.
- The transfer run has about 180,000 distinct states and takes about 90 s; two_transfers has about 53,000 distinct states and takes about 30 s.

**Fairness.** There is weak fairness on every thread's step (the dispatcher's two steps, the listener's two steps and the application's next `StartFileTransfer` call included) and on both timeouts. The same holds for the loop exits and the destructors' joins once a destructor has started. Each thread of the code runs whenever it can, and a blocked `recvfrom`, `wait_for` or sleep always returns. Once `AbortFileTransfer` has found the entry, its `SendMessage` is a step of a running thread and is weakly fair; the call itself, the destruction of either object and the network's faults get no fairness: they may never happen.

**Deadlock.** Checked in every run. The only final states are the ones `Finished` allows: every `StartFileTransfer` call has returned, the client process has ended or no client thread loops and the listener is not inside `Begin`, no datagram is on its way to a reader, and no abort holds a found entry. One of these final states is a client wedged with `is_active_` set and no thread. The real program also sits idle there: its listener drops everything.

## Findings

PROJECT.json lists the eleven findings:

- **Whole-packet files.** A file of exactly 1408·k bytes never transfers (`CompleteHeader` pl). This includes spec scenario 2.
- **Lost middle packet.** For a short file, a lost middle packet fails the transfer (scenario 5). The RTX comes after the sender's loop.
- **Early DONE.** On a perfect network, the client's DONE can be dropped for arriving during the sender's last sleep.
- **Short files.** Files under 1408 bytes are always cancelled.
- **Lost first DATA.** The client sends CXL instead of RTX(0), against spec §8.
- **Corrupted NTF.** A corrupted NTF disables the client for good.
- **`WaitForStatus` race.** The control thread loads `old_status` after sending, so a fast reply makes a healthy transfer return NTF or CXL.
- **Erased transaction.** The dispatcher calls `OnReceive` through an iterator the control thread may have invalidated, on a transaction already destroyed; the map itself is shared without a lock.
- **NTF after the old thread cleared `is_active_`.** `OnFin` (and then the host's file handler) or a handled CXL clears `is_active_` before the thread's loop test. An NTF arriving in that window makes `Begin` set the flag again. `Reset` then zeroes `server_address_` and waits in its join, while the old thread loops on. Nothing is sent to it, so it times out, and its CXL to port 0 makes `UdpSocket::Send` throw. Uncaught, that ends the client process. `~ClientTransaction` has the same order: destroying the Client while its thread waits for a lost datagram ends the process the same way. A scratch run with the invariant `cAborted => cDtor = "live"` on the two-transfer model reaches this.
- **Stale datagrams (spec gap).** Nothing on the wire names the transfer. A late CXL of the previous transfer cancels the next one, on the server (keyed by IP) and on the client (the transaction socket is reused and never drained).

The spec's open question about the CXL validator is not a defect. `sizeof(TrftpCxl)` is 1 in C++, so `payload_len == sizeof - 1` accepts exactly the empty CXL.

## Not modelled, and the plan

**Not modelled:**
- URI parsing and the file-exists check. They throw before any state change.
- Socket set-up and `errno` paths other than `EINTR`. A failed `SetReadTimeout(3s)` in `ClientTransaction`'s constructor (its result is ignored) would leave the socket's 100 ms default; `setsockopt` on a fresh socket does not fail in practice.
- Construction. `Client` starts its listener in the member initialiser list before `file_handler_` and `transaction_` are constructed, and `Server` starts its dispatcher before `factory_` and `active_transactions_`. A datagram already waiting on the bound port reaches an object whose constructor has not run. The modules start from whole objects. Showing this race would take a violation run of its own, and every run the project can afford is spent on a finding more likely to occur. It is listed as a hazard.
- The inter-packet-gap value. Its clamping only changes timing.
- The file's contents and CRC. Write and read failures are the `IoFaults` branches.
- Transfers to several clients at once. They would need one transaction per client, with all the per-thread detail kept here, which is beyond what TLC explores in minutes. The map's race with one client is covered by `FoundEntryValid`.
- `AttachFileHandler` and `DetachFileHandler` after start-up. The handler is attached before any transfer and only its destruction is modelled. `DetachFileHandler` racing `OnFileReceived`'s test-then-call of `file_handler_` is listed as a hazard with no run.
- Logging (`ThreadStream` writes each message whole under a per-file mutex; nothing reads the output) and the examples.

**Next, in order of importance:**

1. Two clients sharing the server, with the per-client detail reduced.
2. The construction race and the `DetachFileHandler` race, should a run become free.
3. Reordering, and a second fault, in the two-transfer run, once a coarser client model makes room for them.
