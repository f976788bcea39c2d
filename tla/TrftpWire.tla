------------------------------ MODULE TrftpWire ------------------------------
(***************************************************************************)
(* Framing of TRFTP datagrams (include/trftp/common.h), as written by       *)
(* ServerTransaction::CompleteHeader and ClientTransaction::SendMessage,   *)
(* and checked by ValidateMessageIntegrity on both sides.                  *)
(*                                                                         *)
(* A datagram is a record of the header fields the peers look at:          *)
(*   xid  message kind            tpn, psn, pl  header fields              *)
(*   len  bytes handed to sendto  arg  the one payload word that matters   *)
(*   bad  the datagram was corrupted on the wire                           *)
(*   trn  ghost: the transfer whose transaction sent it (0 until stamped)   *)
(* The CRC is not computed: the sender's CRC covers HeaderSize + pl bytes  *)
(* and the receiver's covers len bytes, so the two agree exactly when      *)
(* len = HeaderSize + pl and nothing was corrupted on the way.             *)
(***************************************************************************)
EXTENDS Naturals

CONSTANTS
    HeaderSize,     \* sizeof(TrftpHeader) = 32
    PayloadSize,    \* sizeof(TrftpMessage::payload) = sizeof(TrftpData) = 1408
    SizeofCxl       \* sizeof(TrftpCxl): an empty packed struct, 1 byte in C++

\* Sockets: the server's, the client's listening one, the transaction's.
Ports == {"S", "L", "T"}

Kinds == {"NTF", "CHK", "INFO", "RDY", "CXL", "DATA", "RTX", "DONE", "FIN"}

\* sizeof of the fixed payload structs of common.h.
SizeofNtf  == 4
SizeofChk  == 4
SizeofInfo == 12
SizeofRdy  == 12
SizeofDone == 12
SizeofRtx  == 4

\* tpn = ceil(size / 1408), as in the ServerTransaction constructor and in
\* the client's INFO handler.
TotalPacketNumber(size) == (size + PayloadSize - 1) \div PayloadSize

\* ServerTransaction::CompleteHeader(msg, xid, tpl, psn) together with the
\* length SendMessage / SendFileAsync hand to UdpSocket::Send.  For non-DATA
\* kinds tpl is the payload length; for DATA it is the file size.
ServerDatagram(xid, tpl, psn, sendLen, a) ==
    LET tpn == IF tpl = 0 THEN 1 ELSE TotalPacketNumber(tpl)
    IN  [xid |-> xid, tpn |-> tpn, psn |-> psn,
         pl  |-> IF psn = tpn - 1 THEN tpl % PayloadSize ELSE PayloadSize,
         len |-> HeaderSize + sendLen, arg |-> a, bad |-> FALSE, trn |-> 0]

\* Mutant: the last packet's length taken as size % 1408, like the pl of
\* CompleteHeader.
SendLenModulo(size, psn) ==
    IF psn = TotalPacketNumber(size) - 1 THEN size % PayloadSize ELSE PayloadSize

\* payload_len of SendFileAsync for packet psn: 1408, or size - file_offset
\* (file_offset = psn * 1408) for the last packet.
SendLen(size, psn) ==
    IF psn = TotalPacketNumber(size) - 1 THEN size - psn * PayloadSize ELSE PayloadSize

\* The bytes SendFileAsync reads for packets 0..n-1 of a file of size bytes.
RECURSIVE BytesSent(_, _)
BytesSent(size, n) == IF n = 0 THEN 0 ELSE BytesSent(size, n - 1) + SendLen(size, n - 1)

\* The DATA datagram of SendFileAsync for sequence number psn of a file of
\* `size` bytes.
DataDatagram(size, psn) == ServerDatagram("DATA", size, psn, SendLen(size, psn), 0)

\* ClientTransaction::SendMessage: tpn = 1, psn = 0, tpl = pl = payload_len.
ClientDatagram(xid, payloadLen, a) ==
    [xid |-> xid, tpn |-> 1, psn |-> 0, pl |-> payloadLen,
     len |-> HeaderSize + payloadLen, arg |-> a, bad |-> FALSE, trn |-> 0]

\* ValidateMessageIntegrity: CRC, magic, len = header + pl, tpn > psn.
Intact(m) ==
    /\ ~m.bad
    /\ m.len = HeaderSize + m.pl
    /\ m.psn < m.tpn

PayloadLen(m) == m.len - HeaderSize

\* Ghost: mark datagram m as sent by the transaction of transfer t.
Stamp(m, t) == [m EXCEPT !.trn = t]

Datagrams == [xid : Kinds, tpn : Nat, psn : Nat, pl : Nat, len : Nat,
              arg : Nat, bad : BOOLEAN, trn : Nat]
=============================================================================
