---------------------------- MODULE TrftpTransfer ----------------------------
(***************************************************************************)
(* What one TRFTP transfer promises (spec sections 4.3, 4.4 and 8),        *)
(* independent of datagrams and threads:                                   *)
(*   verified   the client holds the whole file, size and CRC checked      *)
(*   outcome    what StartFileTransfer returned: "none" while it runs      *)
(*   delivered  the client handed the file to the host's handler           *)
(* The server may report FIN only for a verified file, and the client      *)
(* hands over only a file the server reported as FIN.                      *)
(***************************************************************************)
VARIABLES verified, outcome, delivered

vars == <<verified, outcome, delivered>>

Init ==
    /\ verified = FALSE
    /\ outcome = "none"
    /\ delivered = FALSE

Verify ==
    /\ ~verified
    /\ verified' = TRUE
    /\ UNCHANGED <<outcome, delivered>>

Succeed ==
    /\ outcome = "none"
    /\ verified
    /\ outcome' = "FIN"
    /\ UNCHANGED <<verified, delivered>>

GiveUp ==
    /\ outcome = "none"
    /\ outcome' \in {"NTF", "CXL"}
    /\ UNCHANGED <<verified, delivered>>

Deliver ==
    /\ outcome = "FIN"
    /\ ~delivered
    /\ delivered' = TRUE
    /\ UNCHANGED <<verified, outcome>>

Next == Verify \/ Succeed \/ GiveUp \/ Deliver

Spec == Init /\ [][Next]_vars
=============================================================================
