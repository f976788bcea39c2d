------------------------------- MODULE MCTrftp -------------------------------
(***************************************************************************)
(* Instances of Trftp for TLC.  The wire sizes are those of common.h; the  *)
(* file sizes give the geometries the runs need.                           *)
(***************************************************************************)
EXTENDS Trftp

\* Three packets of 1408, 1408 and 100 bytes: first, middle and last DATA
\* datagrams are all different cases of the client's checks.
ThreePackets == 2 * 1408 + 100

\* Two packets of 1408 and 100 bytes: a first and a last DATA datagram.
TwoPackets == 1408 + 100

\* Two full packets: the last one has 1408 bytes, size % 1408 = 0.
TwoFullPackets == 2 * 1408

\* One packet shorter than a full one.
OneShortPacket == 1000

OnlyLoss == {"lose"}
LossAndCorruption == {"lose", "corrupt"}
LossAndDuplication == {"lose", "dup"}
OnlyDuplication == {"dup"}
AllButDuplication == {"lose", "corrupt", "intr"}
AllButDuplicationAndReorder == {"lose", "corrupt", "reorder", "intr"}
=============================================================================
