\* Two consecutive transfers on a perfect network: the control thread
\* erases the transaction between a find (the dispatcher's, or the
\* application's AbortFileTransfer) and the use of its iterator.
CONSTANTS
    HeaderSize = 32
    PayloadSize = 1408
    SizeofCxl = 1
    FileSize <- TwoPackets
    FileVersion = 7
    IoFaults = FALSE
    MaxAborts = 1
    Transfers = 2
    ServerShutdown = FALSE
    ClientShutdown = FALSE
    MaxFaults = 0
    FaultKinds <- OnlyLoss
SPECIFICATION Spec
INVARIANT FoundEntryValid
