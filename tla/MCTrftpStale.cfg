\* Two consecutive transfers, up to two datagrams lost: a CXL sent for the
\* first transfer reaches the second, on either side.
CONSTANTS
    HeaderSize = 32
    PayloadSize = 1408
    SizeofCxl = 1
    FileSize <- TwoPackets
    FileVersion = 7
    IoFaults = FALSE
    MaxAborts = 0
    Transfers = 2
    ServerShutdown = FALSE
    ClientShutdown = FALSE
    MaxFaults = 2
    FaultKinds <- OnlyLoss
SPECIFICATION Spec
PROPERTY OwnTransferOnly
