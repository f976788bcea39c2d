\* A file of two full packets, no faults: the last DATA datagram's header.
CONSTANTS
    HeaderSize = 32
    PayloadSize = 1408
    SizeofCxl = 1
    FileSize <- TwoFullPackets
    FileVersion = 7
    IoFaults = FALSE
    MaxAborts = 0
    Transfers = 1
    ServerShutdown = FALSE
    ClientShutdown = FALSE
    MaxFaults = 0
    FaultKinds <- OnlyLoss
SPECIFICATION Spec
INVARIANT DataFramesIntact
