\* A three-packet file, nothing lost, no abort, no I/O failure.
CONSTANTS
    HeaderSize = 32
    PayloadSize = 1408
    SizeofCxl = 1
    FileSize <- ThreePackets
    FileVersion = 7
    IoFaults = FALSE
    MaxAborts = 0
    Transfers = 1
    ServerShutdown = FALSE
    ClientShutdown = FALSE
    MaxFaults = 0
    FaultKinds <- OnlyLoss
SPECIFICATION Spec
PROPERTY DoneAccepted
