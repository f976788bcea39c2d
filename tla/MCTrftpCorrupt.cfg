\* A three-packet file, one datagram corrupted on the wire.
CONSTANTS
    HeaderSize = 32
    PayloadSize = 1408
    SizeofCxl = 1
    FileSize <- ThreePackets
    FileVersion = 7
    IoFaults = FALSE
    MaxAborts = 0
    Transfers = 1
    ServerShutdown = FALSE
    ClientShutdown = FALSE
    MaxFaults = 1
    FaultKinds <- LossAndCorruption
SPECIFICATION Spec
INVARIANT AliveHasThread
