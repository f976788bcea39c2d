\* A three-packet file, a perfect network, no abort, no I/O failure:
\* does every transfer return FIN?
CONSTANTS
    HeaderSize = 32
    PayloadSize = 1408
    SizeofCxl = 1
    FileSize <- ThreePackets
    FileVersion = 7
    IoFaults = FALSE
    MaxAborts = 0
    Transfers = 1
    ServerShutdown = FALSE
    ClientShutdown = FALSE
    MaxFaults = 0
    FaultKinds <- OnlyLoss
SPECIFICATION Spec
INVARIANT CleanRunSucceeds
