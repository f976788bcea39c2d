\* Two consecutive transfers of a two-packet file to one client; the
\* network loses or duplicates one datagram; the host may destroy the
\* Client at any point.
CONSTANTS
    HeaderSize = 32
    PayloadSize = 1408
    SizeofCxl = 1
    FileSize <- TwoPackets
    FileVersion = 7
    IoFaults = FALSE
    MaxAborts = 0
    Transfers = 2
    ServerShutdown = FALSE
    ClientShutdown = TRUE
    MaxFaults = 1
    FaultKinds <- LossAndDuplication
SPECIFICATION Spec
INVARIANT AliveHasThread
INVARIANT HandlerOncePerFin
PROPERTY BothSidesTerminate
PROPERTY ShutdownCompletes
PROPERTY HandlerOutlivesCalls
