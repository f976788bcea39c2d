\* One transfer of a three-packet file; the network loses, corrupts or
\* reorders datagrams, or a signal interrupts the client's receive, up to
\* three times; the application aborts at most once and destroys the
\* Server after the call; file I/O can fail.
CONSTANTS
    HeaderSize = 32
    PayloadSize = 1408
    SizeofCxl = 1
    FileSize <- ThreePackets
    FileVersion = 7
    IoFaults = TRUE
    MaxAborts = 1
    Transfers = 1
    ServerShutdown = TRUE
    ClientShutdown = FALSE
    MaxFaults = 3
    FaultKinds <- AllButDuplicationAndReorder
SPECIFICATION Spec
INVARIANT TypeOK
INVARIANT SenderReadsWholeFile
PROPERTY TransferRefinement
PROPERTY BothSidesTerminate
PROPERTY ShutdownCompletes
