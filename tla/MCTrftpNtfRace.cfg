\* Two consecutive transfers on a perfect network: the next NTF reaches the
\* listener while the previous transaction's thread is still in the host's
\* file handler; Begin's Reset zeroes server_address_ before its join.
CONSTANTS
    HeaderSize = 32
    PayloadSize = 1408
    SizeofCxl = 1
    FileSize <- TwoPackets
    FileVersion = 7
    IoFaults = FALSE
    MaxAborts = 0
    Transfers = 2
    ServerShutdown = FALSE
    ClientShutdown = FALSE
    MaxFaults = 0
    FaultKinds <- OnlyLoss
SPECIFICATION Spec
INVARIANT ClientNeverAborts
