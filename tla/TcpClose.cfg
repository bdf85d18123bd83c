SPECIFICATION Spec
CONSTANTS
    Client = c
    Server = s
    SeqMod = 16
    MSS = 1
    BUF = 2
    InitSsthresh = 3
    DupAckThresh = 3
    SynRetryMax = 1
    U8 = 4
    Isn <- MCIsn
    MaxWrite <- TwoByte
    Closers = {c, s}
    NetCap = 2
INVARIANTS
    EofMeansClosed
    FinAcked
CHECK_DEADLOCK FALSE
