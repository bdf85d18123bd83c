SPECIFICATION Spec
CONSTANTS
    Client = c
    Server = s
    SeqMod = 16
    MSS = 1
    BUF = 3
    InitSsthresh = 1
    DupAckThresh = 3
    SynRetryMax = 1
    U8 = 4
    Isn <- MCIsn
    MaxWrite <- Three
    Closers = {}
    NetCap = 2
INVARIANT
    KarnRule
CHECK_DEADLOCK FALSE
