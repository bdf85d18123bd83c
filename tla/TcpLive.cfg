SPECIFICATION FairSpec
CONSTANTS
    Client = c
    Server = s
    SeqMod = 16
    MSS = 2
    BUF = 2
    InitSsthresh = 3
    DupAckThresh = 3
    SynRetryMax = 1
    U8 = 4
    Isn <- MCIsn
    MaxWrite <- Three
    Closers = {}
    NetCap = 1
PROPERTY
    Delivery
CHECK_DEADLOCK FALSE
