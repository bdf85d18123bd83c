SPECIFICATION FairSpec
CONSTANTS
    Client = c
    Server = s
    SeqMod = 16
    MSS = 1
    BUF = 1
    InitSsthresh = 3
    DupAckThresh = 3
    SynRetryMax = 1
    U8 = 4
    Isn <- MCIsn
    MaxWrite <- OneByte
    Closers = {c}
    NetCap = 1
PROPERTY
    Teardown
CHECK_DEADLOCK FALSE
