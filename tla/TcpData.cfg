SPECIFICATION Spec
CONSTANTS
    Client = c
    Server = s
    SeqMod = 16
    MSS = 2
    BUF = 3
    InitSsthresh = 3
    DupAckThresh = 3
    SynRetryMax = 1
    U8 = 4
    Isn <- MCIsn
    MaxWrite <- OneWay
    Closers = {}
    NetCap = 2
INVARIANTS
    StreamIntegrity
    AckedIsDelivered
    SenderWindow
PROPERTY
    StreamSpec
CHECK_DEADLOCK FALSE
