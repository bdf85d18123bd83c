SPECIFICATION OutsideSpec
CONSTANTS
    Host = {ns, gw, pc}
    ns = ns
    dhcp1 = dhcp1
    dhcp2 = dhcp2
    name1 = name1
    name2 = name2
    card1 = card1
    card2 = card2
    Card = {card1, card2}
    gw = gw
    pc = pc
    NameServer = ns
    DhcpServer = {dhcp1, dhcp2}
    Name = {name1, name2}
    Frame <- MCFrame
    NoFrame = NoFrame
    NETIO_RX_QUEUE = 3
    PIECES = 2
    ARP_CACHE_SIZE = 2
    UDP_PORT_TABLE_SIZE = 2
    EPH_FIRST = 1
    EPH_LAST = 1
    MaxCalls = 2
    MaxArrivals = 4
    Machines <- MCMachines
    Ratio = 2
    Sectors = 4
    SectorData = {0,1}
    Patterns <- MCPatterns
    Counts = {2}
    QDepth = 2
    MaxPrd = 2
    MaxDevices = 2
    Table <- MCTable
    MaxParts = 1
    TlsRoles = {"client","server"}
    RxMax = 3
    Flights <- MCFlights
    ServerWrites <- MCWrites
    MaxRecords = 3
    Asked = {1,2,3}
    Anchors <- MCAnchors
    Lists <- MCLists
    Hosts <- MCHosts
    Lower <- MCLower
    TRUST_MAX = 2
    X509_SAN_MAX = 2
    CHAIN_MAX = 2
    Responses <- MCResponses
    RCV_MAX = 5
    RespMax = 20
SYMMETRY Symmetry
INVARIANTS
    FrameWhole
    LookupLatest
    AnswerRight
    ListenersInUse
    HandshakeAgreed
    ReadsInOrder
    ChainTrusted
    
PROPERTIES
    QueueSpec
    LeaseRight
    
CHECK_DEADLOCK FALSE
