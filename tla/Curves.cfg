SPECIFICATION CertsSpec
CONSTANTS
    Anchors <- MCAnchors
    Lists <- MCLists
    Hosts <- MCHosts
    Lower <- MCLower
    TRUST_MAX = 2
    X509_SAN_MAX = 2
    CHAIN_MAX = 2
INVARIANTS
    CurveChains
CHECK_DEADLOCK FALSE
