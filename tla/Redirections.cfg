CONSTANTS
    ipA = ipA
    ipB = ipB
    ipC = ipC
    ipS = ipS
    ipT = ipT
    p5 = p5
    p6 = p6
    Absent = absent
    Null = null
    Dynamic = dynamic
    Configs <- MCConfigs
    Addresses <- MCAddresses
    SmallestPort = TRUE
    ProxyPorts = {1, 2, 3, 4, 5, 6, 7, 8, 9, 10, 11, 12, 13, 14, 15, 16}
    LauncherPort = 3
    PacketPorts = {p5, p6}

SPECIFICATION Spec

CHECK_DEADLOCK FALSE

INVARIANTS
    TypeOK
    AcceptedParses
    ReachesItsConnection
    PortsKept
    ConnectsThroughProxy
