CONSTANTS
    Clients = {c1, c2}
    Entities = {c1}
    Home <- OwnContainer
    None = none
    Pids = {p1, p2}
    SocketCap = 1
    Failures = {"list", "proxy", "fork"}

SPECIFICATION FairSpec

CHECK_DEADLOCK FALSE

PROPERTIES
    StartedAndRelaunched
