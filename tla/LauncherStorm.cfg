CONSTANTS
    Clients = {c1}
    Entities = {e1, e2}
    Home <- OneContainer
    None = none
    Pids = {p1, p2, p3}
    SocketCap = 1
    Failures = {}

SPECIFICATION FairSpec

CHECK_DEADLOCK FALSE

PROPERTIES
    RestartsEnd
