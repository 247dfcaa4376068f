CONSTANTS
    Clients = {c1}
    Entities = {e1, e2}
    Home <- OneContainer
    None = none
    Pids = {p1, p2}
    SocketCap = 1
    Failures = {"proxy", "fork", "monitor"}

SPECIFICATION FairSpec

CHECK_DEADLOCK FALSE

INVARIANTS
    NoOrphan
    OneProxy
    OneInstance

PROPERTIES
    RestartCompletes
