CONSTANTS
    Clients = {c1, c2}
    Entities = {c1, c2}
    Home <- OwnContainer
    None = none
    Pids = {p1}
    SocketCap = 1
    Failures = {"list", "accept", "thread", "child"}

SPECIFICATION Spec

SYMMETRY Interchangeable

CHECK_DEADLOCK FALSE

INVARIANTS
    TypeOK
    TwiceOnlyByRace
