CONSTANTS
    Listeners = {l1}
    Conns = {c1, c2}
    Via <- OneListener
    None = none
    Limits = {2, 3, 4}
    Ending <- EventfulServer
    Stalling <- EventfulServer
    Failing = {"connect", "pthread_create", "malloc", "radamsa"}
    MaxSends <- Several

SPECIFICATION FairSpec

CHECK_DEADLOCK FALSE

INVARIANTS
    TypeOK
    InOrder

PROPERTIES
    EveryChunkTaken
