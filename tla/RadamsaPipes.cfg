CONSTANTS
    Threads = {t1, t2}
    Proxy = proxy
    Failing = {"pipe", "fork", "exec", "malloc"}

SPECIFICATION FairSpec

CHECK_DEADLOCK FALSE

INVARIANTS
    TypeOK
    ChildReaped
    DescriptorsClosed
    ProxySurvives

PROPERTIES
    ReturnsUnlessInherited
