CONSTANTS
    Handlers = {h1, h2, h3}
    Main = main
    NoThread = none

SPECIFICATION FairSpec

INVARIANTS
    TypeOK
    MutexDiscipline
    NoLostWakeup
    NothingForgotten

PROPERTIES
    CrashServed
    ImplementsSignal
