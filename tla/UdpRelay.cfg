CONSTANTS
    Dynamic = dynamic
    Port <- OneDynamic
    Ports <- SourcePorts
    NoPort = 65535
    Requesters = {"A"}
    EmptyDatagrams = TRUE
    MayIgnore = FALSE
    Failing = {"pthread_create", "malloc", "radamsa"}
    MaxRequests = 3

SPECIFICATION FairSpec

CHECK_DEADLOCK FALSE

INVARIANTS
    TypeOK
    NoFallback
    AnswerReachesRequester
    QueueOfDynamicSide

PROPERTIES
    EveryDatagramTaken
