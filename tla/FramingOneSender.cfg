CONSTANTS
    Senders = {main}
    Messages = {"RESTART"}
    Payload <- Bytes
    Outbox <- Restarts
    MaxMsgSize = 4096
    SocketCap = 10

SPECIFICATION FairSpec

CHECK_DEADLOCK FALSE

INVARIANTS
    TypeOK
    NeverDesynchronised

PROPERTIES
    ImplementsChannel
