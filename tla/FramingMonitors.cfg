CONSTANTS
    Senders = {m1, m2}
    Messages = {"CRASH"}
    Payload <- Bytes
    Outbox <- OneEach
    MaxMsgSize = 4096
    SocketCap = 8

SPECIFICATION FairSpec

CHECK_DEADLOCK FALSE

PROPERTIES
    SomeMessageArrives
