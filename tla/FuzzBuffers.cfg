CONSTANTS
    Byte <- MCByte
    Zero = "zero"
    Junk = junk
    Null = null
    Inputs <- MCInputs
    Outputs <- MCOutputs
    MinOutput = 4
    MaxBuffer = 13

SPECIFICATION FairSpec

INVARIANTS
    TypeOK
    NoLeak
    Initialised
    OriginalIntact
    FuzzedLength

PROPERTIES
    CallReturns

\* A call may never come back from radamsa.
CHECK_DEADLOCK FALSE
