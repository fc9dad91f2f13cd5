\* Every failure may happen.  The program ends, and it may hang or have
\* undefined behaviour, so deadlock is not an error here.
SPECIFICATION FairSpec
CONSTANTS
    m1 = m1
    m2 = m2
    e1 = e1
    e2 = e2
    Msg <- MCMsg
    Exchange <- MCExchange
    Sender <- MCSender
    To <- MCTo
    Wants <- MCWants
    Packet <- MCPacket
    NoPacket = NoPacket
    NoExchange = NoExchange
    MaxCalls = 2
    MaxItems = 4
    CloseMayThrow = TRUE
CHECK_DEADLOCK FALSE
INVARIANTS
    TypeOK
    SendStatusIsTrue
    OldTextMeansFailure
    RepliesAreReal
    EndIsQuiet
PROPERTIES
    StopItemReturns
    ExitEnds
