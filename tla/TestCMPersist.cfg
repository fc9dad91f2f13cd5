\* The database may fail, nothing else has to.
SPECIFICATION Spec
CONSTANTS
    m1 = m1
    m2 = m2
    e1 = e1
    e2 = e2
    Msg <- MCMsg
    Exchange <- MCExchange
    Sender <- MCSender
    To <- MCTo
    Wants <- MCWants
    Packet <- MCPacket
    NoPacket = NoPacket
    NoExchange = NoExchange
    MaxCalls = 1
    MaxItems = 4
    CloseMayThrow = FALSE
CHECK_DEADLOCK FALSE
INVARIANT
    AcknowledgedIsStored
