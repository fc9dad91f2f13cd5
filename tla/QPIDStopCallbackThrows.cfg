\* A callback may throw; mMutex is shared, so one exchange is enough.
SPECIFICATION FairSpec
CONSTANTS
    Exchange = {send_queue}
    Topic = {}
    Msg = {m1}
    NoMsg = NoMsg
    NoExchange = NoExchange
    CallbackMayThrow = TRUE
    CloseMayThrow = FALSE
CHECK_DEADLOCK FALSE
PROPERTIES
    StopReturns
