\* The close of receiveStop may throw; one exchange is enough.
SPECIFICATION FairSpec
CONSTANTS
    Exchange = {send_queue}
    Topic = {}
    Msg = {m1}
    NoMsg = NoMsg
    NoExchange = NoExchange
    CallbackMayThrow = FALSE
    CloseMayThrow = TRUE
CHECK_DEADLOCK FALSE
PROPERTIES
    StopReturns
