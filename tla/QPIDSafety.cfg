\* Every failure may happen.  A hang or std::terminate is a possible end, so
\* deadlock is not an error here; the liveness run excludes it.
SPECIFICATION Spec
CONSTANTS
    Exchange = {send_queue, send_topic}
    Topic = {send_topic}
    Msg = {m1, m2}
    NoMsg = NoMsg
    NoExchange = NoExchange
    CallbackMayThrow = TRUE
    CloseMayThrow = TRUE
SYMMETRY Symmetry
CHECK_DEADLOCK FALSE
INVARIANTS
    TypeOK
    NoMessageLost
    AckCoversMessageInHand
    NoThreadOutlivesReceiver
    CallbacksExclude
    RegisteredIsActive
PROPERTIES
    ImplementsMessageDelivery
