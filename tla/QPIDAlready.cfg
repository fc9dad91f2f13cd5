\* A receiver whose thread has ended keeps its entry in activeReceivers.
SPECIFICATION Spec
CONSTANTS
    Exchange = {send_queue, send_topic}
    Topic = {send_topic}
    Msg = {m1, m2}
    NoMsg = NoMsg
    NoExchange = NoExchange
    CallbackMayThrow = FALSE
    CloseMayThrow = FALSE
CHECK_DEADLOCK FALSE
PROPERTIES
    AlreadyMeansRunning
