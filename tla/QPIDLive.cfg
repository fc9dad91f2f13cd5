\* Callbacks and closes do not throw; connections, fetches, connects and
\* thread creations still fail.  The main thread may stop calling and the
\* messages run out, so deadlock is not an error.
SPECIFICATION FairSpec
CONSTANTS
    Exchange = {send_queue, send_topic}
    Topic = {send_topic}
    Msg = {m1, m2}
    NoMsg = NoMsg
    NoExchange = NoExchange
    CallbackMayThrow = FALSE
    CloseMayThrow = FALSE
CHECK_DEADLOCK FALSE
INVARIANTS
    JoinedThreadGoesOn
PROPERTIES
    StopReturns
    DestructorReturns
    BacklogIsWorkedOff
