\* Three queries for two workers and one of an unknown exchange, one caller
\* and one message: no callback throws.  After the destructor, or a crash,
\* nothing happens any more, so deadlock is no error here.
SPECIFICATION FairSpec
CONSTANTS
    Msg = {"m1"}
    Query = {"q1", "q2", "q3", "q4"}
    Callers = {c1}
    Workers = {w1, w2}
    Known = {"send_queue"}
    NoName = ""
    NameOf <- MCNameOf
    NoJob = "none"
    CallbackMayThrow = FALSE
CHECK_DEADLOCK FALSE
PROPERTIES
    QueriesEnd
    DestructorReturns
