\* Two callers, three queries for two workers, two of which ask for the same
\* rows; the client may be destroyed at any moment and a callback may throw.
\* A locked mMutex is a possible end, so deadlock is no error here.
SPECIFICATION Spec
CONSTANTS
    Msg = {"m1", "m3", "m4"}
    Query = {"q1", "q3", "q5"}
    Callers = {c1, c2}
    Workers = {w1, w2}
    Known = {"send_queue"}
    NoName = ""
    NameOf <- MCNameOf
    NoJob = "none"
    CallbackMayThrow = TRUE
CHECK_DEADLOCK FALSE
INVARIANTS
    TypeOK
    StatusIsTrue
    AnswersAreRecent
    PoolOwnsQueries
    SomebodyGoesOn
