\* One query is enough to show that PG_SUCCESS is returned before it runs.
SPECIFICATION FairSpec
CONSTANTS
    Msg = {"m1"}
    Query = {"q1"}
    Callers = {c1}
    Workers = {w1, w2}
    Known = {"send_queue"}
    NoName = ""
    NameOf <- MCNameOf
    NoJob = "none"
    CallbackMayThrow = FALSE
CHECK_DEADLOCK FALSE
PROPERTIES
    SuccessIsAnswered
