\* Three workers, two callers, four tasks: more tasks than workers, and two
\* enqueues in flight while tasks enqueue too.  No symmetry: it would not be
\* sound for the liveness properties and the refinement.
SPECIFICATION FairSpec
CONSTANTS
    Task = {t1, t2, t3, t4}
    Workers = {w1, w2, w3}
    Callers = {c1, c2}
    NoTask = NoTask
INVARIANTS
    TypeOK
    NoTaskLost
    NoLostWakeup
    NobodySleepsThroughStop
    DestroyedIsDrained
PROPERTIES
    DestructorReturns
    AcceptedTasksRun
    ImplementsTaskPool
