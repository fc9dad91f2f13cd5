------------------------------ MODULE TaskPool ------------------------------
(***************************************************************************)
(* What a pool of worker threads promises to the code that uses it,        *)
(* without the mutex, the condition variable and the worker loop: a task   *)
(* that was accepted is started once, in the order of acceptance, by at    *)
(* most |Workers| threads at a time; a pool that was told to close accepts *)
(* nothing more, and is closed only when every accepted task has finished. *)
(* ThreadPool implements this specification.                               *)
(***************************************************************************)
EXTENDS Naturals, Sequences, FiniteSets

CONSTANTS Task,     \* the work items that may be submitted, each at most once
          Workers   \* the threads of the pool: only their number matters here

VARIABLES waiting,   \* accepted tasks that no thread has started, oldest first
          running,   \* the tasks being executed
          finished,  \* the tasks that were executed
          refused,   \* the tasks whose submission was rejected
          phase      \* "open", "closing" (destructor entered) or "closed"

vars == <<waiting, running, finished, refused, phase>>

Used == {waiting[i] : i \in DOMAIN waiting} \cup running \cup finished \cup refused

Init == /\ waiting = <<>>
        /\ running = {}
        /\ finished = {}
        /\ refused = {}
        /\ phase = "open"

Submit(t) == /\ phase = "open"
             /\ t \notin Used
             /\ waiting' = Append(waiting, t)
             /\ UNCHANGED <<running, finished, refused, phase>>

Refuse(t) == /\ phase = "closing"
             /\ t \notin Used
             /\ refused' = refused \cup {t}
             /\ UNCHANGED <<waiting, running, finished, phase>>

Start == /\ waiting # <<>>
         /\ Cardinality(running) < Cardinality(Workers)
         /\ running' = running \cup {Head(waiting)}
         /\ waiting' = Tail(waiting)
         /\ UNCHANGED <<finished, refused, phase>>

Finish(t) == /\ t \in running
             /\ running' = running \ {t}
             /\ finished' = finished \cup {t}
             /\ UNCHANGED <<waiting, refused, phase>>

Close == /\ phase = "open"
         /\ phase' = "closing"
         /\ UNCHANGED <<waiting, running, finished, refused>>

Terminate == /\ phase = "closing"
             /\ waiting = <<>>
             /\ running = {}
             /\ phase' = "closed"
             /\ UNCHANGED <<waiting, running, finished, refused>>

Next == \/ \E t \in Task : Submit(t) \/ Refuse(t) \/ Finish(t)
        \/ Start
        \/ Close
        \/ Terminate

Spec == Init /\ [][Next]_vars

(* Every accepted task is started and finishes, and closing ends.          *)
FairSpec == /\ Spec
            /\ WF_vars(Start)
            /\ \A t \in Task : WF_vars(Finish(t))
            /\ WF_vars(Terminate)
=============================================================================
