--------------------------- MODULE TaskPoolProofs ---------------------------
(***************************************************************************)
(* What follows from the specification of a pool, for every set of tasks   *)
(* and every finite set of threads: whoever implements TaskPool, or uses a *)
(* pool that does, may rely on it.                                         *)
(***************************************************************************)
EXTENDS TaskPool, QueueLemmas, FiniteSetTheorems, TLAPS

(* A task is in one place: it waits once, runs, has finished, or was       *)
(* refused.                                                                *)
OnePlace == /\ waiting \in Seq(Task)
            /\ NoRepeat(waiting)
            /\ running \cup finished \cup refused \subseteq Task
            /\ Elements(waiting) \cap (running \cup finished \cup refused) = {}
            /\ running \cap (finished \cup refused) = {}
            /\ finished \cap refused = {}

(* No more tasks run than there are threads.                               *)
Bounded == IsFiniteSet(running) /\ Cardinality(running) <= Cardinality(Workers)

(* A pool that is closed has nothing left, and nothing was refused before  *)
(* it was told to close.                                                   *)
Drained == /\ phase \in {"open", "closing", "closed"}
           /\ phase = "closed" => waiting = <<>> /\ running = {}
           /\ phase = "open" => refused = {}

(* A task that starts never ran before, and was not refused; one that has  *)
(* finished or was refused stays so.                                       *)
RunOnce == /\ (running' \ running) \cap (finished \cup refused) = {}
           /\ finished \subseteq finished' /\ refused \subseteq refused'
           /\ running \subseteq running' \cup finished'

(* Used is what OnePlace speaks of.                                        *)
LEMMA UsedTasks == Used = Elements(waiting) \cup running \cup finished \cup refused
BY DEF Used, Elements

(* No step puts a task in two places.                                      *)
LEMMA PlaceStep == OnePlace /\ [Next]_vars => OnePlace'
<1> SUFFICES ASSUME OnePlace, [Next]_vars PROVE OnePlace'
  OBVIOUS
<1> USE DEF OnePlace
<1>1. ASSUME NEW t \in Task, Submit(t) PROVE OnePlace'
  <2>1. t \notin Elements(waiting) \cup running \cup finished \cup refused
    BY <1>1, UsedTasks DEF Submit
  <2>2. /\ waiting' \in Seq(Task) /\ NoRepeat(waiting')
        /\ Elements(waiting') = Elements(waiting) \cup {t}
    BY <1>1, <2>1, AppendElements DEF Submit
  <2> QED
    BY <1>1, <2>1, <2>2 DEF Submit
<1>2. ASSUME NEW t \in Task, Refuse(t) PROVE OnePlace'
  BY <1>2, UsedTasks DEF Refuse
<1>3. ASSUME NEW t \in Task, Finish(t) PROVE OnePlace'
  BY <1>3 DEF Finish
<1>4. CASE Start
  <2>1. /\ waiting' \in Seq(Task) /\ NoRepeat(waiting')
        /\ Elements(waiting') = Elements(waiting) \ {Head(waiting)}
        /\ Head(waiting) \in Elements(waiting) /\ Head(waiting) \in Task
    BY <1>4, TailElements DEF Start
  <2> QED
    BY <1>4, <2>1 DEF Start
<1>5. CASE Close \/ Terminate \/ UNCHANGED vars
  BY <1>5 DEF Close, Terminate, vars
<1> QED
  BY <1>1, <1>2, <1>3, <1>4, <1>5 DEF Next

(* Every accepted task is in one place at a time.                          *)
THEOREM TasksHaveOnePlace == Spec => []OnePlace
<1>1. Init => OnePlace
  BY DEF Init, OnePlace, NoRepeat, Elements
<1> QED
  BY <1>1, PlaceStep, PTL DEF Spec

(* At most as many tasks run as the pool has threads.                      *)
THEOREM ThreadsSuffice == ASSUME IsFiniteSet(Workers) PROVE Spec => []Bounded
<1>0. Cardinality(Workers) \in Nat
  BY FS_CardinalityType
<1>1. Init => Bounded
  BY <1>0, FS_EmptySet DEF Init, Bounded
<1>2. Bounded /\ [Next]_vars => Bounded'
  <2> SUFFICES ASSUME Bounded, [Next]_vars PROVE Bounded'
    OBVIOUS
  <2>1. Cardinality(running) \in Nat
    BY FS_CardinalityType DEF Bounded
  <2>2. CASE Start
    <3>1. running' = running \cup {Head(waiting)} /\ Cardinality(running) < Cardinality(Workers)
      BY <2>2 DEF Start
    <3>2. /\ IsFiniteSet(running')
          /\ Cardinality(running') \in {Cardinality(running), Cardinality(running) + 1}
      <4> DEFINE t == Head(waiting)
      <4>1. /\ IsFiniteSet(running \cup {t})
            /\ Cardinality(running \cup {t}) =
                  IF t \in running THEN Cardinality(running) ELSE Cardinality(running) + 1
        BY FS_AddElement DEF Bounded
      <4> QED
        BY <3>1, <4>1
    <3> QED
      BY <1>0, <2>1, <3>1, <3>2 DEF Bounded
  <2>3. ASSUME NEW t \in Task, Finish(t) PROVE Bounded'
    <3>1. running' \subseteq running
      BY <2>3 DEF Finish
    <3>2. IsFiniteSet(running') /\ Cardinality(running') <= Cardinality(running)
      BY <3>1, FS_Subset DEF Bounded
    <3>3. Cardinality(running') \in Nat
      BY <3>2, FS_CardinalityType
    <3> QED
      BY <1>0, <2>1, <3>2, <3>3 DEF Bounded
  <2>4. CASE UNCHANGED running
    BY <2>4 DEF Bounded
  <2>5. ASSUME NEW t \in Task, Submit(t) \/ Refuse(t) PROVE UNCHANGED running
    BY <2>5 DEF Submit, Refuse
  <2>6. Close \/ Terminate \/ UNCHANGED vars => UNCHANGED running
    BY DEF Close, Terminate, vars
  <2> QED
    BY <2>2, <2>3, <2>4, <2>5, <2>6 DEF Next
<1> QED
  BY <1>1, <1>2, PTL DEF Spec

(* Closing drains: no accepted task is left in a closed pool.              *)
THEOREM ClosedIsDrained == Spec => []Drained
<1>1. Init => Drained
  BY DEF Init, Drained
<1>2. Drained /\ [Next]_vars => Drained'
  BY DEF Drained, Next, vars, Submit, Refuse, Start, Finish, Close, Terminate
<1> QED
  BY <1>1, <1>2, PTL DEF Spec

(* No task is started twice, or after it was refused, and none that was    *)
(* started disappears before it has finished.                              *)
THEOREM TasksRunOnce == Spec => [][RunOnce]_vars
<1>1. OnePlace /\ [Next]_vars => [RunOnce]_vars
  <2> SUFFICES ASSUME OnePlace, Next PROVE RunOnce
    OBVIOUS
  <2> USE DEF OnePlace, RunOnce
  <2>1. CASE Start
    <3>1. Head(waiting) \in Elements(waiting)
      BY <2>1, TailElements DEF Start
    <3> QED
      BY <2>1, <3>1 DEF Start
  <2>2. CASE \E t \in Task : Submit(t) \/ Refuse(t) \/ Finish(t)
    BY <2>2 DEF Submit, Refuse, Finish
  <2>3. CASE Close \/ Terminate
    BY <2>3 DEF Close, Terminate
  <2> QED
    BY <2>1, <2>2, <2>3 DEF Next
<1> QED
  BY <1>1, TasksHaveOnePlace, PTL DEF Spec
=============================================================================
