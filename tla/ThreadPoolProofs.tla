-------------------------- MODULE ThreadPoolProofs --------------------------
(***************************************************************************)
(* Proofs about ThreadPool for every set of tasks, workers and callers     *)
(* that satisfies PoolAssumption.                                          *)
(***************************************************************************)
EXTENDS ThreadPool, FiniteSetTheorems, SequenceTheorems, TLAPS

(* A worker holds a task exactly while it runs it: the part of the control *)
(* state that the types rest on.                                           *)
Holding == \A w \in Workers : (cur[w] # NoTask) <=> (wpc[w] = "run")

(* Every step keeps the types and Holding.                                 *)
LEMMA TypeStep == TypeOK /\ Holding /\ [Next]_vars => TypeOK' /\ Holding'
<1> SUFFICES ASSUME TypeOK, Holding, [Next]_vars PROVE TypeOK' /\ Holding'
  OBVIOUS
<1> USE PoolAssumption DEF TypeOK, Holding, history
<1>1. ASSUME NEW th \in Threads, NEW t \in Task, Push(th, t)
      PROVE  TypeOK' /\ Holding'
  BY <1>1 DEF Push
<1>2. ASSUME NEW th \in Threads, NEW t \in Task, Refuse(th, t)
      PROVE  TypeOK' /\ Holding'
  BY <1>2 DEF Refuse
<1>3. ASSUME NEW th \in Threads, Notify(th) PROVE TypeOK' /\ Holding'
  BY <1>3 DEF Notify, At
<1>4. ASSUME NEW w \in Workers, WorkerWait(w) PROVE TypeOK' /\ Holding'
  BY <1>4 DEF WorkerWait
<1>5. ASSUME NEW w \in Workers, SpuriousWake(w) PROVE TypeOK' /\ Holding'
  BY <1>5 DEF SpuriousWake
<1>6. ASSUME NEW w \in Workers, WorkerExit(w) PROVE TypeOK' /\ Holding'
  BY <1>6 DEF WorkerExit
<1>7. ASSUME NEW w \in Workers, WorkerTake(w) PROVE TypeOK' /\ Holding'
  <2>1. Head(tasks) \in Task /\ Tail(tasks) \in Seq(Task)
    BY <1>7 DEF WorkerTake
  <2> QED
    BY <1>7, <2>1 DEF WorkerTake
<1>8. ASSUME NEW w \in Workers, WorkerFinish(w) PROVE TypeOK' /\ Holding'
  <2>1. cur[w] \in Task
    BY <1>8 DEF WorkerFinish
  <2> QED
    BY <1>8, <2>1 DEF WorkerFinish
<1>9. CASE DtorStop
  BY <1>9 DEF DtorStop
<1>10. CASE DtorNotifyAll
  BY <1>10 DEF DtorNotifyAll
<1>11. CASE DtorJoin
  BY <1>11 DEF DtorJoin
<1>12. CASE UNCHANGED vars
  BY <1>12 DEF vars
<1> QED
  BY <1>1, <1>2, <1>3, <1>4, <1>5, <1>6, <1>7, <1>8, <1>9, <1>10, <1>11, <1>12
  DEF Next, Enqueue, WorkerStep, Terminated

(* The constructor leaves a well-typed pool.                               *)
LEMMA InitTyped == Init => TypeOK /\ Holding
<1>1. Init => Holding /\ tasks \in Seq(Task) /\ notifying \in SUBSET Threads
  BY DEF Init, Holding
<1>2. Init => wpc \in [Workers -> {"check", "waiting", "run", "exited"}]
  BY DEF Init
<1>3. Init => cur \in [Workers -> Task \cup {NoTask}]
  BY DEF Init
<1> QED
  BY <1>1, <1>2, <1>3 DEF Init, TypeOK

(* Types: preserved by enqueue, the worker loop and the destructor.        *)
THEOREM TypeCorrect == Spec => [](TypeOK /\ Holding)
  BY InitTyped, TypeStep, PTL DEF Spec
-----------------------------------------------------------------------------
(* What the program counters say about the rest of the state: stop is set  *)
(* by the destructor's first step, a worker leaves the loop only with stop *)
(* set and the queue empty and then for good, a worker in a call of        *)
(* enqueue is in its task, and the destructor's end is everybody's end.    *)
Control == /\ stop <=> dpc # "alive"
           /\ notifying \cap Workers \subseteq At("run")
           /\ At("exited") # {} => stop /\ tasks = <<>>
           /\ dpc = "destroyed" => At("exited") = Workers

(* stop, the destructor and the workers that have left stay in agreement.  *)
LEMMA ControlStep ==
  TypeOK /\ Control /\ NobodySleepsThroughStop /\ [Next]_vars
     => Control' /\ NobodySleepsThroughStop'
<1> SUFFICES ASSUME TypeOK, Control, NobodySleepsThroughStop, [Next]_vars
             PROVE  Control' /\ NobodySleepsThroughStop'
  OBVIOUS
<1> USE PoolAssumption DEF TypeOK, Control, NobodySleepsThroughStop, At, history
<1>1. ASSUME NEW th \in Threads, NEW t \in Task, Push(th, t)
      PROVE  Control' /\ NobodySleepsThroughStop'
  BY <1>1 DEF Push, MayEnqueue
<1>2. ASSUME NEW th \in Threads, NEW t \in Task, Refuse(th, t)
      PROVE  Control' /\ NobodySleepsThroughStop'
  BY <1>2 DEF Refuse
<1>3. ASSUME NEW th \in Threads, Notify(th)
      PROVE  Control' /\ NobodySleepsThroughStop'
  BY <1>3 DEF Notify
<1>4. ASSUME NEW w \in Workers, WorkerWait(w)
      PROVE  Control' /\ NobodySleepsThroughStop'
  BY <1>4 DEF WorkerWait
<1>5. ASSUME NEW w \in Workers, SpuriousWake(w)
      PROVE  Control' /\ NobodySleepsThroughStop'
  BY <1>5 DEF SpuriousWake
<1>6. ASSUME NEW w \in Workers, WorkerExit(w)
      PROVE  Control' /\ NobodySleepsThroughStop'
  BY <1>6 DEF WorkerExit
<1>7. ASSUME NEW w \in Workers, WorkerTake(w)
      PROVE  Control' /\ NobodySleepsThroughStop'
  BY <1>7 DEF WorkerTake
<1>8. ASSUME NEW w \in Workers, WorkerFinish(w)
      PROVE  Control' /\ NobodySleepsThroughStop'
  BY <1>8 DEF WorkerFinish
<1>9. CASE DtorStop
  BY <1>9 DEF DtorStop
<1>10. CASE DtorNotifyAll
  BY <1>10 DEF DtorNotifyAll
<1>11. CASE DtorJoin
  BY <1>11 DEF DtorJoin
<1>12. CASE UNCHANGED vars
  BY <1>12 DEF vars
<1> QED
  BY <1>1, <1>2, <1>3, <1>4, <1>5, <1>6, <1>7, <1>8, <1>9, <1>10, <1>11, <1>12
  DEF Next, Enqueue, WorkerStep, Terminated

(* No worker sleeps once the destructor has notified (l. 47-50, 93).       *)
THEOREM StopIsSeen == Spec => [](Control /\ NobodySleepsThroughStop)
<1>1. Init => Control /\ NobodySleepsThroughStop
  BY DEF Init, Control, NobodySleepsThroughStop, At
<1> QED
  BY <1>1, TypeCorrect, ControlStep, PTL DEF Spec
-----------------------------------------------------------------------------
(* No wakeup is lost: the counting argument.  Every push comes with a      *)
(* pending notification, every notification that finds a sleeper makes it  *)
(* look at the queue, and a worker goes to sleep only when the queue is    *)
(* empty.                                                                  *)
LEMMA FiniteThreads ==
  ASSUME TypeOK
  PROVE  /\ IsFiniteSet(notifying)
         /\ \A label : IsFiniteSet(At(label))
         /\ Cardinality(notifying) \in Nat
         /\ \A label : Cardinality(At(label)) \in Nat
<1>1. IsFiniteSet(Threads)
  BY PoolAssumption, FS_Union DEF Threads
<1>2. IsFiniteSet(notifying)
  BY <1>1, FS_Subset DEF TypeOK
<1>3. \A label : IsFiniteSet(At(label))
  BY PoolAssumption, FS_Subset DEF At
<1> QED
  BY <1>2, <1>3, FS_CardinalityType

(* Every step keeps a notification or a looking worker per task.           *)
LEMMA WakeupStep == TypeOK /\ TypeOK' /\ Control /\ NoLostWakeup /\ [Next]_vars
                       => NoLostWakeup'
<1> SUFFICES ASSUME TypeOK, TypeOK', Control, NoLostWakeup, [Next]_vars,
                    At("waiting")' # {}
             PROVE  Len(tasks') <= Cardinality(notifying') + Cardinality(At("check")')
  BY DEF NoLostWakeup
<1> DEFINE Bound == Cardinality(notifying) + Cardinality(At("check"))
<1>0. /\ Len(tasks) \in Nat /\ Len(tasks') \in Nat
      /\ IsFiniteSet(notifying) /\ Cardinality(notifying) \in Nat
      /\ IsFiniteSet(notifying') /\ Cardinality(notifying') \in Nat
      /\ IsFiniteSet(At("check")) /\ Cardinality(At("check")) \in Nat
      /\ IsFiniteSet(At("check")') /\ Cardinality(At("check")') \in Nat
  <2>1. /\ IsFiniteSet(notifying') /\ Cardinality(notifying') \in Nat
        /\ IsFiniteSet(At("check")') /\ Cardinality(At("check")') \in Nat
    <3>1. IsFiniteSet(Threads)
      BY PoolAssumption, FS_Union DEF Threads
    <3>2. IsFiniteSet(notifying')
      BY <3>1, FS_Subset DEF TypeOK
    <3>3. IsFiniteSet(At("check")')
      BY PoolAssumption, FS_Subset DEF At
    <3> QED
      BY <3>2, <3>3, FS_CardinalityType
  <2>2. Len(tasks) \in Nat /\ Len(tasks') \in Nat
    BY DEF TypeOK
  <2> QED
    BY <2>1, <2>2, FiniteThreads
<1>1. ASSUME NEW th \in Threads, NEW t \in Task, Push(th, t)
      PROVE  Len(tasks') <= Cardinality(notifying') + Cardinality(At("check")')
  <2>1. Len(tasks') = Len(tasks) + 1 /\ At("check")' = At("check") /\ At("waiting")' = At("waiting")
    BY <1>1 DEF Push, TypeOK, At
  <2>2. Cardinality(notifying') = Cardinality(notifying) + 1
    BY <1>1, <1>0, FS_AddElement DEF Push, MayEnqueue
  <2>3. Len(tasks) <= Bound
    BY <2>1 DEF NoLostWakeup
  <2> QED
    BY <2>1, <2>2, <2>3, <1>0
<1>2. ASSUME NEW th \in Threads, NEW t \in Task, Refuse(th, t)
      PROVE  Len(tasks') <= Cardinality(notifying') + Cardinality(At("check")')
  BY <1>2 DEF Refuse, NoLostWakeup, At
<1>3. ASSUME NEW th \in Threads, Notify(th)
      PROVE  Len(tasks') <= Cardinality(notifying') + Cardinality(At("check")')
  <2>1. Cardinality(notifying') = Cardinality(notifying) - 1
    BY <1>3, <1>0, FS_RemoveElement DEF Notify
  <2>2. At("waiting") # {}
    BY <1>3 DEF Notify, At
  <2>3. PICK w \in At("waiting") : wpc' = [wpc EXCEPT ![w] = "check"]
    BY <1>3, <2>2 DEF Notify
  <2>4. At("check")' = At("check") \cup {w} /\ w \notin At("check")
    BY <2>3 DEF At, TypeOK
  <2>5. Cardinality(At("check")') = Cardinality(At("check")) + 1
    BY <2>4, <1>0, FS_AddElement
  <2>6. Len(tasks) <= Bound /\ tasks' = tasks
    BY <1>3, <2>2 DEF NoLostWakeup, Notify
  <2> QED
    BY <2>1, <2>5, <2>6, <1>0
<1>4. ASSUME NEW w \in Workers, WorkerWait(w)
      PROVE  Len(tasks') <= Cardinality(notifying') + Cardinality(At("check")')
  <2>1. Len(tasks') = 0
    BY <1>4 DEF WorkerWait
  <2> QED
    BY <2>1, <1>0
<1>5. ASSUME NEW w \in Workers, SpuriousWake(w)
      PROVE  Len(tasks') <= Cardinality(notifying') + Cardinality(At("check")')
  <2>1. At("check")' = At("check") \cup {w} /\ w \notin At("check") /\ w \in At("waiting")
    BY <1>5 DEF SpuriousWake, At, TypeOK
  <2>2. Cardinality(At("check")') = Cardinality(At("check")) + 1
    BY <2>1, <1>0, FS_AddElement
  <2>3. Len(tasks) <= Bound /\ tasks' = tasks /\ notifying' = notifying
    BY <1>5, <2>1 DEF NoLostWakeup, SpuriousWake
  <2> QED
    BY <2>2, <2>3, <1>0
<1>6. ASSUME NEW w \in Workers, WorkerExit(w)
      PROVE  Len(tasks') <= Cardinality(notifying') + Cardinality(At("check")')
  <2>1. Len(tasks') = 0
    BY <1>6 DEF WorkerExit
  <2> QED
    BY <2>1, <1>0
<1>7. ASSUME NEW w \in Workers, WorkerTake(w)
      PROVE  Len(tasks') <= Cardinality(notifying') + Cardinality(At("check")')
  <2>1. At("check")' = At("check") \ {w} /\ w \in At("check") /\ At("waiting")' = At("waiting")
    BY <1>7 DEF WorkerTake, At, TypeOK
  <2>2. Cardinality(At("check")') = Cardinality(At("check")) - 1
    BY <2>1, <1>0, FS_RemoveElement
  <2>3. Len(tasks') = Len(tasks) - 1 /\ notifying' = notifying
    BY <1>7 DEF WorkerTake, TypeOK
  <2>4. Len(tasks) <= Bound
    BY <2>1 DEF NoLostWakeup
  <2> QED
    BY <2>2, <2>3, <2>4, <1>0
<1>8. ASSUME NEW w \in Workers, WorkerFinish(w)
      PROVE  Len(tasks') <= Cardinality(notifying') + Cardinality(At("check")')
  <2>1. At("check")' = At("check") \cup {w} /\ w \notin At("check") /\ At("waiting")' = At("waiting")
    BY <1>8 DEF WorkerFinish, At, TypeOK
  <2>2. Cardinality(At("check")') = Cardinality(At("check")) + 1
    BY <2>1, <1>0, FS_AddElement
  <2>3. Len(tasks) <= Bound /\ tasks' = tasks /\ notifying' = notifying
    BY <1>8, <2>1 DEF NoLostWakeup, WorkerFinish
  <2> QED
    BY <2>2, <2>3, <1>0
<1>9. CASE DtorStop
  BY <1>9 DEF DtorStop, NoLostWakeup, At
<1>10. CASE DtorNotifyAll
  BY <1>10 DEF DtorNotifyAll, At
<1>11. CASE DtorJoin
  BY <1>11 DEF DtorJoin, NoLostWakeup, At
<1>12. CASE UNCHANGED vars
  BY <1>12 DEF vars, NoLostWakeup, At
<1> QED
  BY <1>1, <1>2, <1>3, <1>4, <1>5, <1>6, <1>7, <1>8, <1>9, <1>10, <1>11, <1>12
  DEF Next, Enqueue, WorkerStep, Terminated

(* As long as a worker sleeps, each queued task has somebody about to      *)
(* notify or about to look (l. 47, 51-52, 82).                             *)
THEOREM WakeupsSuffice == Spec => []NoLostWakeup
<1>1. Init => NoLostWakeup
  BY DEF Init, NoLostWakeup, At
<1> QED
  BY <1>1, TypeCorrect, StopIsSeen, WakeupStep, PTL DEF Spec
-----------------------------------------------------------------------------
(* No task is lost and none is run twice: the places a task can be in are  *)
(* disjoint, and a place holds it once.                                    *)
Places == /\ \A i, j \in 1..Len(tasks) : tasks[i] = tasks[j] => i = j
          /\ \A v, w \in At("run") : cur[v] = cur[w] => v = w
          /\ Queued \cap Running = {}
          /\ Queued \cap finished = {}
          /\ Running \cap finished = {}
          /\ IsFiniteSet(accepted)

Accounting == TypeOK /\ Holding /\ Places /\ NoTaskLost

(* What Push does to the queue: one element more, at the end.              *)
LEMMA PushQueue ==
  ASSUME TypeOK, NEW t \in Task, tasks' = Append(tasks, t)
  PROVE  /\ Len(tasks') = Len(tasks) + 1
         /\ Queued' = Queued \cup {t}
         /\ \A i \in 1..Len(tasks) : tasks'[i] = tasks[i]
         /\ tasks'[Len(tasks) + 1] = t
  BY DEF TypeOK, Queued

(* What WorkerTake does to the queue: one element less, at the front.      *)
LEMMA TakeQueue ==
  ASSUME TypeOK, tasks # <<>>, tasks' = Tail(tasks),
         \A i, j \in 1..Len(tasks) : tasks[i] = tasks[j] => i = j
  PROVE  /\ Len(tasks') = Len(tasks) - 1
         /\ Head(tasks) = tasks[1] /\ Head(tasks) \in Queued
         /\ Queued' = Queued \ {Head(tasks)}
         /\ \A i \in 1..Len(tasks') : tasks'[i] = tasks[i + 1]
<1>1. /\ Len(tasks) \in Nat \ {0} /\ Head(tasks) = tasks[1]
      /\ Len(tasks') = Len(tasks) - 1
      /\ \A i \in 1..Len(tasks') : tasks'[i] = tasks[i + 1]
  BY DEF TypeOK
<1>2. Head(tasks) \in Queued
  BY <1>1 DEF Queued
<1>3. ASSUME NEW x \in Queued' PROVE x \in Queued \ {Head(tasks)}
  <2>1. PICK i \in 1..Len(tasks') : x = tasks'[i]
    BY DEF Queued
  <2> QED
    BY <1>1, <2>1 DEF Queued
<1>4. ASSUME NEW x \in Queued \ {Head(tasks)} PROVE x \in Queued'
  <2>1. PICK i \in 1..Len(tasks) : x = tasks[i]
    BY DEF Queued
  <2>2. i - 1 \in 1..Len(tasks') /\ x = tasks'[i - 1]
    BY <1>1, <2>1
  <2> QED
    BY <2>2 DEF Queued
<1> QED
  BY <1>1, <1>2, <1>3, <1>4

(* Every step keeps each accepted task in one place.                       *)
LEMMA AccountingStep == Accounting /\ TypeOK' /\ Holding' /\ [Next]_vars => Accounting'
<1> SUFFICES ASSUME Accounting, TypeOK', Holding', [Next]_vars
             PROVE  Places' /\ NoTaskLost'
  BY DEF Accounting
<1> USE DEF Accounting
<1>0. /\ Len(tasks) \in Nat
      /\ IsFiniteSet(finished) /\ Cardinality(finished) \in Nat
      /\ IsFiniteSet(At("run")) /\ Cardinality(At("run")) \in Nat
      /\ IsFiniteSet(accepted) /\ Cardinality(accepted) \in Nat
  <2>1. IsFiniteSet(accepted) /\ finished \subseteq accepted
    BY DEF Places, NoTaskLost
  <2>2. IsFiniteSet(finished)
    BY <2>1, FS_Subset
  <2> QED
    BY <2>1, <2>2, FiniteThreads, FS_CardinalityType DEF TypeOK
<1>1. ASSUME NEW th \in Threads, NEW t \in Task, Push(th, t)
      PROVE  Places' /\ NoTaskLost'
  <2>1. /\ t \notin accepted /\ t \notin refused /\ accepted' = accepted \cup {t}
        /\ At("run")' = At("run") /\ Running' = Running
        /\ finished' = finished /\ refused' = refused /\ cur' = cur
        /\ tasks' = Append(tasks, t)
    BY <1>1 DEF Push, Fresh, At, Running
  <2>2. /\ Len(tasks') = Len(tasks) + 1 /\ Queued' = Queued \cup {t}
        /\ \A i \in 1..Len(tasks) : tasks'[i] = tasks[i]
        /\ tasks'[Len(tasks) + 1] = t
    BY <2>1, PushQueue
  <2>3. t \notin Queued /\ t \notin Running /\ t \notin finished
    BY <2>1 DEF NoTaskLost
  <2>4. /\ IsFiniteSet(accepted') /\ Cardinality(accepted') = Cardinality(accepted) + 1
    BY <2>1, <1>0, FS_AddElement
  <2>5. \A i, j \in 1..Len(tasks') : tasks'[i] = tasks'[j] => i = j
    <3>1. \A i \in 1..Len(tasks) : tasks[i] # t
      BY <2>3 DEF Queued
    <3> QED
      BY <2>2, <3>1, <1>0 DEF Places
  <2>6. Places'
    BY <2>1, <2>2, <2>3, <2>4, <2>5 DEF Places
  <2>7. NoTaskLost'
    BY <2>1, <2>2, <2>4, <1>0 DEF NoTaskLost
  <2> QED
    BY <2>6, <2>7
<1>2. ASSUME NEW th \in Threads, NEW t \in Task, Refuse(th, t)
      PROVE  Places' /\ NoTaskLost'
  BY <1>2 DEF Refuse, Fresh, Places, NoTaskLost, At, Running, Queued
<1>3. ASSUME NEW th \in Threads, Notify(th) PROVE Places' /\ NoTaskLost'
  <2>1. At("run")' = At("run")
    BY <1>3 DEF Notify, At, TypeOK
  <2>2. Running' = Running
    BY <1>3, <2>1 DEF Notify, Running, At
  <2> QED
    BY <1>3, <2>1, <2>2 DEF Notify, Places, NoTaskLost, Queued
<1>4. ASSUME NEW w \in Workers, WorkerWait(w) \/ SpuriousWake(w) \/ WorkerExit(w)
      PROVE  Places' /\ NoTaskLost'
  <2>1. At("run")' = At("run")
    BY <1>4 DEF WorkerWait, SpuriousWake, WorkerExit, At, TypeOK
  <2>2. Running' = Running
    BY <1>4, <2>1 DEF WorkerWait, SpuriousWake, WorkerExit, Running, At
  <2>3. /\ tasks' = tasks /\ cur' = cur /\ accepted' = accepted
        /\ finished' = finished /\ refused' = refused /\ Queued' = Queued
    BY <1>4 DEF WorkerWait, SpuriousWake, WorkerExit, history, Queued
  <2> QED
    BY <2>1, <2>2, <2>3 DEF Places, NoTaskLost
<1>7. ASSUME NEW w \in Workers, WorkerTake(w) PROVE Places' /\ NoTaskLost'
  <2> DEFINE t == Head(tasks)
  <2>1. /\ tasks # <<>> /\ tasks' = Tail(tasks) /\ w \notin At("run")
        /\ accepted' = accepted /\ finished' = finished /\ refused' = refused
    BY <1>7 DEF WorkerTake, history, At
  <2>2. /\ Len(tasks') = Len(tasks) - 1 /\ t = tasks[1] /\ t \in Queued
        /\ Queued' = Queued \ {t}
        /\ \A i \in 1..Len(tasks') : tasks'[i] = tasks[i + 1]
    BY <2>1, TakeQueue DEF Places
  <2>3. /\ At("run")' = At("run") \cup {w}
        /\ cur'[w] = t /\ \A v \in At("run") : cur'[v] = cur[v]
    BY <1>7 DEF WorkerTake, At, TypeOK
  <2>4. Running' = Running \cup {t}
    BY <2>1, <2>3 DEF Running, At
  <2>5. Cardinality(At("run")') = Cardinality(At("run")) + 1
    BY <2>1, <2>3, <1>0, FS_AddElement
  <2>6. \A v \in At("run") : cur[v] # t
    BY <2>2 DEF Places, Running, At
  <2>7. \A i, j \in 1..Len(tasks') : tasks'[i] = tasks'[j] => i = j
    BY <2>2, <1>0 DEF Places
  <2>8. \A v, u \in At("run")' : cur'[v] = cur'[u] => v = u
    BY <2>3, <2>6 DEF Places
  <2>9. Places'
    BY <2>1, <2>2, <2>4, <2>7, <2>8 DEF Places
  <2>10. NoTaskLost'
    <3>1. accepted' = Queued' \cup Running' \cup finished'
      BY <2>1, <2>2, <2>4 DEF NoTaskLost
    <3>2. Len(tasks') + Cardinality(At("run")') + Cardinality(finished')
             = Cardinality(accepted')
      BY <2>1, <2>2, <2>5, <1>0 DEF NoTaskLost
    <3> QED
      BY <2>1, <3>1, <3>2 DEF NoTaskLost
  <2> QED
    BY <2>9, <2>10
<1>8. ASSUME NEW w \in Workers, WorkerFinish(w) PROVE Places' /\ NoTaskLost'
  <2>1. /\ w \in At("run") /\ cur[w] \in Running
        /\ finished' = finished \cup {cur[w]}
        /\ tasks' = tasks /\ accepted' = accepted /\ refused' = refused
        /\ Queued' = Queued
    BY <1>8 DEF WorkerFinish, At, Running, Queued
  <2>2. /\ At("run")' = At("run") \ {w}
        /\ \A v \in At("run")' : cur'[v] = cur[v]
    BY <1>8 DEF WorkerFinish, At, TypeOK
  <2>3. Running' = Running \ {cur[w]}
    BY <2>1, <2>2 DEF Running, At, Places
  <2>4. Cardinality(At("run")') = Cardinality(At("run")) - 1
    BY <2>1, <2>2, <1>0, FS_RemoveElement
  <2>5. Cardinality(finished') = Cardinality(finished) + 1
    BY <2>1, <1>0, FS_AddElement DEF Places
  <2>6. Places'
    BY <2>1, <2>2, <2>3 DEF Places
  <2>7. NoTaskLost'
    BY <2>1, <2>3, <2>4, <2>5, <1>0 DEF NoTaskLost
  <2> QED
    BY <2>6, <2>7
<1>9. ASSUME DtorStop \/ DtorJoin \/ UNCHANGED vars PROVE Places' /\ NoTaskLost'
  <2>1. /\ tasks' = tasks /\ wpc' = wpc /\ cur' = cur /\ accepted' = accepted
        /\ finished' = finished /\ refused' = refused
    BY <1>9 DEF DtorStop, DtorJoin, vars, history
  <2>2. Queued' = Queued /\ At("run")' = At("run") /\ Running' = Running
    BY <2>1 DEF At, Running, Queued
  <2> QED
    BY <2>1, <2>2 DEF Places, NoTaskLost
<1>10. CASE DtorNotifyAll
  <2>1. At("run")' = At("run")
    BY <1>10 DEF DtorNotifyAll, At, TypeOK
  <2>2. Running' = Running
    BY <1>10, <2>1 DEF DtorNotifyAll, Running, At
  <2> QED
    BY <1>10, <2>1, <2>2 DEF DtorNotifyAll, history, Places, NoTaskLost, Queued
<1> QED
  BY <1>1, <1>2, <1>3, <1>4, <1>7, <1>8, <1>9, <1>10
  DEF Next, Enqueue, WorkerStep, Terminated

(* Every accepted task is queued, running or done, each in one place and   *)
(* once; a refused task is in none (l. 51-55, 74-81).                      *)
THEOREM TasksAreKept == Spec => [](Places /\ NoTaskLost)
<1>1. Init => Accounting
  <2>1. Init => TypeOK /\ Holding
    BY InitTyped
  <2>2. Init => Queued = {} /\ Running = {} /\ At("run") = {} /\ Len(tasks) = 0
    BY DEF Init, Queued, Running, At
  <2> QED
    BY <2>1, <2>2, FS_EmptySet DEF Init, Accounting, Places, NoTaskLost
<1>2. Accounting => Places /\ NoTaskLost
  BY DEF Accounting
<1> QED
  BY <1>1, <1>2, TypeCorrect, AccountingStep, PTL DEF Spec

(* A destroyed pool has run everything it accepted, and none of its        *)
(* workers is still in a call of enqueue (l. 49-50, 94-95).                *)
THEOREM DestructionDrains == Spec => []DestroyedIsDrained
<1>1. TypeOK /\ Control /\ NoTaskLost => DestroyedIsDrained
  <2> SUFFICES ASSUME TypeOK, Control, NoTaskLost, dpc = "destroyed"
               PROVE  tasks = <<>> /\ accepted = finished /\ notifying \cap Workers = {}
    BY DEF DestroyedIsDrained
  <2>1. At("exited") = Workers /\ At("exited") # {}
    BY PoolAssumption DEF Control
  <2>2. tasks = <<>> /\ At("run") = {}
    BY <2>1 DEF Control, At
  <2>3. Queued = {} /\ Running = {}
    BY <2>2 DEF Queued, Running, At
  <2> QED
    BY <2>2, <2>3 DEF NoTaskLost, Control
<1> QED
  BY <1>1, TypeCorrect, StopIsSeen, TasksAreKept, PTL
-----------------------------------------------------------------------------
(* Every step of the pool is a step of TaskPool or changes nothing that    *)
(* TaskPool sees.                                                          *)
LEMMA RefinementStep ==
  Accounting /\ Accounting' /\ Control /\ Control' /\ [Next]_vars => [Pool!Next]_(Pool!vars)
<1> SUFFICES ASSUME Accounting, Accounting', Control, Control', [Next]_vars
             PROVE  [Pool!Next]_(Pool!vars)
  OBVIOUS
<1> USE DEF Accounting
<1>0. Pool!Used = accepted \cup refused
  <2>1. DOMAIN tasks = 1..Len(tasks)
    BY DEF TypeOK
  <2> QED
    BY <2>1 DEF Pool!Used, NoTaskLost, Queued
<1>1. ASSUME NEW th \in Threads, NEW t \in Task, Push(th, t) PROVE Pool!Submit(t)
  <2>1. Running' = Running /\ Phase' = Phase
    BY <1>1 DEF Push, Running, Phase
  <2>2. Phase = "open"
    BY <1>1 DEF Push, Control, Phase
  <2> QED
    BY <1>0, <1>1, <2>1, <2>2 DEF Push, Fresh, Pool!Submit
<1>2. ASSUME NEW th \in Threads, NEW t \in Task, Refuse(th, t) PROVE Pool!Refuse(t)
  <2>1. Running' = Running /\ Phase' = Phase
    BY <1>2 DEF Refuse, Running, Phase
  <2>2. Phase = "closing"
    BY <1>2 DEF Refuse, MayEnqueue, Control, Phase, TypeOK
  <2> QED
    BY <1>0, <1>2, <2>1, <2>2 DEF Refuse, Fresh, Pool!Refuse
<1>3. ASSUME NEW th \in Threads, Notify(th) PROVE UNCHANGED Pool!vars
  <2>1. At("run")' = At("run")
    BY <1>3 DEF Notify, At, TypeOK
  <2>2. Running' = Running /\ Phase' = Phase
    BY <1>3, <2>1 DEF Notify, Running, At, Phase
  <2> QED
    BY <1>3, <2>2 DEF Notify, Pool!vars
<1>4. ASSUME NEW w \in Workers, WorkerWait(w) \/ SpuriousWake(w) \/ WorkerExit(w)
      PROVE  UNCHANGED Pool!vars
  <2>1. At("run")' = At("run")
    BY <1>4 DEF WorkerWait, SpuriousWake, WorkerExit, At, TypeOK
  <2>2. /\ tasks' = tasks /\ cur' = cur /\ finished' = finished
        /\ refused' = refused /\ dpc' = dpc
    BY <1>4 DEF WorkerWait, SpuriousWake, WorkerExit, history
  <2>3. Running' = Running /\ Phase' = Phase
    BY <2>1, <2>2 DEF Running, At, Phase
  <2> QED
    BY <2>2, <2>3 DEF Pool!vars
<1>5. ASSUME NEW w \in Workers, WorkerTake(w) PROVE Pool!Start
  <2>1. /\ tasks # <<>> /\ tasks' = Tail(tasks) /\ cur'[w] = Head(tasks)
        /\ At("run")' = At("run") \cup {w} /\ w \notin At("run")
        /\ \A v \in At("run") : cur'[v] = cur[v]
    BY <1>5 DEF WorkerTake, At, TypeOK
  <2>2. Running' = Running \cup {Head(tasks)}
    BY <2>1 DEF Running, At
  <2>3. Cardinality(Running) < Cardinality(Workers)
    <3>1. /\ IsFiniteSet(At("run")) /\ Running = {cur[v] : v \in At("run")}
      BY FiniteThreads DEF Running, At
    <3>2. Cardinality(Running) <= Cardinality(At("run")) /\ IsFiniteSet(Running)
      <4> DEFINE f == [v \in At("run") |-> cur[v]]
      <4>1. f \in Surjection(At("run"), Running)
        BY <3>1 DEF Surjection
      <4> QED
        BY <3>1, <4>1, FS_Surjection
    <3>3. At("run") \subseteq Workers /\ At("run") # Workers
      BY <2>1, <1>5 DEF At
    <3>4. /\ Cardinality(At("run")) \in Nat
          /\ Cardinality(Running) \in Nat
          /\ Cardinality(Workers) \in Nat
      BY <3>1, <3>2, PoolAssumption, FS_CardinalityType
    <3>5. /\ Cardinality(At("run")) <= Cardinality(Workers)
          /\ Cardinality(At("run")) # Cardinality(Workers)
      BY <3>3, PoolAssumption, FS_Subset
    <3> QED
      BY <3>2, <3>4, <3>5
  <2>4. /\ finished' = finished /\ refused' = refused /\ Phase' = Phase
    BY <1>5 DEF WorkerTake, history, Phase
  <2>5. \A S : Pool!Cardinality(S) = Cardinality(S)
    BY DEF Pool!Cardinality, Cardinality
  <2> QED
    BY <2>1, <2>2, <2>3, <2>4, <2>5 DEF Pool!Start
<1>6. ASSUME NEW w \in Workers, WorkerFinish(w) PROVE Pool!Finish(cur[w]) /\ cur[w] \in Task
  <2>1. /\ w \in At("run") /\ cur[w] \in Running /\ cur[w] \in Task
        /\ finished' = finished \cup {cur[w]}
        /\ tasks' = tasks /\ refused' = refused /\ dpc' = dpc
    BY <1>6 DEF WorkerFinish, At, Running, TypeOK, Holding
  <2>2. /\ At("run")' = At("run") \ {w}
        /\ \A v \in At("run")' : cur'[v] = cur[v]
    BY <1>6 DEF WorkerFinish, At, TypeOK
  <2>3. Running' = Running \ {cur[w]}
    BY <2>1, <2>2 DEF Running, At, Places
  <2> QED
    BY <2>1, <2>3 DEF Pool!Finish, Phase
<1>7. ASSUME DtorStop PROVE Pool!Close
  BY <1>7 DEF DtorStop, history, Pool!Close, Phase, Running
<1>8. ASSUME DtorNotifyAll PROVE UNCHANGED Pool!vars
  <2>1. At("run")' = At("run")
    BY <1>8 DEF DtorNotifyAll, At, TypeOK
  <2>2. Running' = Running /\ Phase' = Phase
    BY <1>8, <2>1 DEF DtorNotifyAll, Running, At, Phase
  <2> QED
    BY <1>8, <2>2 DEF DtorNotifyAll, history, Pool!vars
<1>9. ASSUME DtorJoin PROVE Pool!Terminate
  <2>1. At("exited") = Workers /\ At("exited") # {}
    BY <1>9, PoolAssumption DEF DtorJoin
  <2>2. tasks = <<>> /\ Running = {}
    BY <2>1 DEF Control, Running, At
  <2>3. Running' = Running /\ Phase = "closing" /\ Phase' = "closed"
    BY <1>9 DEF DtorJoin, Running, Phase
  <2> QED
    BY <1>9, <2>2, <2>3 DEF DtorJoin, history, Pool!Terminate
<1>10. ASSUME UNCHANGED vars PROVE UNCHANGED Pool!vars
  BY <1>10 DEF vars, Pool!vars, Running, Phase
<1> QED
  BY <1>1, <1>2, <1>3, <1>4, <1>5, <1>6, <1>7, <1>8, <1>9, <1>10
  DEF Next, Enqueue, WorkerStep, Terminated, Pool!Next

(* The pool implements TaskPool: tasks are started in the order of their   *)
(* acceptance, each once, by at most |Workers| threads, and the destructor *)
(* returns after the last of them.                                         *)
THEOREM PoolRefinesTaskPool == Spec => Pool!Spec
<1>1. Init => Pool!Init
  BY DEF Init, Pool!Init, Running, Phase
<1>2. Spec => []Accounting
  BY TypeCorrect, TasksAreKept, PTL DEF Accounting
<1> QED
  BY <1>1, <1>2, StopIsSeen, RefinementStep, PTL DEF Spec, Pool!Spec
=============================================================================
