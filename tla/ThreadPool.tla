----------------------------- MODULE ThreadPool -----------------------------
(***************************************************************************)
(* pg-common/ThreadPool.h: a fixed set of worker threads that take tasks   *)
(* from one queue, under one mutex and one condition variable.             *)
(*                                                                         *)
(* A critical section of queue_mutex never blocks except in                *)
(* condition.wait, which releases it, so each critical section is one      *)
(* action and the mutex is not a variable.  What happens outside of it is  *)
(* a step of its own: the notify_one of enqueue comes after the unlock     *)
(* (l. 82), the notify_all and the joins of the destructor come after      *)
(* stop was set (l. 93-95), and a task runs unlocked (l. 55).              *)
(*                                                                         *)
(* A running task may call enqueue itself, so the threads that enqueue are *)
(* the callers outside the pool and the workers that run a task.           *)
(***************************************************************************)
EXTENDS Naturals, Sequences, FiniteSets

CONSTANTS Task,      \* the calls of enqueue, each with its own task
          Workers,   \* the threads the constructor starts
          Callers,   \* the threads outside the pool that call enqueue
          NoTask     \* the empty std::function a worker holds between tasks

(* The program constructs its only kind of pool with five threads          *)
(* (PGClient.cpp:7): a pool without any thread would drop what it accepts. *)
ASSUME PoolAssumption == /\ IsFiniteSet(Workers)
                         /\ Workers # {}
                         /\ IsFiniteSet(Callers)
                         /\ Workers \cap Callers = {}
                         /\ NoTask \notin Task

VARIABLES tasks,      \* the queue (l. 25)
          stop,       \* the flag the destructor sets (l. 30)
          wpc,        \* where each worker is in the loop of l. 39-56
          cur,        \* the task a worker took from the queue (l. 41)
          notifying,  \* the threads between l. 81 and l. 82 of enqueue
          dpc,        \* how far the destructor is
          accepted,   \* history: the tasks for which enqueue returned a future
          finished,   \* history: the tasks that were executed to their end
          refused     \* history: the tasks for which enqueue threw

poolVars == <<tasks, stop, wpc, cur, notifying, dpc>>
history == <<accepted, finished, refused>>
vars == <<tasks, stop, wpc, cur, notifying, dpc, accepted, finished, refused>>

Threads == Workers \cup Callers

Queued == {tasks[i] : i \in 1..Len(tasks)}
Running == {cur[w] : w \in {v \in Workers : wpc[v] = "run"}}
At(label) == {w \in Workers : wpc[w] = label}

TypeOK == /\ tasks \in Seq(Task)
          /\ stop \in BOOLEAN
          /\ wpc \in [Workers -> {"check", "waiting", "run", "exited"}]
          /\ cur \in [Workers -> Task \cup {NoTask}]
          /\ notifying \in SUBSET Threads
          /\ dpc \in {"alive", "stopped", "joining", "destroyed"}
          /\ accepted \in SUBSET Task
          /\ finished \in SUBSET Task
          /\ refused \in SUBSET Task

(* The constructor has returned: every worker is about to take the lock    *)
(* for the first time.                                                     *)
Init == /\ tasks = <<>>
        /\ stop = FALSE
        /\ wpc = [w \in Workers |-> "check"]
        /\ cur = [w \in Workers |-> NoTask]
        /\ notifying = {}
        /\ dpc = "alive"
        /\ accepted = {}
        /\ finished = {}
        /\ refused = {}
-----------------------------------------------------------------------------
(* enqueue *)

(* A thread that can call enqueue: one outside the pool while the pool     *)
(* exists, or a worker from within its task; not inside a call already.    *)
MayEnqueue(th) == /\ dpc # "destroyed"
                  /\ th \notin notifying
                  /\ th \in Callers \cup At("run")

Fresh(t) == t \notin accepted \cup refused

(* Faulty variant of Push: only the first task of an empty queue is        *)
(* announced.                                                              *)
PushNotifiesWhenEmpty(th, t) ==
    /\ MayEnqueue(th)
    /\ Fresh(t)
    /\ ~stop
    /\ tasks' = Append(tasks, t)
    /\ notifying' = IF tasks = <<>> THEN notifying \cup {th} ELSE notifying
    /\ accepted' = accepted \cup {t}
    /\ UNCHANGED <<stop, wpc, cur, dpc, finished, refused>>

(* Faulty variant of Push: new work overtakes older work.                  *)
PushInFront(th, t) == /\ MayEnqueue(th)
                      /\ Fresh(t)
                      /\ ~stop
                      /\ tasks' = <<t>> \o tasks
                      /\ notifying' = notifying \cup {th}
                      /\ accepted' = accepted \cup {t}
                      /\ UNCHANGED <<stop, wpc, cur, dpc, finished, refused>>

(* The critical section of l. 74-81, when it does not throw.               *)
Push(th, t) == /\ MayEnqueue(th)
               /\ Fresh(t)
               /\ ~stop
               /\ tasks' = Append(tasks, t)
               /\ notifying' = notifying \cup {th}
               /\ accepted' = accepted \cup {t}
               /\ UNCHANGED <<stop, wpc, cur, dpc, finished, refused>>

(* The throw of l. 77-78; thrown inside a task it ends in that task's      *)
(* future, so the worker goes on.                                          *)
Refuse(th, t) == /\ MayEnqueue(th)
                 /\ Fresh(t)
                 /\ stop
                 /\ refused' = refused \cup {t}
                 /\ UNCHANGED <<tasks, stop, wpc, cur, notifying, dpc,
                                accepted, finished>>

(* notify_one of l. 82: one waiting worker wakes up; a notification that   *)
(* finds nobody waiting is lost.                                           *)
Notify(th) ==
    /\ th \in notifying
    /\ notifying' = notifying \ {th}
    /\ IF At("waiting") = {}
       THEN UNCHANGED wpc
       ELSE \E w \in At("waiting") : wpc' = [wpc EXCEPT ![w] = "check"]
    /\ UNCHANGED <<tasks, stop, cur, dpc, accepted, finished, refused>>
-----------------------------------------------------------------------------
(* The worker loop, l. 39-56.  At "check" the worker holds the lock and    *)
(* evaluates the predicate of wait.                                        *)

(* Faulty variant of WorkerWait: the predicate was read before the lock,   *)
(* so stop may have been set since.                                        *)
WorkerWaitStale(w) == /\ wpc[w] = "check"
                      /\ tasks = <<>>
                      /\ wpc' = [wpc EXCEPT ![w] = "waiting"]
                      /\ UNCHANGED <<tasks, stop, cur, notifying, dpc, history>>

WorkerWait(w) == /\ wpc[w] = "check"
                 /\ ~stop
                 /\ tasks = <<>>
                 /\ wpc' = [wpc EXCEPT ![w] = "waiting"]
                 /\ UNCHANGED <<tasks, stop, cur, notifying, dpc, history>>

(* condition.wait may return without a notification.                       *)
SpuriousWake(w) == /\ wpc[w] = "waiting"
                   /\ wpc' = [wpc EXCEPT ![w] = "check"]
                   /\ UNCHANGED <<tasks, stop, cur, notifying, dpc, history>>

(* Faulty variant of WorkerExit: stop alone ends the loop.                 *)
WorkerExitAtOnce(w) == /\ wpc[w] = "check"
                       /\ stop
                       /\ wpc' = [wpc EXCEPT ![w] = "exited"]
                       /\ UNCHANGED <<tasks, stop, cur, notifying, dpc, history>>

WorkerExit(w) == /\ wpc[w] = "check"
                 /\ stop
                 /\ tasks = <<>>
                 /\ wpc' = [wpc EXCEPT ![w] = "exited"]
                 /\ UNCHANGED <<tasks, stop, cur, notifying, dpc, history>>

(* Faulty variant of WorkerTake: the front task is not popped under the    *)
(* lock that it was read under.                                            *)
WorkerTakeNoPop(w) == /\ wpc[w] = "check"
                      /\ tasks # <<>>
                      /\ cur' = [cur EXCEPT ![w] = Head(tasks)]
                      /\ wpc' = [wpc EXCEPT ![w] = "run"]
                      /\ UNCHANGED <<tasks, stop, notifying, dpc, history>>

WorkerTake(w) == /\ wpc[w] = "check"
                 /\ tasks # <<>>
                 /\ cur' = [cur EXCEPT ![w] = Head(tasks)]
                 /\ tasks' = Tail(tasks)
                 /\ wpc' = [wpc EXCEPT ![w] = "run"]
                 /\ UNCHANGED <<stop, notifying, dpc, history>>

(* Faulty variant of WorkerFinish: the task is released before it was run. *)
WorkerFinishReleased(w) ==
    /\ wpc[w] = "run"
    /\ w \notin notifying
    /\ cur' = [cur EXCEPT ![w] = NoTask]
    /\ finished' = finished \cup {cur'[w]}
    /\ wpc' = [wpc EXCEPT ![w] = "check"]
    /\ UNCHANGED <<tasks, stop, notifying, dpc, accepted, refused>>

(* task() returns; what it throws is kept by its packaged_task.  A task    *)
(* that called enqueue has left that call.                                 *)
WorkerFinish(w) == /\ wpc[w] = "run"
                   /\ w \notin notifying
                   /\ finished' = finished \cup {cur[w]}
                   /\ cur' = [cur EXCEPT ![w] = NoTask]
                   /\ wpc' = [wpc EXCEPT ![w] = "check"]
                   /\ UNCHANGED <<tasks, stop, notifying, dpc, accepted, refused>>
-----------------------------------------------------------------------------
(* The destructor, l. 87-96 *)

DtorStop == /\ dpc = "alive"
            /\ stop' = TRUE
            /\ dpc' = "stopped"
            /\ UNCHANGED <<tasks, wpc, cur, notifying, history>>

(* Faulty variant of DtorNotifyAll: notify_one.                            *)
DtorNotifyOne ==
    /\ dpc = "stopped"
    /\ IF At("waiting") = {}
       THEN UNCHANGED wpc
       ELSE \E w \in At("waiting") : wpc' = [wpc EXCEPT ![w] = "check"]
    /\ dpc' = "joining"
    /\ UNCHANGED <<tasks, stop, cur, notifying, history>>

DtorNotifyAll ==
    /\ dpc = "stopped"
    /\ wpc' = [w \in Workers |-> IF wpc[w] = "waiting" THEN "check" ELSE wpc[w]]
    /\ dpc' = "joining"
    /\ UNCHANGED <<tasks, stop, cur, notifying, history>>

(* The last join returns.  The joins have no effect of their own, so the   *)
(* loop of l. 94-95 is the wait for all of them.                           *)
DtorJoin == /\ dpc = "joining"
            /\ At("exited") = Workers
            /\ dpc' = "destroyed"
            /\ UNCHANGED <<tasks, stop, wpc, cur, notifying, history>>

(* The pool is gone; nothing is left to happen.                            *)
Terminated == /\ dpc = "destroyed"
              /\ notifying = {}
              /\ UNCHANGED vars
-----------------------------------------------------------------------------
Enqueue(th) == \E t \in Task : Push(th, t) \/ Refuse(th, t)

WorkerStep(w) == WorkerWait(w) \/ WorkerExit(w) \/ WorkerTake(w) \/ WorkerFinish(w)

Next == \/ \E th \in Threads : Enqueue(th) \/ Notify(th)
        \/ \E w \in Workers : WorkerStep(w) \/ SpuriousWake(w)
        \/ DtorStop
        \/ DtorNotifyAll
        \/ DtorJoin
        \/ Terminated

Spec == Init /\ [][Next]_vars

(* A thread that can run is scheduled, a task returns.  Nobody has to call *)
(* enqueue or to destroy the pool, and no wakeup has to be spurious.       *)
Fairness == /\ \A th \in Threads : WF_vars(Notify(th))
            /\ \A w \in Workers : WF_vars(WorkerStep(w))
            /\ WF_vars(DtorNotifyAll)
            /\ WF_vars(DtorJoin)

FairSpec == Spec /\ Fairness
-----------------------------------------------------------------------------
(* Safety *)

(* Every task that enqueue accepted is in exactly one place: in the queue, *)
(* with one worker, or done; none is dropped, none is run twice, and a     *)
(* task for which enqueue threw is never run (l. 51-55, 74-81).            *)
NoTaskLost ==
    /\ accepted = Queued \cup Running \cup finished
    /\ Len(tasks) + Cardinality(At("run")) + Cardinality(finished) = Cardinality(accepted)
    /\ accepted \cap refused = {}

(* The notification comes after the unlock and may find nobody waiting     *)
(* (l. 82).  Still no task is left behind with sleeping workers: as long   *)
(* as a worker sleeps, each queued task has a thread that is about to      *)
(* notify or a worker that is about to look at the queue.                  *)
NoLostWakeup ==
    At("waiting") # {} =>
        Len(tasks) <= Cardinality(notifying) + Cardinality(At("check"))

(* Once the destructor has notified, no worker sleeps again: a worker that *)
(* saw stop = FALSE cannot start to wait after notify_all (l. 47-50, 93).  *)
NobodySleepsThroughStop ==
    dpc \in {"joining", "destroyed"} => At("waiting") = {}

(* The destructor returns only when what enqueue accepted has been run,    *)
(* and no task is still inside a call of enqueue on the destroyed pool     *)
(* (l. 49-50, 94-95).                                                      *)
DestroyedIsDrained ==
    dpc = "destroyed" => /\ tasks = <<>>
                         /\ accepted = finished
                         /\ notifying \cap Workers = {}
-----------------------------------------------------------------------------
(* Liveness *)

(* The destructor returns (l. 87-96).                                      *)
DestructorReturns == (dpc = "stopped") ~> (dpc = "destroyed")

(* Every task that enqueue accepted is executed, whether or not the pool   *)
(* is destroyed (l. 39-56).                                                *)
AcceptedTasksRun == \A t \in Task : (t \in accepted) ~> (t \in finished)
-----------------------------------------------------------------------------
(* Refinement *)

Phase == CASE dpc = "alive" -> "open"
           [] dpc \in {"stopped", "joining"} -> "closing"
           [] dpc = "destroyed" -> "closed"

Pool == INSTANCE TaskPool WITH waiting <- tasks, running <- Running, phase <- Phase

(* The pool does what TaskPool promises: tasks are started in the order of *)
(* their acceptance, each once, and the destructor waits for all of them.  *)
ImplementsTaskPool == Pool!FairSpec
=============================================================================
