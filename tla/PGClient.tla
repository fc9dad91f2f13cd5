------------------------------ MODULE PGClient ------------------------------
(***************************************************************************)
(* pg-client/src/PGClient.cpp: messages are persisted by the calling       *)
(* thread; queries are handed to the pool, whose threads read the database *)
(* and call back under a static mutex.                                     *)
(*                                                                         *)
(* The pool is used by its specification TaskPool, which ThreadPool        *)
(* implements.  The database behind IPGConnector is external: a            *)
(* transaction is invisible until its commit, a SELECT reads what is       *)
(* committed, any statement may fail, and a commit that fails may have     *)
(* been done.  What a call does inside of a transaction before its commit  *)
(* concerns no other thread and is one step.                               *)
(***************************************************************************)
EXTENDS Naturals, Sequences, FiniteSets

CONSTANTS Msg,              \* the calls of pgMessagePersist
          Query,            \* the calls of pgMessageQuery
          Callers,          \* the threads that make these calls
          Workers,          \* the threads of mPool
          Known,            \* the names in the table Exchanges
          NoName,           \* the empty exchange name
          NameOf,           \* the exchange name each call is given
          NoJob,            \* a caller outside of a call
          CallbackMayThrow  \* whether the callback of a query may throw

(* The client makes its pool with five threads (PGClient.cpp:7).           *)
ASSUME ClientAssumption == /\ NoJob \notin Msg \cup Query
                           /\ Msg \cap Query = {}
                           /\ NoName \notin Known
                           /\ CallbackMayThrow \in BOOLEAN
                           /\ IsFiniteSet(Workers) /\ Workers # {}

VARIABLES waiting, running, finished, refused, phase,   \* mPool
          rows,       \* the committed rows of the table Messages
          cpc,        \* the place of each caller
          job,        \* the call it is in
          qpc,        \* the place of each query
          snapshot,   \* the rows its SELECT has read
          mutex,      \* the query whose worker holds the static mMutex
          crashed,    \* a worker used the connector after its destruction
          confirmed,  \* history: messages for which PG_SUCCESS was returned
          inDoubt,    \* history: messages whose commit failed
          expected    \* history: the rows a query had to see when it was made

poolVars == <<waiting, running, finished, refused, phase>>
callVars == <<cpc, job>>
queryVars == <<qpc, snapshot, mutex, crashed>>
historyVars == <<confirmed, inDoubt, expected>>
vars == <<poolVars, rows, callVars, queryVars, historyVars>>

Pool == INSTANCE TaskPool WITH Task <- Query

(* A name that the code accepts: none, or one that the table holds.        *)
Accepted(call) == NameOf[call] \in Known \cup {NoName}

(* The rows that the SELECT of l. 60 or l. 62 asks for.                    *)
Matching(q) == {m \in Msg : NameOf[q] \in {NoName, NameOf[m]}}

Answered == {q \in Query : qpc[q] = "answered"}
Shown == UNION {snapshot[q] : q \in Answered}

TypeOK ==
    /\ waiting \in Seq(Query)
    /\ running \in SUBSET Query
    /\ finished \in SUBSET Query
    /\ refused = {}
    /\ phase \in {"open", "closing", "closed"}
    /\ rows \in SUBSET Msg
    /\ cpc \in [Callers -> {"idle", "execute", "commit", "lookup"}]
    /\ job \in [Callers -> Msg \cup Query \cup {NoJob}]
    /\ qpc \in [Query -> {"new", "called", "rejected", "queued", "read", "lock",
                          "callback", "answered", "failed"}]
    /\ snapshot \in [Query -> SUBSET Msg]
    /\ mutex \in Query \cup {NoJob}
    /\ crashed \in BOOLEAN
    /\ confirmed \in SUBSET Msg
    /\ inDoubt \in SUBSET Msg
    /\ expected \in [Query -> SUBSET Msg]

Init == /\ Pool!Init
        /\ rows = {}
        /\ cpc = [c \in Callers |-> "idle"]
        /\ job = [c \in Callers |-> NoJob]
        /\ qpc = [q \in Query |-> "new"]
        /\ snapshot = [q \in Query |-> {}]
        /\ mutex = NoJob
        /\ crashed = FALSE
        /\ confirmed = {}
        /\ inDoubt = {}
        /\ expected = [q \in Query |-> {}]

(* Caller c goes from one place of its call to the next.                   *)
Step(c, from, to) == /\ ~crashed
                     /\ cpc[c] = from
                     /\ cpc' = [cpc EXCEPT ![c] = to]

Enter(c, to, call) == /\ Step(c, "idle", to)
                      /\ phase = "open"
                      /\ job' = [job EXCEPT ![c] = call]

Return(c, from) == /\ Step(c, from, "idle")
                   /\ job' = [job EXCEPT ![c] = NoJob]

(* The worker of query q goes on.                                          *)
Advance(q, from, to) == /\ ~crashed
                        /\ qpc[q] = from
                        /\ qpc' = [qpc EXCEPT ![q] = to]
-----------------------------------------------------------------------------
(* pgMessagePersist, l. 12-45 *)

Persist(c, m) ==
    /\ Enter(c, "execute", m)
    /\ m \notin confirmed \cup inDoubt
    /\ \A d \in Callers : job[d] # m
    /\ UNCHANGED <<poolVars, rows, queryVars, historyVars>>

(* The connection, the lookup of the exchange and the INSERT (l. 17-36).   *)
Execute(c) == /\ Step(c, "execute", "commit")
              /\ UNCHANGED <<poolVars, rows, job, queryVars, historyVars>>

(* One of them throws: PG_ERROR, and nothing was committed.                *)
ExecuteFails(c) == /\ Return(c, "execute")
                   /\ UNCHANGED <<poolVars, rows, queryVars, historyVars>>

(* Faulty variant of Commit: the message is recorded after it was released.*)
CommitReleased(c) ==
    /\ Return(c, "commit")
    /\ IF Accepted(job[c])
       THEN /\ rows' = rows \cup {job[c]}
            /\ confirmed' = confirmed \cup {job'[c]}
       ELSE UNCHANGED <<rows, confirmed>>
    /\ UNCHANGED <<poolVars, queryVars, inDoubt, expected>>

(* Faulty variant of Commit: the result of the lookup is not tested.       *)
CommitUnchecked(c) ==
    /\ Return(c, "commit")
    /\ rows' = rows \cup {job[c]}
    /\ confirmed' = confirmed \cup {job[c]}
    /\ UNCHANGED <<poolVars, queryVars, inDoubt, expected>>

(* Faulty variant of Commit: it is left to the end of the transaction      *)
(* object, which rolls back.                                               *)
CommitOmitted(c) ==
    /\ Return(c, "commit")
    /\ confirmed' = IF Accepted(job[c]) THEN confirmed \cup {job[c]} ELSE confirmed
    /\ UNCHANGED <<poolVars, rows, queryVars, inDoubt, expected>>

(* The commit of l. 38.  With an unknown exchange it commits nothing and   *)
(* PG_ERROR is returned (l. 25-27).                                        *)
Commit(c) ==
    /\ Return(c, "commit")
    /\ IF Accepted(job[c])
       THEN /\ rows' = rows \cup {job[c]}
            /\ confirmed' = confirmed \cup {job[c]}
       ELSE UNCHANGED <<rows, confirmed>>
    /\ UNCHANGED <<poolVars, queryVars, inDoubt, expected>>

(* The commit throws: PG_ERROR.  Whether and when the database does it all *)
(* the same is open.                                                       *)
CommitFails(c) ==
    /\ Return(c, "commit")
    /\ inDoubt' = IF Accepted(job[c]) THEN inDoubt \cup {job[c]} ELSE inDoubt
    /\ UNCHANGED <<poolVars, rows, queryVars, confirmed, expected>>

CommitLate(m) ==
    /\ ~crashed
    /\ m \in inDoubt \ rows
    /\ rows' = rows \cup {m}
    /\ UNCHANGED <<poolVars, callVars, queryVars, historyVars>>
-----------------------------------------------------------------------------
(* pgMessageQuery, l. 76-105 *)

MakeQuery(c, q) ==
    /\ Enter(c, "lookup", q)
    /\ Advance(q, "new", "called")
    /\ expected' = [expected EXCEPT ![q] = (confirmed \cup Shown) \cap Matching(q)]
    /\ UNCHANGED <<poolVars, rows, snapshot, mutex, crashed, confirmed, inDoubt>>

(* The exchange is known or not asked for: the query goes to the pool and  *)
(* PG_SUCCESS is returned (l. 93-97).                                      *)
Enqueue(c) == /\ Return(c, "lookup")
              /\ Accepted(job[c])
              /\ Advance(job[c], "called", "queued")
              /\ Pool!Submit(job[c])
              /\ UNCHANGED <<rows, snapshot, mutex, crashed, historyVars>>

(* The exchange is unknown, or a statement or enqueue throws: PG_ERROR.    *)
QueryFails(c) == /\ Return(c, "lookup")
                 /\ Advance(job[c], "called", "rejected")
                 /\ UNCHANGED <<poolVars, rows, snapshot, mutex, crashed, historyVars>>
-----------------------------------------------------------------------------
(* queryExchange, l. 47-74, on a thread of the pool *)

StartQuery == /\ Pool!Start
              /\ Advance(Head(waiting), "queued", "read")
              /\ UNCHANGED <<rows, callVars, snapshot, mutex, crashed, historyVars>>

(* l. 49-66 *)
Read(q) == /\ Advance(q, "read", "lock")
           /\ snapshot' = [snapshot EXCEPT ![q] = rows \cap Matching(q)]
           /\ UNCHANGED <<poolVars, rows, callVars, mutex, crashed, historyVars>>

(* Faulty variant of ReadFails: the exception ends the worker.             *)
ReadFailsHard(q) == /\ Advance(q, "read", "failed")
                    /\ UNCHANGED <<poolVars, rows, callVars, snapshot, mutex, crashed,
                                   historyVars>>

(* A statement throws: the exception is logged, nobody is called back.     *)
ReadFails(q) == /\ Advance(q, "read", "failed")
                /\ Pool!Finish(q)
                /\ UNCHANGED <<rows, callVars, snapshot, mutex, crashed, historyVars>>

(* ~PGClient destroys mPGConnector before mPool (PGClient.h:59-60), so a   *)
(* query that the pool still has to run calls a destroyed object: it works *)
(* by luck, as in Read, or the program crashes.                            *)
ReadCrashes(q) == /\ phase = "closing"
                  /\ Advance(q, "read", "read")
                  /\ crashed' = TRUE
                  /\ UNCHANGED <<poolVars, rows, callVars, snapshot, mutex, historyVars>>

LockMutex(q) == /\ Advance(q, "lock", "callback")
                /\ mutex = NoJob
                /\ mutex' = q
                /\ UNCHANGED <<poolVars, rows, callVars, snapshot, crashed, historyVars>>

(* Faulty variant of CallbackReturns: the mutex is not released.           *)
CallbackKeepsMutex(q) == /\ Advance(q, "callback", "answered")
                         /\ Pool!Finish(q)
                         /\ UNCHANGED <<rows, callVars, snapshot, mutex, crashed, historyVars>>

(* l. 69-70, and the task ends.                                            *)
CallbackReturns(q) == /\ Advance(q, "callback", "answered")
                      /\ mutex' = NoJob
                      /\ Pool!Finish(q)
                      /\ UNCHANGED <<rows, callVars, snapshot, crashed, historyVars>>

(* The callback throws: l. 70 is skipped, mMutex stays locked.             *)
CallbackThrows(q) == /\ CallbackMayThrow
                     /\ Advance(q, "callback", "failed")
                     /\ Pool!Finish(q)
                     /\ UNCHANGED <<rows, callVars, snapshot, mutex, crashed, historyVars>>
-----------------------------------------------------------------------------
(* ~PGClient, when no call is in progress *)

Destroy == /\ ~crashed
           /\ \A c \in Callers : cpc[c] = "idle"
           /\ Pool!Close
           /\ UNCHANGED <<rows, callVars, queryVars, historyVars>>

(* Faulty variant of Destroyed: the threads of the pool are detached.      *)
DestroyedAtOnce == /\ ~crashed
                   /\ phase = "closing"
                   /\ phase' = "closed"
                   /\ UNCHANGED <<waiting, running, finished, refused, rows, callVars,
                                  queryVars, historyVars>>

Destroyed == /\ ~crashed
             /\ Pool!Terminate
             /\ UNCHANGED <<rows, callVars, queryVars, historyVars>>
-----------------------------------------------------------------------------
(* What a thread does by itself once it is in a call or runs a query.      *)
CallerStep(c) == Execute(c) \/ Commit(c) \/ Enqueue(c) \/ QueryFails(c)
WorkerStep(q) == Read(q) \/ LockMutex(q) \/ CallbackReturns(q)
WorkerFailure(q) == ReadFails(q) \/ ReadCrashes(q) \/ CallbackThrows(q)

Next == \/ \E c \in Callers : \/ \E m \in Msg : Persist(c, m)
                              \/ \E q \in Query : MakeQuery(c, q)
                              \/ CallerStep(c)
                              \/ ExecuteFails(c)
                              \/ CommitFails(c)
        \/ \E m \in Msg : CommitLate(m)
        \/ \E q \in Query : WorkerStep(q) \/ WorkerFailure(q)
        \/ StartQuery
        \/ Destroy
        \/ Destroyed

Spec == Init /\ [][Next]_vars

(* The threads run, callbacks return; the pool starts what it accepted and *)
(* ends when it is empty, as TaskPool!FairSpec promises.                   *)
FairSpec == /\ Spec
            /\ \A c \in Callers : WF_vars(CallerStep(c))
            /\ \A q \in Query : WF_vars(WorkerStep(q))
            /\ WF_vars(StartQuery)
            /\ WF_vars(Destroyed)
-----------------------------------------------------------------------------
(* Safety *)

(* The status of pgMessagePersist is true: PG_SUCCESS means that the row   *)
(* is committed, and a row for which PG_ERROR was returned can be there    *)
(* only because its commit was in doubt; a message for an unknown exchange *)
(* is never stored (l. 25-27, 38-41).                                      *)
StatusIsTrue == /\ confirmed \subseteq rows
                /\ rows \subseteq confirmed \cup inDoubt
                /\ \A m \in rows : Accepted(m)

(* A query that is answered shows everything that was confirmed, or shown  *)
(* by an earlier answer, before it was made, although it runs later and on *)
(* another connection (l. 49-69, 94).                                      *)
AnswersAreRecent ==
    \A q \in Query :
        qpc[q] \in {"lock", "callback", "answered"} => /\ expected[q] \subseteq snapshot[q]
                                                       /\ snapshot[q] \subseteq rows

(* A query is in the hands of the pool exactly while it uses the client:   *)
(* none is left when the destructor has returned, none was ever refused,   *)
(* and one callback runs at a time (l. 47-74, 94; PGClient.h:59).          *)
PoolOwnsQueries ==
    /\ running = {q \in Query : qpc[q] \in {"read", "lock", "callback"}}
    /\ {waiting[i] : i \in DOMAIN waiting} = {q \in Query : qpc[q] = "queued"}
    /\ phase = "closed" => \A q \in Query : qpc[q] \in {"new", "rejected", "answered", "failed"}
    /\ \A q \in Query : qpc[q] = "callback" => mutex = q

(* Workers, mMutex and the destructor never wait for each other: as long   *)
(* as a query is unfinished or the destructor runs, a query can go on, be  *)
(* started, or the pool can end; or else a callback has thrown and left    *)
(* mMutex locked (l. 68-70, ThreadPool.h:45-56).                           *)
Unfinished == {q \in Query : qpc[q] \in {"queued", "read", "lock", "callback"}}

SomebodyGoesOn ==
    ~crashed /\ (phase = "closing" \/ Unfinished # {}) =>
        \/ \E q \in Query : qpc[q] \in {"read", "callback"} \/ (qpc[q] = "lock" /\ mutex = NoJob)
        \/ waiting # <<>> /\ Cardinality(running) < Cardinality(Workers)
        \/ phase = "closing" /\ waiting = <<>> /\ running = {}
        \/ CallbackMayThrow /\ mutex # NoJob /\ qpc[mutex] = "failed"
-----------------------------------------------------------------------------
(* Liveness *)

(* Every query that got PG_SUCCESS is answered or fails in its worker, the *)
(* destruction of the client included.                                     *)
QueriesEnd == \A q \in Query :
                 (qpc[q] = "queued") ~> (qpc[q] \in {"answered", "failed"} \/ crashed)

(* The destructor returns, or the program crashed in it.                   *)
DestructorReturns == (phase = "closing") ~> (phase = "closed" \/ crashed)
-----------------------------------------------------------------------------
(* A claim of the interface that the code does not keep *)

(* PGClient.h:45: PG_SUCCESS means that the messages were queried.         *)
SuccessIsAnswered == \A q \in Query : (qpc[q] = "queued") ~> (qpc[q] = "answered")
=============================================================================
