--------------------------- MODULE PGClientProofs ---------------------------
(***************************************************************************)
(* Proofs about PGClient for every set of calls, callers, workers and      *)
(* exchange names that satisfies ClientAssumption.                         *)
(***************************************************************************)
EXTENDS PGClient, QueueLemmas, FiniteSetTheorems, TLAPS

(* A caller holds the call it is in, of the kind its place belongs to.     *)
CallsMatch ==
    \A c \in Callers : /\ cpc[c] = "idle" => job[c] = NoJob
                       /\ cpc[c] \in {"execute", "commit"} => job[c] \in Msg
                       /\ cpc[c] = "lookup" => job[c] \in Query

Typed == TypeOK /\ CallsMatch

(* What a step of a caller does to the callers.                            *)
CallerMoves(c, to, call) == /\ cpc' = [cpc EXCEPT ![c] = to]
                            /\ job' = [job EXCEPT ![c] = call]

(* The caller part of the types survives each such step.                   *)
LEMMA CallerFrame ==
    ASSUME Typed, NEW c \in Callers, NEW to, NEW call, CallerMoves(c, to, call),
           \/ to = "idle" /\ call = NoJob
           \/ to \in {"execute", "commit"} /\ call \in Msg
           \/ to = "lookup" /\ call \in Query
    PROVE  /\ cpc' \in [Callers -> {"idle", "execute", "commit", "lookup"}]
           /\ job' \in [Callers -> Msg \cup Query \cup {NoJob}]
           /\ CallsMatch'
BY DEF Typed, TypeOK, CallsMatch, CallerMoves

(* The worker part of the types survives the move of a query.              *)
LEMMA QueryFrame ==
    ASSUME TypeOK, NEW q \in Query, NEW from, NEW to, Advance(q, from, to),
           to \in {"new", "called", "rejected", "queued", "read", "lock",
                   "callback", "answered", "failed"}
    PROVE  qpc' \in [Query -> {"new", "called", "rejected", "queued", "read", "lock",
                               "callback", "answered", "failed"}]
BY DEF TypeOK, Advance

(* Constructing the client yields a well-typed state.                      *)
LEMMA InitTyped == Init => Typed
<1> SUFFICES ASSUME Init PROVE TypeOK /\ CallsMatch
  BY DEF Typed
<1> USE DEF Init, Pool!Init
<1>1. cpc \in [Callers -> {"idle", "execute", "commit", "lookup"}]
  OBVIOUS
<1>2. job \in [Callers -> Msg \cup Query \cup {NoJob}]
  OBVIOUS
<1>3. qpc \in [Query -> {"new", "called", "rejected", "queued", "read", "lock",
                         "callback", "answered", "failed"}]
  OBVIOUS
<1>4. snapshot \in [Query -> SUBSET Msg] /\ expected \in [Query -> SUBSET Msg]
  OBVIOUS
<1>5. waiting \in Seq(Query) /\ CallsMatch
  BY DEF CallsMatch
<1> QED
  BY <1>1, <1>2, <1>3, <1>4, <1>5 DEF TypeOK

(* Every step keeps the types and CallsMatch.                              *)
LEMMA TypeStep == Typed /\ [Next]_vars => Typed'
<1> SUFFICES ASSUME Typed, [Next]_vars PROVE Typed'
  OBVIOUS
<1>0. TypeOK /\ CallsMatch
  BY DEF Typed
<1> USE <1>0, ClientAssumption DEF Typed, vars, poolVars, callVars, queryVars, historyVars
<1>1. ASSUME NEW c \in Callers, NEW m \in Msg, Persist(c, m) PROVE Typed'
  <2>1. CallerMoves(c, "execute", m)
    BY <1>1 DEF Persist, Enter, Step, CallerMoves
  <2> QED
    BY <1>1, <2>1, CallerFrame DEF Persist, TypeOK
<1>2. ASSUME NEW c \in Callers, NEW q \in Query, MakeQuery(c, q) PROVE Typed'
  <2>1. CallerMoves(c, "lookup", q)
    BY <1>2 DEF MakeQuery, Enter, Step, CallerMoves
  <2>2. qpc' \in [Query -> {"new", "called", "rejected", "queued", "read", "lock",
                            "callback", "answered", "failed"}]
    BY <1>2, QueryFrame DEF MakeQuery
  <2>3. expected' \in [Query -> SUBSET Msg]
    BY <1>2 DEF MakeQuery, TypeOK, Matching
  <2> QED
    BY <1>2, <2>1, <2>2, <2>3, CallerFrame DEF MakeQuery, TypeOK
<1>3. ASSUME NEW c \in Callers, Execute(c) PROVE Typed'
  BY <1>3 DEF Execute, Step, TypeOK, CallsMatch
<1>4. ASSUME NEW c \in Callers, ExecuteFails(c) PROVE Typed'
  <2>1. CallerMoves(c, "idle", NoJob)
    BY <1>4 DEF ExecuteFails, Return, Step, CallerMoves
  <2> QED
    BY <1>4, <2>1, CallerFrame DEF ExecuteFails, TypeOK
<1>5. ASSUME NEW c \in Callers, Commit(c) PROVE Typed'
  <2>1. CallerMoves(c, "idle", NoJob) /\ job[c] \in Msg
    BY <1>5 DEF Commit, Return, Step, CallerMoves, CallsMatch
  <2>2. rows' \in SUBSET Msg /\ confirmed' \in SUBSET Msg
    BY <1>5, <2>1 DEF Commit, TypeOK
  <2> QED
    BY <1>5, <2>1, <2>2, CallerFrame DEF Commit, TypeOK
<1>6. ASSUME NEW c \in Callers, CommitFails(c) PROVE Typed'
  <2>1. CallerMoves(c, "idle", NoJob) /\ job[c] \in Msg
    BY <1>6 DEF CommitFails, Return, Step, CallerMoves, CallsMatch
  <2>2. inDoubt' \in SUBSET Msg
    BY <1>6, <2>1 DEF CommitFails, TypeOK
  <2> QED
    BY <1>6, <2>1, <2>2, CallerFrame DEF CommitFails, TypeOK
<1>7. ASSUME NEW c \in Callers, Enqueue(c) PROVE Typed'
  <2>1. CallerMoves(c, "idle", NoJob) /\ job[c] \in Query
    BY <1>7 DEF Enqueue, Return, Step, CallerMoves, CallsMatch
  <2>2. qpc' \in [Query -> {"new", "called", "rejected", "queued", "read", "lock",
                            "callback", "answered", "failed"}]
    BY <1>7, <2>1, QueryFrame DEF Enqueue
  <2>3. waiting' \in Seq(Query)
    BY <1>7, <2>1 DEF Enqueue, Pool!Submit, TypeOK
  <2> QED
    BY <1>7, <2>1, <2>2, <2>3, CallerFrame DEF Enqueue, Pool!Submit, TypeOK
<1>8. ASSUME NEW c \in Callers, QueryFails(c) PROVE Typed'
  <2>1. CallerMoves(c, "idle", NoJob) /\ job[c] \in Query
    BY <1>8 DEF QueryFails, Return, Step, CallerMoves, CallsMatch
  <2>2. qpc' \in [Query -> {"new", "called", "rejected", "queued", "read", "lock",
                            "callback", "answered", "failed"}]
    BY <1>8, <2>1, QueryFrame DEF QueryFails
  <2> QED
    BY <1>8, <2>1, <2>2, CallerFrame DEF QueryFails, TypeOK
<1>9. ASSUME NEW m \in Msg, CommitLate(m) PROVE Typed'
  BY <1>9 DEF CommitLate, TypeOK, CallsMatch
<1>10. CASE StartQuery
  <2>1. Head(waiting) \in Query /\ Tail(waiting) \in Seq(Query)
    BY <1>10 DEF StartQuery, Pool!Start, TypeOK
  <2>2. qpc' \in [Query -> {"new", "called", "rejected", "queued", "read", "lock",
                            "callback", "answered", "failed"}]
    BY <1>10, <2>1, QueryFrame DEF StartQuery
  <2> QED
    BY <1>10, <2>1, <2>2 DEF StartQuery, Pool!Start, TypeOK, CallsMatch
<1>11. ASSUME NEW q \in Query, WorkerStep(q) \/ WorkerFailure(q) PROVE Typed'
  <2>1. qpc' \in [Query -> {"new", "called", "rejected", "queued", "read", "lock",
                            "callback", "answered", "failed"}]
    BY <1>11, QueryFrame DEF WorkerStep, WorkerFailure, Read, ReadFails, ReadCrashes,
       LockMutex, CallbackReturns, CallbackThrows
  <2>2. UNCHANGED <<waiting, refused, phase, rows, callVars, historyVars>>
    BY <1>11 DEF WorkerStep, WorkerFailure, Read, ReadFails, ReadCrashes,
       LockMutex, CallbackReturns, CallbackThrows, Pool!Finish
  <2>3. running' \in SUBSET Query /\ finished' \in SUBSET Query
    BY <1>11 DEF WorkerStep, WorkerFailure, Read, ReadFails, ReadCrashes,
       LockMutex, CallbackReturns, CallbackThrows, Pool!Finish, TypeOK
  <2>4. snapshot' \in [Query -> SUBSET Msg]
    BY <1>11 DEF WorkerStep, WorkerFailure, Read, ReadFails, ReadCrashes,
       LockMutex, CallbackReturns, CallbackThrows, TypeOK
  <2>5. mutex' \in Query \cup {NoJob} /\ crashed' \in BOOLEAN
    BY <1>11 DEF WorkerStep, WorkerFailure, Read, ReadFails, ReadCrashes,
       LockMutex, CallbackReturns, CallbackThrows, TypeOK
  <2> QED
    BY <2>1, <2>2, <2>3, <2>4, <2>5 DEF TypeOK, CallsMatch
<1>12. CASE Destroy
  BY <1>12 DEF Destroy, Pool!Close, TypeOK, CallsMatch
<1>13. CASE Destroyed
  BY <1>13 DEF Destroyed, Pool!Terminate, TypeOK, CallsMatch
<1>14. CASE UNCHANGED vars
  BY <1>14 DEF TypeOK, CallsMatch
<1> QED
  BY <1>1, <1>2, <1>3, <1>4, <1>5, <1>6, <1>7, <1>8, <1>9, <1>10, <1>11, <1>12,
     <1>13, <1>14 DEF Next, CallerStep

(* The types hold in every state of the client.                            *)
THEOREM TypeCorrect == Spec => []TypeOK
<1>1. Typed => TypeOK
  BY DEF Typed
<1> QED
  BY <1>1, InitTyped, TypeStep, PTL DEF Spec
-----------------------------------------------------------------------------
(* Only messages with an accepted name reach a commit that counts.         *)
DoubtAccepted == \A m \in inDoubt : Accepted(m)

(* The status of pgMessagePersist and the rows move together.              *)
LEMMA StatusStep ==
  Typed /\ DoubtAccepted /\ StatusIsTrue /\ [Next]_vars => DoubtAccepted' /\ StatusIsTrue'
<1> SUFFICES ASSUME Typed, DoubtAccepted, StatusIsTrue, [Next]_vars
             PROVE  DoubtAccepted' /\ StatusIsTrue'
  OBVIOUS
<1> USE DEF DoubtAccepted, StatusIsTrue, Accepted
<1>1. ASSUME NEW c \in Callers, Commit(c) PROVE DoubtAccepted' /\ StatusIsTrue'
  BY <1>1 DEF Commit
<1>2. ASSUME NEW c \in Callers, CommitFails(c) PROVE DoubtAccepted' /\ StatusIsTrue'
  BY <1>2 DEF CommitFails
<1>3. ASSUME NEW m \in Msg, CommitLate(m) PROVE DoubtAccepted' /\ StatusIsTrue'
  BY <1>3 DEF CommitLate, historyVars
<1>4. ASSUME UNCHANGED <<rows, confirmed, inDoubt>> PROVE DoubtAccepted' /\ StatusIsTrue'
  BY <1>4
<1>5. ASSUME NEW c \in Callers, NEW m \in Msg, Persist(c, m)
      PROVE  UNCHANGED <<rows, confirmed, inDoubt>>
  BY <1>5 DEF Persist, historyVars
<1>6. ASSUME NEW c \in Callers, NEW q \in Query, MakeQuery(c, q)
      PROVE  UNCHANGED <<rows, confirmed, inDoubt>>
  BY <1>6 DEF MakeQuery
<1>7. ASSUME NEW c \in Callers, Execute(c) \/ ExecuteFails(c) \/ Enqueue(c) \/ QueryFails(c)
      PROVE  UNCHANGED <<rows, confirmed, inDoubt>>
  BY <1>7 DEF Execute, ExecuteFails, Enqueue, QueryFails, historyVars
<1>8. ASSUME NEW q \in Query, WorkerStep(q) \/ WorkerFailure(q)
      PROVE  UNCHANGED <<rows, confirmed, inDoubt>>
  BY <1>8 DEF WorkerStep, WorkerFailure, Read, ReadFails, ReadCrashes, LockMutex,
     CallbackReturns, CallbackThrows, historyVars
<1>9. StartQuery \/ Destroy \/ Destroyed => UNCHANGED <<rows, confirmed, inDoubt>>
  BY DEF StartQuery, Destroy, Destroyed, historyVars
<1>10. UNCHANGED vars => UNCHANGED <<rows, confirmed, inDoubt>>
  BY DEF vars, historyVars
<1> QED
  BY <1>1, <1>2, <1>3, <1>4, <1>5, <1>6, <1>7, <1>8, <1>9, <1>10 DEF Next, CallerStep

(* PG_SUCCESS of pgMessagePersist means a committed row, PG_ERROR none but *)
(* one whose commit was in doubt (PGClient.cpp:25-27, 38-41).              *)
THEOREM StatusHolds == Spec => [](DoubtAccepted /\ StatusIsTrue)
<1>1. Init => DoubtAccepted /\ StatusIsTrue
  BY DEF Init, DoubtAccepted, StatusIsTrue
<1>2. Spec => []Typed
  BY InitTyped, TypeStep, PTL DEF Spec
<1> QED
  BY <1>1, <1>2, StatusStep, PTL DEF Spec
-----------------------------------------------------------------------------
(* What a query was expected to show is committed and asked for.           *)
ExpectedIsThere == \A q \in Query : expected[q] \subseteq rows \cap Matching(q)

(* The rows only grow, a SELECT reads all of them that match.              *)
LEMMA RecentStep ==
  Typed /\ StatusIsTrue /\ StatusIsTrue' /\ ExpectedIsThere /\ AnswersAreRecent /\ [Next]_vars
     => ExpectedIsThere' /\ AnswersAreRecent'
<1> SUFFICES ASSUME Typed, StatusIsTrue, ExpectedIsThere, AnswersAreRecent, [Next]_vars
             PROVE  ExpectedIsThere' /\ AnswersAreRecent'
  OBVIOUS
<1> USE DEF ExpectedIsThere, AnswersAreRecent, Typed, TypeOK, Matching
<1>1. ASSUME NEW c \in Callers, NEW q \in Query, MakeQuery(c, q)
      PROVE  ExpectedIsThere' /\ AnswersAreRecent'
  <2>1. confirmed \cup Shown \subseteq rows
    BY DEF StatusIsTrue, Shown, Answered
  <2>2. expected' = [expected EXCEPT ![q] = (confirmed \cup Shown) \cap Matching(q)]
        /\ UNCHANGED <<rows, snapshot>>
    BY <1>1 DEF MakeQuery
  <2>3. ExpectedIsThere'
    BY <2>1, <2>2
  <2>4. AnswersAreRecent'
    BY <1>1, <2>2 DEF MakeQuery, Advance
  <2> QED
    BY <2>3, <2>4
<1>2. ASSUME NEW q \in Query, Read(q) PROVE ExpectedIsThere' /\ AnswersAreRecent'
  BY <1>2 DEF Read, Advance, historyVars
<1>3. ASSUME rows \subseteq rows', UNCHANGED <<snapshot, expected>>,
             \A q \in Query : qpc'[q] \in {"lock", "callback", "answered"}
                                 => qpc[q] \in {"lock", "callback", "answered"}
      PROVE  ExpectedIsThere' /\ AnswersAreRecent'
  BY <1>3
<1>4. ASSUME NEW c \in Callers, NEW m \in Msg, Persist(c, m)
      PROVE  ExpectedIsThere' /\ AnswersAreRecent'
  BY <1>4, <1>3 DEF Persist, queryVars, historyVars
<1>5. ASSUME NEW c \in Callers, Execute(c) \/ ExecuteFails(c) \/ Commit(c) \/ CommitFails(c)
      PROVE  ExpectedIsThere' /\ AnswersAreRecent'
  BY <1>5, <1>3 DEF Execute, ExecuteFails, Commit, CommitFails, queryVars, historyVars
<1>6. ASSUME NEW m \in Msg, CommitLate(m) PROVE ExpectedIsThere' /\ AnswersAreRecent'
  BY <1>6, <1>3 DEF CommitLate, queryVars, historyVars
<1>7. ASSUME NEW c \in Callers, Enqueue(c) \/ QueryFails(c)
      PROVE  ExpectedIsThere' /\ AnswersAreRecent'
  BY <1>7, <1>3 DEF Enqueue, QueryFails, Advance, historyVars
<1>8. CASE StartQuery
  BY <1>8, <1>3 DEF StartQuery, Advance, historyVars
<1>9. ASSUME NEW q \in Query, LockMutex(q) \/ CallbackReturns(q) \/ WorkerFailure(q)
      PROVE  ExpectedIsThere' /\ AnswersAreRecent'
  BY <1>9, <1>3 DEF LockMutex, CallbackReturns, WorkerFailure, ReadFails, ReadCrashes,
     CallbackThrows, Advance, historyVars
<1>10. CASE Destroy \/ Destroyed \/ UNCHANGED vars
  BY <1>10, <1>3 DEF Destroy, Destroyed, vars, queryVars, historyVars
<1> QED
  BY <1>1, <1>2, <1>4, <1>5, <1>6, <1>7, <1>8, <1>9, <1>10
  DEF Next, CallerStep, WorkerStep

(* A client reads its own confirmed writes and never less than an earlier  *)
(* answer showed, whichever thread runs the query (PGClient.cpp:49-69, 94).*)
THEOREM ReadYourWrites == Spec => []AnswersAreRecent
<1>1. Init => ExpectedIsThere /\ AnswersAreRecent
  BY DEF Init, ExpectedIsThere, AnswersAreRecent
<1>2. Spec => []Typed
  BY InitTyped, TypeStep, PTL DEF Spec
<1> QED
  BY <1>1, <1>2, StatusHolds, RecentStep, PTL DEF Spec
-----------------------------------------------------------------------------
(* The queue holds no query twice; a query that a caller is in is not in   *)
(* the pool; nobody is in a call once the destructor has begun.            *)
Handover == /\ NoRepeat(waiting)
            /\ \A q \in Query : qpc[q] = "called" =>
                  \E c \in Callers : cpc[c] = "lookup" /\ job[c] = q
            /\ phase # "open" => \A c \in Callers : cpc[c] = "idle"

Owned == Handover /\ PoolOwnsQueries

(* Every step keeps the queries where the pool says they are.              *)
LEMMA OwnedStep == Typed /\ Owned /\ [Next]_vars => Owned'
<1> SUFFICES ASSUME Typed, Owned, [Next]_vars PROVE Owned'
  OBVIOUS
<1>0. Elements(waiting) = {q \in Query : qpc[q] = "queued"}
  BY DEF Owned, PoolOwnsQueries, Elements
<1> USE ClientAssumption DEF Typed, TypeOK, CallsMatch, Owned, Handover, PoolOwnsQueries
<1>1. ASSUME NEW c \in Callers, NEW m \in Msg, Persist(c, m) PROVE Owned'
  BY <1>1 DEF Persist, Enter, Step, poolVars, queryVars
<1>2. ASSUME NEW c \in Callers, NEW q \in Query, MakeQuery(c, q) PROVE Owned'
  BY <1>2 DEF MakeQuery, Enter, Step, Advance, poolVars
<1>3. ASSUME NEW c \in Callers,
             Execute(c) \/ ExecuteFails(c) \/ Commit(c) \/ CommitFails(c)
      PROVE  Owned'
  BY <1>3 DEF Execute, ExecuteFails, Commit, CommitFails, Return, Step, poolVars, queryVars
<1>4. ASSUME NEW c \in Callers, Enqueue(c) PROVE Owned'
  <2> DEFINE q == job[c]
  <2>1. q \in Query /\ qpc[q] = "called" /\ phase = "open" /\ cpc[c] = "lookup"
    BY <1>4 DEF Enqueue, Return, Step, Advance, Pool!Submit
  <2>2. Elements(waiting') = Elements(waiting) \cup {q} /\ NoRepeat(waiting')
    <3>1. q \notin Elements(waiting)
      BY <1>0, <2>1
    <3>2. waiting' = Append(waiting, q)
      BY <1>4 DEF Enqueue, Pool!Submit
    <3> QED
      BY <2>1, <3>1, <3>2, AppendElements
  <2>3. /\ qpc' = [qpc EXCEPT ![q] = "queued"]
        /\ UNCHANGED <<running, phase, mutex>>
        /\ cpc' = [cpc EXCEPT ![c] = "idle"]
        /\ job' = [job EXCEPT ![c] = NoJob]
    BY <1>4 DEF Enqueue, Return, Step, Advance, Pool!Submit
  <2> HIDE DEF q
  <2>4. PoolOwnsQueries'
    <3>1. Elements(waiting') = {r \in Query : qpc'[r] = "queued"}
      BY <1>0, <2>1, <2>2, <2>3
    <3>2. running' = {r \in Query : qpc'[r] \in {"read", "lock", "callback"}}
      BY <2>1, <2>3
    <3>3. \A r \in Query : qpc'[r] = "callback" => mutex' = r
      BY <2>1, <2>3
    <3>4. phase' = "closed" =>
             \A r \in Query : qpc'[r] \in {"new", "rejected", "answered", "failed"}
      BY <2>1, <2>3
    <3> QED
      BY <3>1, <3>2, <3>3, <3>4 DEF Elements
  <2>5. ASSUME NEW r \in Query, qpc'[r] = "called"
        PROVE  \E d \in Callers : cpc'[d] = "lookup" /\ job'[d] = r
    <3>1. r # q /\ qpc[r] = "called"
      BY <2>1, <2>3, <2>5
    <3>2. PICK d \in Callers : cpc[d] = "lookup" /\ job[d] = r
      BY <3>1
    <3>3. d # c
      BY <3>1, <3>2 DEF q
    <3> QED
      BY <2>3, <3>2, <3>3
  <2>6. Handover'
    BY <2>1, <2>2, <2>3, <2>5
  <2> QED
    BY <2>4, <2>6
<1>5. ASSUME NEW c \in Callers, QueryFails(c) PROVE Owned'
  BY <1>5 DEF QueryFails, Return, Step, Advance, poolVars
<1>6. ASSUME NEW m \in Msg, CommitLate(m) PROVE Owned'
  BY <1>6 DEF CommitLate, poolVars, callVars, queryVars
<1>7. CASE StartQuery
  <2> DEFINE q == Head(waiting)
  <2>1. waiting # <<>> /\ waiting' = Tail(waiting) /\ running' = running \cup {q}
        /\ qpc' = [qpc EXCEPT ![q] = "read"]
        /\ UNCHANGED <<phase, mutex, cpc, job>>
    BY <1>7 DEF StartQuery, Pool!Start, Advance, callVars
  <2>2. /\ Elements(waiting') = Elements(waiting) \ {q}
        /\ q \in Elements(waiting)
        /\ NoRepeat(waiting')
    BY <2>1, TailElements
  <2>3. q \in Query /\ qpc[q] = "queued"
    BY <1>0, <2>2
  <2> HIDE DEF q
  <2>4. PoolOwnsQueries'
    <3>1. Elements(waiting') = {r \in Query : qpc'[r] = "queued"}
      BY <1>0, <2>1, <2>2, <2>3
    <3>2. running' = {r \in Query : qpc'[r] \in {"read", "lock", "callback"}}
      BY <2>1, <2>3
    <3>3. \A r \in Query : qpc'[r] = "callback" => mutex' = r
      BY <2>1, <2>3
    <3>4. phase' = "closed" =>
             \A r \in Query : qpc'[r] \in {"new", "rejected", "answered", "failed"}
      BY <2>1, <2>3
    <3> QED
      BY <3>1, <3>2, <3>3, <3>4 DEF Elements
  <2>5. Handover'
    BY <2>1, <2>2, <2>3
  <2> QED
    BY <2>4, <2>5
<1>8. ASSUME NEW q \in Query, Read(q) PROVE Owned'
  BY <1>8 DEF Read, Advance, poolVars, callVars
<1>9. ASSUME NEW q \in Query, LockMutex(q) PROVE Owned'
  BY <1>9 DEF LockMutex, Advance, poolVars, callVars
<1>10. ASSUME NEW q \in Query, CallbackReturns(q) PROVE Owned'
  BY <1>10 DEF CallbackReturns, Advance, Pool!Finish, callVars
<1>11. ASSUME NEW q \in Query, ReadFails(q) \/ CallbackThrows(q) PROVE Owned'
  BY <1>11 DEF ReadFails, CallbackThrows, Advance, Pool!Finish, callVars
<1>12. ASSUME NEW q \in Query, ReadCrashes(q) PROVE Owned'
  BY <1>12 DEF ReadCrashes, Advance, poolVars, callVars
<1>13. CASE Destroy
  BY <1>13 DEF Destroy, Pool!Close, callVars, queryVars
<1>14. CASE Destroyed
  <2>1. /\ waiting = <<>> /\ running = {} /\ phase = "closing" /\ phase' = "closed"
        /\ UNCHANGED <<waiting, running, qpc, mutex, cpc, job>>
    BY <1>14 DEF Destroyed, Pool!Terminate, callVars, queryVars
  <2>2. \A q \in Query : qpc[q] \in {"new", "rejected", "answered", "failed"}
    <3>1. \A q \in Query : qpc[q] # "called"
      BY <2>1
    <3>2. \A q \in Query : qpc[q] \notin {"queued", "read", "lock", "callback"}
      BY <2>1
    <3> QED
      BY <3>1, <3>2
  <2> QED
    BY <2>1, <2>2
<1>15. CASE UNCHANGED vars
  BY <1>15 DEF vars, poolVars, callVars, queryVars
<1> QED
  BY <1>1, <1>2, <1>3, <1>4, <1>5, <1>6, <1>7, <1>8, <1>9, <1>10, <1>11, <1>12,
     <1>13, <1>14, <1>15 DEF Next, CallerStep, WorkerStep, WorkerFailure

(* A query uses the client only while the pool runs it, so none is left    *)
(* when the destructor has returned (PGClient.cpp:47-74; PGClient.h:59).   *)
THEOREM QueriesAreOwned == Spec => [](Handover /\ PoolOwnsQueries)
<1>1. Init => Owned
  BY ClientAssumption DEF Init, Pool!Init, Owned, Handover, NoRepeat, PoolOwnsQueries
<1>2. Spec => []Typed
  BY InitTyped, TypeStep, PTL DEF Spec
<1>3. Owned => Handover /\ PoolOwnsQueries
  BY DEF Owned
<1> QED
  BY <1>1, <1>2, <1>3, OwnedStep, PTL DEF Spec
-----------------------------------------------------------------------------
(* Every step of the client is one its pool allows, or leaves it alone.    *)
LEMMA PoolStep == Typed /\ [Next]_vars => [Pool!Next]_(Pool!vars)
<1> SUFFICES ASSUME Typed, [Next]_vars PROVE [Pool!Next]_(Pool!vars)
  OBVIOUS
<1>0. ASSUME UNCHANGED poolVars PROVE UNCHANGED Pool!vars
  BY <1>0 DEF poolVars, Pool!vars
<1>1. ASSUME NEW c \in Callers, NEW m \in Msg, Persist(c, m) PROVE UNCHANGED poolVars
  BY <1>1 DEF Persist
<1>2. ASSUME NEW c \in Callers, NEW q \in Query, MakeQuery(c, q) PROVE UNCHANGED poolVars
  BY <1>2 DEF MakeQuery
<1>3. ASSUME NEW c \in Callers,
             \/ Execute(c) \/ ExecuteFails(c) \/ Commit(c) \/ CommitFails(c) \/ QueryFails(c)
      PROVE  UNCHANGED poolVars
  BY <1>3 DEF Execute, ExecuteFails, Commit, CommitFails, QueryFails
<1>4. ASSUME NEW c \in Callers, Enqueue(c) PROVE Pool!Next
  <2>1. job[c] \in Query /\ Pool!Submit(job[c])
    BY <1>4 DEF Enqueue, Return, Step, Typed, CallsMatch
  <2> QED
    BY <2>1 DEF Pool!Next
<1>5. ASSUME NEW m \in Msg, CommitLate(m) PROVE UNCHANGED poolVars
  BY <1>5 DEF CommitLate
<1>6. ASSUME NEW q \in Query, Read(q) \/ LockMutex(q) \/ ReadCrashes(q)
      PROVE  UNCHANGED poolVars
  BY <1>6 DEF Read, LockMutex, ReadCrashes
<1>7. ASSUME NEW q \in Query, ReadFails(q) \/ CallbackReturns(q) \/ CallbackThrows(q)
      PROVE  Pool!Next
  <2>1. Pool!Finish(q)
    BY <1>7 DEF ReadFails, CallbackReturns, CallbackThrows
  <2> QED
    BY <2>1 DEF Pool!Next
<1>8. CASE StartQuery \/ Destroy \/ Destroyed
  BY <1>8 DEF StartQuery, Destroy, Destroyed, Pool!Next
<1>9. CASE UNCHANGED vars
  BY <1>9, <1>0 DEF vars
<1> QED
  BY <1>0, <1>1, <1>2, <1>3, <1>4, <1>5, <1>6, <1>7, <1>8, <1>9
  DEF Next, CallerStep, WorkerStep, WorkerFailure

(* The client uses its pool as the specification of the pool foresees: it  *)
(* hands over no query twice and none after its destructor has begun       *)
(* (PGClient.cpp:94; PGClient.h:59).                                       *)
THEOREM ClientUsesPool == Spec => Pool!Spec
<1>1. Init => Pool!Init
  BY DEF Init
<1>2. Spec => []Typed
  BY InitTyped, TypeStep, PTL DEF Spec
<1> QED
  BY <1>1, <1>2, PoolStep, PTL DEF Spec, Pool!Spec
-----------------------------------------------------------------------------
(* mMutex is held by the query that is in its callback, or by one whose    *)
(* callback has thrown.                                                    *)
MutexHeld == mutex # NoJob => \/ qpc[mutex] = "callback"
                              \/ CallbackMayThrow /\ qpc[mutex] = "failed"

(* Only the callback that has the mutex moves its holder.                  *)
LEMMA MutexStep == Typed /\ MutexHeld /\ [Next]_vars => MutexHeld'
<1> SUFFICES ASSUME Typed, MutexHeld, [Next]_vars PROVE MutexHeld'
  OBVIOUS
<1> USE DEF Typed, TypeOK, MutexHeld
<1>1. ASSUME NEW q \in Query, LockMutex(q) \/ CallbackReturns(q) PROVE MutexHeld'
  BY <1>1 DEF LockMutex, CallbackReturns, Advance
<1>2. ASSUME NEW q \in Query, CallbackThrows(q) PROVE MutexHeld'
  BY <1>2 DEF CallbackThrows, Advance
<1>3. ASSUME NEW q \in Query, NEW from \in {"new", "called", "read", "queued"},
             NEW to, Advance(q, from, to), UNCHANGED mutex
      PROVE  MutexHeld'
  BY <1>3 DEF Advance
<1>4. ASSUME NEW c \in Callers, NEW m \in Msg, Persist(c, m) PROVE UNCHANGED queryVars
  BY <1>4 DEF Persist
<1>5. ASSUME NEW c \in Callers, NEW q \in Query, MakeQuery(c, q) PROVE MutexHeld'
  BY <1>5, <1>3 DEF MakeQuery
<1>6. ASSUME NEW c \in Callers, Execute(c) \/ ExecuteFails(c) \/ Commit(c) \/ CommitFails(c)
      PROVE  UNCHANGED queryVars
  BY <1>6 DEF Execute, ExecuteFails, Commit, CommitFails, queryVars
<1>7. ASSUME NEW c \in Callers, Enqueue(c) \/ QueryFails(c) PROVE MutexHeld'
  <2>1. job[c] \in Query
    BY <1>7 DEF Enqueue, QueryFails, Return, Step, CallsMatch
  <2> QED
    BY <1>7, <2>1, <1>3 DEF Enqueue, QueryFails
<1>8. ASSUME NEW q \in Query, Read(q) \/ ReadFails(q) \/ ReadCrashes(q) PROVE MutexHeld'
  BY <1>8, <1>3 DEF Read, ReadFails, ReadCrashes
<1>9. CASE StartQuery
  <2>1. Head(waiting) \in Query
    BY <1>9 DEF StartQuery, Pool!Start
  <2> QED
    BY <1>9, <2>1, <1>3 DEF StartQuery
<1>10. (\E m \in Msg : CommitLate(m)) \/ Destroy \/ Destroyed \/ UNCHANGED vars
          => UNCHANGED queryVars
  BY DEF CommitLate, Destroy, Destroyed, vars
<1>11. ASSUME UNCHANGED queryVars PROVE MutexHeld'
  BY <1>11 DEF queryVars
<1> QED
  BY <1>1, <1>2, <1>4, <1>5, <1>6, <1>7, <1>8, <1>9, <1>10, <1>11
  DEF Next, CallerStep, WorkerStep, WorkerFailure

(* Workers, mMutex and the destructor cannot wait for each other, for any  *)
(* number of threads: only a callback that throws makes them               *)
(* (PGClient.cpp:68-70; ThreadPool.h:45-56).                               *)
THEOREM NoDeadlock == Spec => []SomebodyGoesOn
<1>1. Init => MutexHeld
  BY DEF Init, MutexHeld
<1>2. Spec => []Typed
  BY InitTyped, TypeStep, PTL DEF Spec
<1>3. Typed /\ PoolOwnsQueries /\ MutexHeld => SomebodyGoesOn
  <2> SUFFICES ASSUME Typed, PoolOwnsQueries, MutexHeld, ~crashed,
                      phase = "closing" \/ Unfinished # {}
               PROVE  \/ \E q \in Query : \/ qpc[q] \in {"read", "callback"}
                                          \/ qpc[q] = "lock" /\ mutex = NoJob
                      \/ waiting # <<>> /\ Cardinality(running) < Cardinality(Workers)
                      \/ phase = "closing" /\ waiting = <<>> /\ running = {}
                      \/ CallbackMayThrow /\ mutex # NoJob /\ qpc[mutex] = "failed"
    BY Zenon DEF SomebodyGoesOn
  <2>1. CASE running # {}
    BY <2>1 DEF PoolOwnsQueries, MutexHeld, Typed, TypeOK
  <2>2. CASE running = {}
    <3>1. Cardinality(running) < Cardinality(Workers)
      BY <2>2, ClientAssumption, FS_EmptySet, FS_CardinalityType
    <3>2. Unfinished # {} => waiting # <<>>
      BY <2>2 DEF PoolOwnsQueries, Unfinished
    <3> QED
      BY <2>2, <3>1, <3>2
  <2> QED
    BY <2>1, <2>2
<1> QED
  BY <1>1, <1>2, <1>3, MutexStep, QueriesAreOwned, PTL DEF Spec
=============================================================================
