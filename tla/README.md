# A verification of the messaging and database clients

The repository is a small C++ library, used by an interactive test program:
`qpidMessaging` sends and receives messages through an AMQP broker with one
thread per exchange, `pgClient` stores messages in a PostgreSQL database and
reads them back with a pool of threads. This directory holds TLA+ models of its
concurrent parts, the TLC runs that check them, and proofs that TLAPS checks.
Paths below are relative to `project-source/`.

## 1. The system

| Component | State it keeps | Operations | Interacts with |
|---|---|---|---|
| `ThreadPool` (`pg-client/pg-common/ThreadPool.h`) | `tasks`, `stop`, the worker threads; one mutex, one condition variable | constructor, `enqueue`, worker loop, destructor | tasks call back into it and into its owner |
| `PGClient` (`pg-client/src`) | `mPool`, `mPGConnector`, the static `mMutex`; the rows in the database | `pgMessagePersist`, `pgMessageQuery`, `queryExchange` on a pool thread, implicit destructor | `ThreadPool`, `PGConnector`, the user's callback |
| `PGConnector` (`pg-client/pg-connector`) | none | one libpqxx call each | the database |
| `QPIDReceiver` (`qpid-messaging/qpid-receiver`) | connection, session, `mReceivingActive`, its thread, the static `mMutex` | `receiveMessages`, `waitForMessages` on its thread, `receiveStop`, destructor | `QPIDBrokerConnector`, the user's callback |
| `QPIDMessaging` (`qpid-messaging/src`) | `activeReceivers` | send, `qpidReceiveMessages`, `qpidReceiveStop`, destructor | receivers, senders |
| `QPIDSender` (`qpid-messaging/qpid-sender`) | a connection per message | `sendMessage` | `QPIDBrokerConnector` |
| `QPIDBrokerConnector` | none | one qpid call each | the broker |
| test program (`test/`) | two static clients of the database, one of the broker, `exchangeReply` | a menu; callbacks that print, reply or persist | both libraries |
| `CMLog`, unit tests, build, container, schema | none | - | - |

What makes each part correct, and what is hard about it:

- **ThreadPool.** Each accepted task runs once; no wakeup is lost although
  `enqueue` notifies after it has unlocked; the destructor neither drops work nor
  waits for a sleeping worker. Hard: every order of enqueue, wait, notification
  and stop.
- **PGClient.** The status of a persist is true even if the commit fails half
  way; a query that runs later, in another thread and on another connection,
  misses nothing that was confirmed before; no query uses the client after its
  destructor. Hard: members are destroyed in the wrong order, a mutex is locked
  and unlocked by hand around a callback, the status of a query is returned
  before it has run.
- **QPIDReceiver and QPIDMessaging.** No message of a queue is lost, each is
  acknowledged only after its callback has returned; callbacks of all receivers
  exclude each other; stopping ends the thread. Hard: connections break and
  closes fail at any point, both threads close the same connection, a plain
  `bool` is shared without a lock, `fetch` waits without a timeout.
- **QPIDSender.** `QPID_SUCCESS` means that the broker has the message, although
  `send` does not wait for it; whatever fails, the call comes back. Hard: the
  close that makes the message safe may fail after it was sent, the close of the
  handler may throw out of a callback that holds the receivers' mutex.
- **Test program.** A replying receiver sends a text that was entered for its
  exchange, the last one unless a start or stop has failed, and never one that
  `operator[]` made up; stop and exit come to an end.
  Hard: the menu's thread and the receivers' threads share `exchangeReply`
  without a lock, `emplace` keeps what an earlier start left, and the static
  objects that the callbacks use are destroyed before the receivers.

All hazards are in `PROJECT.json`, each at its line with the properties that
would show it.

## 2. Modules

| Module | What it is |
|---|---|
| `TaskPool` | what a pool promises: accepted tasks start in order, each once, at most `Workers` at a time, and closing waits for all |
| `ThreadPool` | the code of the pool; implements `TaskPool` |
| `PGClient` | the database client; its pool is an instance of `TaskPool` |
| `MessageDelivery` | what `QPIDMessaging` promises to a program that receives: one callback at a time, only while its exchange is listened to, an acknowledgement after it, nothing handed out again afterwards |
| `QPIDBroker` | external: queues, topics, connections, sessions |
| `QPIDReceiver` | the thread of each receiver (extends `QPIDBroker`) |
| `QPIDMessaging` | the calling thread, `activeReceivers` and the other half of a receiver (extends `QPIDReceiver`); implements `MessageDelivery` |
| `QPIDSender` | the send calls: one connection per message, on any thread |
| `TestCM` | the test program: menu, callbacks, `exchangeReply`, end of the process (extends `QPIDSender`; its receivers are an instance of `MessageDelivery`) |
| `MC...` | values for TLC; the pool needs none |
| `QueueLemmas` | the elements of a queue after a push and a pop |
| `TaskPoolProofs`, `MessageDeliveryProofs` | what follows from the two abstract specifications alone |
| other `...Proofs` | theorems about the module of that name, and their proofs |

Operators called "faulty variant" in their comment are slips a programmer could
make in the action below them. Nothing uses them; putting one in the place of
its action shows that a property notices.

### ThreadPool

A critical section of `queue_mutex` never blocks except in `wait`, which gives
the mutex up, so a critical section is one action. What is outside of one is a
step of its own: the `notify_one` of `enqueue` (`Notify`), the task itself
(between `WorkerTake` and `WorkerFinish`), the `notify_all` and the joins of the
destructor. `SpuriousWake` is the right of `wait` to return for no reason. Tasks
may call `enqueue`. What a task throws stays in its `packaged_task`, so there is
one way for it to end. Callers outside of the pool may be in `enqueue` while the
destructor runs; a notification that is still due after the pool is gone has no
effect in the model (in C++ it is a use of a dead object that the pool cannot
prevent).

### QPIDReceiver and QPIDMessaging

`tpc[e]` is the line at which the receiver's thread is, `mpc` the line at which
the calling thread is. One thread uses the interface, as in the test program's
menu; nothing in `QPIDMessaging` would make more than one safe. Points of
interest:

- `LoopCheck` reads `mReceivingActive`, which the other thread writes without a
  lock: the read may return the value the flag had before.
- `Disconnect` is the end of a connection for whatever reason: a queue gets its
  unacknowledged messages back, a topic forgets its subscriber's messages.
  `LoseConnection` lets it happen at any time; a close that throws may have ended
  the connection or not (`MaybeDisconnect`).
- `acknowledge` is asynchronous in the library; that it does not reach the broker
  is the `LoseConnection` just before it. It may throw like `fetch`, with the
  connection ended (`AckThrows`) or still open (`AckFails`).
- The handler of `waitForMessages` tests and closes in two steps, with the other
  thread's close possible in between.
- `terminated` is `std::terminate`: an exception left a thread or a destructor.

The opening of connection, session and receiver in `receiveMessages` is one step
that succeeds or fails with the connection open or not: nobody else sees the
states in between.

`ImplementsMessageDelivery` maps `listening` to `registered`, the callback in
progress to the exchange that holds the mutex at the place `callback` with the
message in its hand, and `jammed` to a mutex that is held outside of a callback.
An acknowledgement is one of a message that was handled and not acknowledged,
and is made by the thread that called back: not during another callback of the
same exchange, but possibly during one of another exchange.
Registration in the code comes after the thread has started; the model has both
in `SpawnSucceeds`, where nobody else can see the difference.

### QPIDSender

`spc[s]` is the place of thread `s` in `sendMessage`. Opening connection,
session and sender is one step, as nobody sees the states in between; `send`, the
close and the close in the handler are one step each, each may fail. `send` hands
the message to the library (`wire`) and returns; the broker takes it later
(`Accept`), possibly after the connection has ended, or never, when a failure cut
it off. One assumption about the library is made: a `close` that returns has
waited for what was sent on the connection (`CloseSucceeds`). `SendStatusIsTrue`
rests on it; a sender that dropped the connection instead (`CloseDropped`) breaks
it. The converse is not true of the code: `QPID_ERROR` is also returned for a
message that the broker took when only the close failed, so that a retry sends it
twice.

### TestCM

`mpc` is the place of the main thread, `cpc` that of the callback in progress
(there is one at most, by `MessageDelivery`). Points of interest:

- What is published on an exchange is what the menu's sender left with the
  broker (`published <- ...` in the instance). Replies are sent and observed and
  not received by the program again.
- A reply text is `last` (what the user entered last for the exchange),
  `earlier`, `empty` (what `operator[]` makes up) or `invalid`: nothing else
  about it matters. `failed` and `done` are history.
- `StopSucceeds` ends the receiver and erases the entry in one step; that the
  erase is after the stop is what `StopItemErases` breaks. An erase or an insert
  that overlaps a look-up on another thread is a data race (`MapRace`).
- `Exit` starts the destruction of the static objects, in the order
  `exchangeReply`, `postgresClient`, `qpidMessagingClient`. A callback may run all
  the time; a look-up in the destroyed map finds whatever is there, or the
  behaviour is undefined (`UseAfterDestruction`).
- `undefined` is the place after a data race or the use of a dead object: the
  properties claim nothing from there on. `hung` and `stuck` are a stop and a
  destructor that never return because a close has thrown (`Hang`, the finding of
  `qpid_stop_close_throws`); `aborted` is `std::terminate`: an exception left
  `main` or the destructor of a receiver that was not registered (`SendReturns`,
  `StartThrows`), or the thread of a receiver, which may happen at any time
  (`ReceiverTerminates`).
- The entry that `emplace` finds stays. After a start or a stop that failed it may
  be an old text, which is what the finding of `test_cm_reply` is about.
- The items that send, start or stop several times are sequences of the single
  ones. `-1` in the outer menu is `Exit`; the inner menu's `-1` changes nothing.

### PGClient

Callers persist messages and make queries; a query goes through `called`,
`queued`, `read` (its SELECT), `lock`, `callback`, and ends `answered` or
`failed`. A transaction before its commit is one step, as no other transaction
sees it. A commit may fail after the database has done it (`inDoubt`,
`CommitLate`). `Destroy` is the destructor, entered when no call is in progress;
the connector dies first and the pool then runs what it still holds: such a query
works by luck (`Read`) or crashes the program (`ReadCrashes`). The pool is used
through `TaskPool`'s actions, which is what the refinement of `ThreadPool` is
for. There is one client in the model. `mMutex` is static, so several clients
would share it; of the two that the program has only the one of
`cm_pgclient.cpp` makes queries.

## 3. Runs

| Run | Bounds | Shows |
|---|---|---|
| `thread_pool` | 4 tasks, 3 workers, 2 callers | `NoTaskLost`, `NoLostWakeup`, `NobodySleepsThroughStop`, `DestroyedIsDrained`, `DestructorReturns`, `AcceptedTasksRun`, `ImplementsTaskPool` |
| `qpid_safety` | a queue and a topic, 2 messages, all failures | `NoMessageLost`, `AckCoversMessageInHand`, `NoThreadOutlivesReceiver`, `CallbacksExclude`, `RegisteredIsActive`, `ImplementsMessageDelivery` |
| `qpid_live` | the same; neither callbacks nor closes throw | `JoinedThreadGoesOn`, `StopReturns`, `DestructorReturns`, `BacklogIsWorkedOff` |
| `qpid_already` | the same | violated: `AlreadyMeansRunning` |
| `qpid_stop_close_throws` | one queue, one message, closes throw | violated: `StopReturns` |
| `qpid_stop_callback_throws` | one queue, one message, callbacks throw | violated: `StopReturns` |
| `pg_safety` | 3 messages (known, no and unknown exchange), 3 queries (one of the known exchange, two of everything), 2 callers, 2 workers | `StatusIsTrue`, `AnswersAreRecent`, `PoolOwnsQueries`, `SomebodyGoesOn` |
| `pg_live` | 1 message, 4 queries (one of an unknown exchange), 1 caller, 2 workers | `QueriesEnd`, `DestructorReturns` |
| `pg_success` | 1 message, 1 query | violated: `SuccessIsAnswered` |
| `test_cm` | 2 exchanges, 2 messages (one wants the reply text, one an invalid reply), 2 callbacks, 3 items and the exit, all failures | `SendStatusIsTrue`, `OldTextMeansFailure`, `RepliesAreReal`, `EndIsQuiet`, `StopItemReturns`, `ExitEnds` |
| `test_cm_persist` | the same with 1 callback, closes do not throw | violated: `AcknowledgedIsStored` |
| `test_cm_reply` | the same | violated: `SelectedIsAnswered` |

Each module also has a `TypeOK`, checked with the safety run.

Why the bounds are enough: the pool needs more tasks than workers, two enqueues
that both are between unlock and notify, and a sleeping worker next to a busy
one; three workers and two callers give all of that, and the theorems cover
every other size. For the receivers, two exchanges are needed for the shared
mutex, two messages for a message that waits while one is in hand, and the two
kinds of exchange differ when a connection ends; the theorems again cover all
sizes. For the client, two callers and two workers give every race on the mutex
and between persist and query; a third query waits behind two busy workers, as a
query does that a circular wait would leave in the queue. For the test program, `MaxItems` is enough for a
message that is sent, a receiver that replies and a stop, or for two starts of
the same exchange and a stop in between, each with the exit at any time; two
callbacks are needed for a redelivery and for a callback after one that threw.
`test_cm` has every failure at once, and its theorems cover any number of items
and callbacks. Calls, messages and tasks are finite sets: each
is used once, which is the only bound besides `MaxItems` and `MaxCalls` of
`TestCM`; in `QPIDMessaging` starts and stops of receivers are not bounded.

Deadlock is checked for the pool, where `Terminated` is the only rest. It is not
checked for the others: they may come to rest with the mutex locked for good, after a
crash or when nothing is left to do. The invariants `SomebodyGoesOn` (client) and
`JoinedThreadGoesOn` (receivers) say instead which waiting is no deadlock, and the
liveness runs say what must end.

Fairness: a thread that can run is scheduled, a task and a callback return
(weak fairness of the threads' own steps). Nobody has to call anything, no
failure has to happen, no wakeup has to be spurious. No mutex is assumed to be
fair: `std::mutex` gives no thread its turn. `BacklogIsWorkedOff` therefore names
the starvation that this allows (`Overtaken`): a receiver may wait in `lock` for
ever while callbacks of other exchanges return again and again. That takes
messages without end; in the model, where they are a finite set, redeliveries over
connections that break without end. Without that disjunct TLC
finds such a behaviour; with it the property says that nothing else holds a
receiver up. The stops return all the same, because the messages that can
overtake the thread being joined are finitely many: the main thread is in the
join, so no receiver starts anew, and each connection breaks once. With messages
that arrive without end a stop could be held up as well. `PGClient` takes
the fairness of the pool from `TaskPool!FairSpec`, which `ThreadPool` is checked
to implement. In `TestCM` every library call of a sender returns or throws, and a
callback is scheduled; that a stop and the destructor of the receivers return is
assumed only while no callback has thrown, which is what `StopReturns` and
`DestructorReturns` of `qpid_live` show (a close that throws may end in `Hang`
instead). `StopItemReturns` and `ExitEnds` hold unless a close has thrown, and
`CloseHasThrown` says what that leaves behind: a locked `mMutex`, a stop or a
destructor that waits for ever, or `aborted`. `ExitEnds` also allows `undefined`,
but only if a replying or persisting receiver was running at the exit.

The six violated claims, with what the code does, are under "findings" in
`PROJECT.json`:

1. `QPID_ALREADY` is returned for a receiver whose thread has ended
   (`QPIDMessaging.h:61`).
2. A close that throws in `receiveStop` makes `qpidReceiveStop` hang instead of
   returning `QPID_ERROR` (`QPIDMessaging.h:71`).
3. A callback that throws leaves the static mutex locked, and the next stop hangs
   (`QPIDMessaging.h:67`).
4. `PG_SUCCESS` of `pgMessageQuery` does not mean that messages were queried
   (`PGClient.h:45`).
5. The persisting receiver acknowledges messages that it failed to persist
   (`README.md:156`).
6. The replying receiver may answer with an earlier text than the selected one
   (`README.md:155`).

## 4. Proofs

`tlapm` on the seven modules `QueueLemmas`, `TaskPoolProofs`,
`MessageDeliveryProofs`, `ThreadPoolProofs`, `QPIDMessagingProofs`,
`PGClientProofs` and `TestCMProofs` checks everything below, for all values of
the constants that satisfy `PoolAssumption`, `BrokerAssumption`,
`ReceiverAssumption`, `ClientAssumption`, `SenderAssumption` and
`TestAssumption`. `ClientAssumption` asks for a finite set of workers that is not
empty: `PGClient.cpp:7` makes five.

How the parts fit together: each abstract specification has theorems of its
own, the code is proved to implement it, and the component above is proved to
use it as it may be used.

    ThreadPool    => TaskPool         (PoolRefinesTaskPool, without fairness)
    PGClient      => TaskPool         (ClientUsesPool)
    QPIDMessaging => MessageDelivery  (MessagingRefinesDelivery)
    TestCM        => MessageDelivery  (ProgramUsesReceivers)

A theorem about `MessageDelivery` is then carried to the detailed module by an
instance of its `...Proofs` module (`Promised`) under the same mapping:
`CallbacksKeepRule`, `HandledSent` and `ThrowEndsCallbacks` are `DeliveryIsLegal`
and `CallbacksAreLegal`, seen from the code of the receivers and from the test
program. Those of `TaskPool` hold of the client's pool by `ClientUsesPool`.

**TaskPool.** `TasksHaveOnePlace`, `ThreadsSuffice` (for a finite set of threads,
by the cardinality theorems) and `ClosedIsDrained` are inductive as they stand;
`TasksRunOnce`, an action property, follows from the first: a task that starts
has neither run nor been refused, and a running one stays or finishes.

**MessageDelivery.** `DeliveryIsLegal` proves two things together: acknowledged
is handled, handled is published on one exchange (`InOrder`), and a callback in
progress has a listener and a message that is not acknowledged (`CallIsLegal`).
`CallbacksAreLegal` is what a step may never do: call back for an acknowledged
message, go from one callback into another, handle anything after a throw.

**ThreadPool.** `TypeCorrect` adds `Holding` to the types: a worker has a task
exactly while it runs it. `StopIsSeen` (`NobodySleepsThroughStop`) needs
`Control`: `stop` and the destructor's place agree, and a worker leaves only with
`stop` set and an empty queue, for good. `WakeupsSuffice` (`NoLostWakeup`) counts:
a push adds a task and a pending notification, a notification that finds a
sleeper turns into a worker that looks, and a worker sleeps only on an empty
queue; it uses the cardinality theorems, hence the finite sets of threads in
`PoolAssumption`. `TasksAreKept` (`NoTaskLost`) needs `Places`, that the tasks in
the queue, with workers and finished are all different, and a lemma each for the
elements of a queue after a push and after a pop. `DestructionDrains` follows
from both. `PoolRefinesTaskPool` is step simulation: every action of the pool is
a step of `TaskPool` or leaves its variables alone; the two invariants tell that
`Start` finds a free worker and `Terminate` an empty pool.

**QPIDMessaging.** The invariant is `Control` (what `mpc` says about
`registered`, `active` and `target`), `Holding` (what `tpc` says about the
message in hand) and `NoThreadOutlivesReceiver`; `ThreadsAreJoined` proves them
together, as a thread can be told to end only if its receiver is where `Control`
says. `StopFindsActive` is a part of `Control`. `AtLeastOnce` (`NoMessageLost`) and
`AckIsExact` come from `Delivery`, which says in addition that a message about
to be acknowledged was handled, and that an exchange without a thread has
nothing unacknowledged. `AcknowledgedIsFinal` adds `Outstanding`: what waits or is
in hand was published and is not acknowledged, which the return of
unacknowledged messages by a broken connection must not spoil.
`MessagingRefinesDelivery` is step simulation from all of these: a callback
begins with a message that is outstanding, an acknowledgement covers exactly one
handled message, a receiver ends when its thread is not in a callback, and every
other step does not show (`Hidden`). `CallbacksKeepRule`, again an action property, is
inherited through it. `JoinsGoOn` (`JoinedThreadGoesOn`) needs `StoppedIsClosed`,
that the connection of a receiver that was told to stop, once closed, is not
opened again before its thread is joined, and `MutexHeld`, that the mutex is held
in a callback or by one that threw.

**PGClient.** `StatusHolds` needs that a commit in doubt was one of an accepted
name. `ReadYourWrites` (`AnswersAreRecent`) rests on it: what was confirmed or
shown is committed, rows are never taken back, so what a query must show is
there when it reads. `QueriesAreOwned` (`PoolOwnsQueries`) needs `Handover`: the
queue holds no query twice, a query that was called is in the hand of a caller,
and no caller is in a call once the destructor has begun. `PoolStep` uses the
same facts to show that every step is one of the pool or invisible to it
(`ClientUsesPool`). `NoDeadlock` (`SomebodyGoesOn`) needs `MutexHeld`, the finite set of workers, and
`PoolOwnsQueries`: if the pool has no free worker, one of its workers is in a
place where it can go on.

**TestCM.** `Basic` joins the types with what the place of the main thread says
about the item it is in (`MenuPlace`), what a callback says about its receiver
(`CallbackPlace`), and that a thread in `sendMessage` has a packet. `EveryMove`
splits a step of the program by what it does to the senders, from which
`SendStatusHolds` follows. `TextIsKept` (`OldTextMeansFailure`) needs `Entries`: until the exit, an entry
has a replying receiver, or a start or stop has failed, or its item is still in
the start; so a receiver starts on an entry that is there, and an `earlier` one
only after a failure. `RepliesHold` uses it for the text of a new reply, and that
the map, once destroyed, stays so (`OverIsFinal`), for those on their way.
`ReceiversStep` maps every step to one of `MessageDelivery`: a message that the
broker takes is published on its exchange, everything the menu does between two
calls is invisible. `EndQuiet` (`EndIsQuiet`) needs `Busy`, who may be in a send
call when, and that no exchange has a receiver at the end. `ThrowEndsCallbacks`
adds to the inherited rule that only a callback that returns changes rows
(`OnlyCallbacksRecord`).

The invariants and action properties that only the proofs name
(`StoppedIsClosed`, both `MutexHeld`, `Busy`, `CallbackRule`, `HandledWasSent`,
`ThrowIsLast` and those of the two abstract specifications) were checked with TLC
on the runs' constants before they were proved.

Only model-checked: everything under fairness and so everything with `ENABLED`,
which is out of the proof system's reach: `DestructorReturns` and
`AcceptedTasksRun` of the pool, the fairness part of `ImplementsTaskPool`,
`StopReturns`, `DestructorReturns` and `BacklogIsWorkedOff` of the receivers,
`QueriesEnd` and `DestructorReturns` of the client, `StopItemReturns` and
`ExitEnds` of the test program. Every invariant and the safety part of every
refinement is proved.

## 5. What is not modelled

- Calls of `QPIDMessaging` from several threads, other than sends, and stops from
  a callback, which would join the callback's own thread: no callback of the
  repository makes one.
- The menu of `cm_pgclient.cpp`, which adds no state to the calls of `PGClient`,
  and queries made by a callback, of which there are none. For the same reason
  the two `PGClient` objects are not composed: no two of them ever meet on
  `mMutex`.
- Replies that are received by the program itself.
- Allocation failures, exceptions that are not `std::exception`, a failure of a
  thread in the constructor of the pool, and of the constructor of a connection
  (`QPIDReceiver.cpp:8`), which is outside of any `try`.
- `CMLog`: no state depends on it. Its use of `std::localtime` by several threads
  is a data race on a buffer that only time stamps are read from.
- The conversion of rows, the SQL text, unit tests, build and deployment.

## 6. Plan

Done: (1) `TaskPool` and `ThreadPool` with refinement, (2) `QPIDBroker`,
`QPIDReceiver`, `QPIDMessaging`, (3) `PGClient` over `TaskPool`, (4)
`MessageDelivery` and its refinement by `QPIDMessaging`, (5) `QPIDSender` and
`TestCM`, (6) their invariants and refinements as theorems,
(7) the theorems about `TaskPool` and `MessageDelivery`, the proofs that
`PGClient` and `TestCM` use them as specified, and what follows there.

Next: a bounded measure for the liveness properties, as far as safety can state
one (a started stop or destructor has a bounded number of steps of its own
before it), and the waits of the test program (`StopItemReturns`, `ExitEnds`) as
an invariant in the manner of `SomebodyGoesOn`.

`Hang` apart, the end of a stop in `TestCM` is assumed from `qpid_live`; the
safety half, that the thread and its callback are gone when a stop returns, is
proved (`MessagingRefinesDelivery`). A store specification for `PGClient` is left
out: it would only say again what `StatusIsTrue` and `AnswersAreRecent` say.
