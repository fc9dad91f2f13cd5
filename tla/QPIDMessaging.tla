---------------------------- MODULE QPIDMessaging ---------------------------
(***************************************************************************)
(* src/QPIDMessaging.cpp with the parts of QPIDReceiver.cpp that its       *)
(* caller executes: receiveMessages (l. 39-59), receiveStop (l. 61-79) and *)
(* the destructor (l. 12-19).  The interface is used by one thread, as     *)
(* the test program does; activeReceivers has no lock.                     *)
(*                                                                         *)
(* mpc is the place of that thread:                                        *)
(*   idle      between two calls                                           *)
(*   connect   receiveMessages, l. 43-46                                   *)
(*   spawn     receiveMessages, l. 48-51                                   *)
(*   abort     receiveMessages, the handler, l. 54                         *)
(*   drop      the last reference to an unregistered receiver goes away    *)
(*   close     receiveStop, l. 67                                          *)
(*   join      receiveStop, l. 68-69, or ~QPIDReceiver, l. 17-18           *)
(*   dtor      ~QPIDMessaging, between two receivers                       *)
(*   dclose    the l. 67 of a receiver stopped by ~QPIDMessaging           *)
(*   djoin     its l. 68-69                                                *)
(*   gone      the QPIDMessaging object was destroyed                      *)
(***************************************************************************)
EXTENDS QPIDReceiver

VARIABLES registered,  \* the keys of activeReceivers
          mpc,         \* the place of the main thread
          target,      \* the exchange of the call it is in
          ret          \* what its last or present call returns

mainVars == <<registered, mpc, target, ret>>
vars == <<brokerVars, receiverVars, mainVars>>

TypeOK ==
    /\ BrokerTypeOK
    /\ ReceiverTypeOK
    /\ registered \in SUBSET Exchange
    /\ mpc \in {"idle", "connect", "spawn", "abort", "drop", "close", "join",
                "dtor", "dclose", "djoin", "gone"}
    /\ target \in Exchange \cup {NoExchange}
    /\ ret \in {"SUCCESS", "ERROR", "ALREADY", "INVALID_PARAM", "THROWS"}

Init == /\ BrokerInit
        /\ ReceiverInit
        /\ registered = {}
        /\ mpc = "idle"
        /\ target = NoExchange
        /\ ret = "SUCCESS"

At(from, to) == /\ ~terminated
                /\ mpc = from
                /\ mpc' = to

(* A receiver is destroyed, the handles of its connection go with it.  That*)
(* does not end a thread: only one that has exited is gone.                *)
Destroy(e) == /\ tpc' = [tpc EXCEPT ![e] = IF @ = "exited" THEN "none" ELSE @]
              /\ active' = [active EXCEPT ![e] = FALSE]
              /\ Disconnect(e)
              /\ UNCHANGED <<msg, mutex, handled, terminated>>

(* Faulty variant of Joinable: the thread is detached.                     *)
Detached(e) == TRUE

Joinable(e) == tpc[e] \in {"none", "exited"}
-----------------------------------------------------------------------------
(* qpidReceiveMessages, l. 29-46 *)

ReceiveWithoutCallback ==
    /\ At("idle", "idle")
    /\ ret' = "ERROR"
    /\ UNCHANGED <<registered, target, receiverVars, brokerVars>>

ReceiveMessages(e) ==
    /\ At("idle", IF e \in registered THEN "idle" ELSE "connect")
    /\ target' = IF e \in registered THEN NoExchange ELSE e
    /\ ret' = IF e \in registered THEN "ALREADY" ELSE "SUCCESS"
    /\ UNCHANGED <<registered, receiverVars, brokerVars>>

ConnectSucceeds == /\ At("connect", "spawn")
                   /\ Connect(target)
                   /\ UNCHANGED <<registered, target, ret, receiverVars>>

(* One of l. 43-46 throws; the connection may be open by then.             *)
ConnectFails == /\ At("connect", "abort")
                /\ ret' = "ERROR"
                /\ Connect(target) \/ UNCHANGED brokerVars
                /\ UNCHANGED <<registered, target, receiverVars>>

(* The thread runs, the receiver is registered (l. 40).                    *)
SpawnSucceeds == /\ At("spawn", "idle")
                 /\ active' = [active EXCEPT ![target] = TRUE]
                 /\ tpc' = [tpc EXCEPT ![target] = "check"]
                 /\ registered' = registered \cup {target}
                 /\ target' = NoExchange
                 /\ UNCHANGED <<ret, msg, mutex, handled, terminated, brokerVars>>

(* std::thread cannot be created, with mReceivingActive set already.       *)
SpawnFails == /\ At("spawn", "abort")
              /\ active' = [active EXCEPT ![target] = TRUE]
              /\ ret' = "ERROR"
              /\ UNCHANGED <<registered, target, tpc, msg, mutex, handled, terminated,
                             brokerVars>>

AbortClose == /\ At("abort", "drop")
              /\ Disconnect(target)
              /\ UNCHANGED <<registered, target, ret, receiverVars>>

(* The close in the handler throws: so does qpidReceiveMessages.           *)
AbortCloseThrows == /\ CloseMayThrow
                    /\ At("abort", "drop")
                    /\ ret' = "THROWS"
                    /\ MaybeDisconnect(target)
                    /\ UNCHANGED <<registered, target, receiverVars>>

(* ~QPIDReceiver of a receiver that was never registered.                  *)
DropReceiver == /\ At("drop", "idle")
                /\ Destroy(target)
                /\ target' = NoExchange
                /\ UNCHANGED <<registered, ret>>

(* With mReceivingActive set it closes again; a destructor must not throw. *)
DropThrows == /\ CloseMayThrow
              /\ At("drop", "drop")
              /\ active[target]
              /\ terminated' = TRUE
              /\ UNCHANGED <<registered, target, ret, active, tpc, msg, mutex, handled,
                             brokerVars>>
-----------------------------------------------------------------------------
(* qpidReceiveStop, l. 48-60 *)

(* Without a receiver the call returns; with one that was not active it    *)
(* would go on to the join of l. 56.                                       *)
ReceiveStop(e) ==
    /\ At("idle", IF e \notin registered THEN "idle"
                  ELSE IF active[e] THEN "close" ELSE "join")
    /\ target' = IF e \in registered THEN e ELSE NoExchange
    /\ ret' = IF e \in registered /\ active[e] THEN "SUCCESS" ELSE "INVALID_PARAM"
    /\ active' = [active EXCEPT ![e] = FALSE]
    /\ UNCHANGED <<registered, tpc, msg, mutex, handled, terminated, brokerVars>>

(* Faulty variant of StopClose: only the flag asks the thread to end.      *)
StopKeepsOpen == /\ At("close", "join")
                 /\ UNCHANGED <<registered, target, ret, receiverVars, brokerVars>>

StopClose == /\ At("close", "join")
             /\ Disconnect(target)
             /\ UNCHANGED <<registered, target, ret, receiverVars>>

(* receiveStop skips its join, the erase of l. 56 comes to the join of     *)
(* ~QPIDReceiver instead.                                                  *)
StopCloseThrows == /\ CloseMayThrow
                   /\ At("close", "join")
                   /\ ret' = "ERROR"
                   /\ MaybeDisconnect(target)
                   /\ UNCHANGED <<registered, target, receiverVars>>

(* The join returns and the receiver is erased.                            *)
StopReturn == /\ At("join", "idle")
              /\ Joinable(target)
              /\ Destroy(target)
              /\ registered' = registered \ {target}
              /\ target' = NoExchange
              /\ UNCHANGED ret
-----------------------------------------------------------------------------
(* ~QPIDMessaging, l. 10-15 *)

DtorBegin == /\ At("idle", "dtor")
             /\ UNCHANGED <<registered, target, ret, receiverVars, brokerVars>>

(* receiveStop of the next receiver; one that was stopped is passed over.  *)
DtorStop(e) == /\ At("dtor", "dclose")
               /\ e \in registered
               /\ active[e]
               /\ target' = e
               /\ active' = [active EXCEPT ![e] = FALSE]
               /\ UNCHANGED <<registered, ret, tpc, msg, mutex, handled, terminated,
                              brokerVars>>

(* Faulty variant of DtorClose: only the flag asks the thread to end.      *)
DtorKeepsOpen == /\ At("dclose", "djoin")
                 /\ UNCHANGED <<registered, target, ret, receiverVars, brokerVars>>

DtorClose == /\ At("dclose", "djoin")
             /\ Disconnect(target)
             /\ UNCHANGED <<registered, target, ret, receiverVars>>

(* receiveStop returns without the join.                                   *)
DtorCloseThrows == /\ CloseMayThrow
                   /\ At("dclose", "dtor")
                   /\ MaybeDisconnect(target)
                   /\ target' = NoExchange
                   /\ UNCHANGED <<registered, ret, receiverVars>>

DtorJoin == /\ At("djoin", "dtor")
            /\ Joinable(target)
            /\ target' = NoExchange
            /\ UNCHANGED <<registered, ret, receiverVars, brokerVars>>

(* activeReceivers.clear() runs the destructor of each receiver.           *)
DtorClear(e) == /\ At("dtor", "dtor")
                /\ \A x \in registered : ~active[x]
                /\ e \in registered
                /\ Joinable(e)
                /\ Destroy(e)
                /\ registered' = registered \ {e}
                /\ UNCHANGED <<target, ret>>

DtorDone == /\ At("dtor", "gone")
            /\ registered = {}
            /\ UNCHANGED <<registered, target, ret, receiverVars, brokerVars>>
-----------------------------------------------------------------------------
(* The calls a user makes, and the steps the main thread then takes.       *)
Call == \/ ReceiveWithoutCallback
        \/ DtorBegin
        \/ \E e \in Exchange : ReceiveMessages(e) \/ ReceiveStop(e)

MainStep == \/ ConnectSucceeds \/ SpawnSucceeds \/ AbortClose \/ DropReceiver
            \/ StopClose \/ StopReturn
            \/ DtorClose \/ DtorJoin \/ DtorDone
            \/ \E e \in Exchange : DtorStop(e) \/ DtorClear(e)

MainFailure == \/ ConnectFails \/ SpawnFails
               \/ AbortCloseThrows \/ DropThrows
               \/ StopCloseThrows \/ DtorCloseThrows

Next == \/ MainStep
        \/ MainFailure
        \/ Call
        \/ \E e \in Exchange : ThreadStep(e) /\ UNCHANGED mainVars
        \/ \E e \in Exchange : ThreadFailure(e) /\ UNCHANGED mainVars
        \/ \E e \in Exchange : Environment(e) /\ UNCHANGED mainVars

Spec == Init /\ [][Next]_vars

(* Every thread that can run does, and callbacks return.  std::mutex is not*)
(* fair: a thread may wait for it as long as others take it.  Nobody has to*)
(* call anything, and no failure has to happen.                            *)
Fairness == /\ WF_vars(MainStep)
            /\ \A e \in Exchange : WF_vars(ThreadStep(e) /\ UNCHANGED mainVars)

FairSpec == Spec /\ Fairness
-----------------------------------------------------------------------------
(* Safety *)

(* No message of a queue is lost, whatever fails and whenever a receiver   *)
(* is stopped: it waits, is in hand, or was acknowledged, and only what a  *)
(* callback has returned from is ever acknowledged                         *)
(* (QPIDReceiver.cpp:24-29).                                               *)
NoMessageLost ==
    \A e \in Exchange :
        /\ acked[e] \subseteq handled[e]
        /\ e \notin Topic => published[e] = queue[e] \cup unacked[e] \cup acked[e]

(* The acknowledgement covers the whole session, yet exactly the message   *)
(* that the thread has in hand: no other is fetched before it              *)
(* (QPIDReceiver.cpp:24-29).                                               *)
AckCoversMessageInHand ==
    \A e \in Exchange :
        /\ tpc[e] \in {"lock", "callback", "ack"} /\ conn[e] = "open" => unacked[e] = {msg[e]}
        /\ tpc[e] \in {"check", "fetch"} => unacked[e] = {}

(* A thread runs on its receiver's members only while the receiver exists: *)
(* when qpidReceiveStop or the destructor has returned, or a start has     *)
(* failed, no thread of that receiver is left (QPIDReceiver.cpp:17, 68).   *)
NoThreadOutlivesReceiver ==
    \A e \in Exchange : tpc[e] # "none" <=> e \in registered

(* The receivers of all exchanges run one callback at a time, and one whose*)
(* callback threw keeps all others out (QPIDReceiver.cpp:25-28).           *)
CallbacksExclude ==
    \A e \in Exchange : tpc[e] = "callback" => /\ mutex = e
                                               /\ \A f \in Exchange \ {e} : tpc[f] # "callback"

(* Between two calls each registered receiver has mReceivingActive set, so *)
(* the stop of a registered receiver never is an invalid parameter         *)
(* (QPIDMessaging.cpp:40, 55; QPIDReceiver.cpp:65-72).                     *)
RegisteredIsActive ==
    mpc = "idle" => \A e \in Exchange : active[e] <=> e \in registered

(* A join waits for a thread that can go on: one that was told to stop     *)
(* finds its connection closed when it fetches, also if it had read the    *)
(* flag before, and waits for mMutex only while a callback runs; unless a  *)
(* close or a callback has thrown (QPIDReceiver.cpp:23-28, 66-69).         *)
JoinedThreadGoesOn ==
    \A e \in registered :
        ~active[e] /\ ~(mpc \in {"close", "dclose"} /\ target = e) =>
            /\ tpc[e] = "fetch" => conn[e] = "closed" \/ CloseMayThrow
            /\ tpc[e] = "lock" => mutex = NoExchange \/ tpc[mutex] = "callback" \/ CallbackMayThrow
-----------------------------------------------------------------------------
(* Liveness *)

(* qpidReceiveStop returns: the close wakes the thread that waits in fetch,*)
(* and one that waits for mMutex is overtaken only as often as there are   *)
(* messages for others, which are finitely many (QPIDReceiver.cpp:66-69).  *)
StopReturns == (mpc \in {"close", "join"}) ~> (mpc = "idle" \/ terminated)

(* The destructor of QPIDMessaging returns (QPIDMessaging.cpp:10-15).      *)
DestructorReturns == (mpc = "dtor") ~> (mpc = "gone")

(* A receiver that stays connected catches up with its exchange: every     *)
(* waiting message is fetched, handled and acknowledged.  Only mMutex can  *)
(* hold it up for ever, and that only as long as the callbacks of others   *)
(* go on and on: std::mutex gives no thread its turn                       *)
(* (QPIDReceiver.cpp:23-30).                                               *)
Overtaken(e) == /\ <>[](tpc[e] = "lock")
                /\ []<>(\E f \in Exchange \ {e} : tpc[f] = "ack")

BacklogIsWorkedOff ==
    \A e \in Exchange :
        \/ Overtaken(e)
        \/ (active[e] /\ conn[e] = "open")
              ~> (queue[e] \cup unacked[e] = {} \/ ~active[e] \/ conn[e] = "closed")
-----------------------------------------------------------------------------
(* What a program that receives messages may rely on *)

(* The callback in progress, as its holding of mMutex shows it.            *)
InCallback == mutex # NoExchange /\ tpc[mutex] = "callback"

Promise == INSTANCE MessageDelivery
           WITH listening <- registered,
                call <- IF InCallback THEN <<mutex, msg[mutex]>> ELSE <<>>,
                jammed <- mutex # NoExchange /\ ~InCallback

(* Connections that break, threads, stops and the destructor never show in *)
(* what callbacks see: one at a time, only for an exchange that is         *)
(* registered, never for a message that was acknowledged before, and none  *)
(* after one that threw (QPIDReceiver.cpp:21-36, 61-79).                   *)
ImplementsMessageDelivery == Promise!Spec
-----------------------------------------------------------------------------
(* Claims of the interface that the code does not keep *)

(* QPIDMessaging.h:61: QPID_ALREADY means that a receiver for the exchange *)
(* is running.                                                             *)
AlreadyMeansRunning ==
    [][\A e \in Exchange :
          ReceiveMessages(e) /\ ret' = "ALREADY" => tpc[e] # "exited"]_vars
=============================================================================
