---------------------------- MODULE QPIDReceiver ----------------------------
(***************************************************************************)
(* qpid-receiver/src/QPIDReceiver.cpp: the thread that each receiver runs  *)
(* (waitForMessages, l. 21-36), one receiver per exchange.  What the main  *)
(* thread does with a receiver is in QPIDMessaging, which extends this     *)
(* module.                                                                 *)
(*                                                                         *)
(* tpc[e] is the place of the thread of the receiver on exchange e:        *)
(*   none      there is no thread                                          *)
(*   check     about to read mReceivingActive        (l. 23)               *)
(*   fetch     in receiverFetch                      (l. 24)               *)
(*   lock      waiting for the static mMutex         (l. 25)               *)
(*   callback  in mReceiveCallback, holding mMutex   (l. 27)               *)
(*   ack       about to acknowledge                  (l. 29)               *)
(*   catch     in the handler                        (l. 33)               *)
(*   close     about to close, after the test        (l. 34)               *)
(*   exited    the function returned, not joined yet                       *)
(***************************************************************************)
EXTENDS QPIDBroker

CONSTANTS NoMsg,             \* no message in hand
          NoExchange,        \* owner of the free mutex
          CallbackMayThrow,  \* whether mReceiveCallback may throw
          CloseMayThrow      \* whether closeConnection may throw

ASSUME ReceiverAssumption == /\ NoMsg \notin Msg
                             /\ NoExchange \notin Exchange
                             /\ CallbackMayThrow \in BOOLEAN
                             /\ CloseMayThrow \in BOOLEAN

VARIABLES active,      \* mReceivingActive of the receiver on e
          tpc,         \* the place of its thread
          msg,         \* the message in the thread's hand
          mutex,       \* who holds the static mMutex
          handled,     \* history: the messages whose callback returned
          terminated   \* std::terminate was called

receiverVars == <<active, tpc, msg, mutex, handled, terminated>>

ReceiverTypeOK ==
    /\ active \in [Exchange -> BOOLEAN]
    /\ tpc \in [Exchange -> {"none", "check", "fetch", "lock", "callback", "ack",
                             "catch", "close", "exited"}]
    /\ msg \in [Exchange -> Msg \cup {NoMsg}]
    /\ mutex \in Exchange \cup {NoExchange}
    /\ handled \in [Exchange -> SUBSET Msg]
    /\ terminated \in BOOLEAN

ReceiverInit == /\ active = [e \in Exchange |-> FALSE]
                /\ tpc = [e \in Exchange |-> "none"]
                /\ msg = [e \in Exchange |-> NoMsg]
                /\ mutex = NoExchange
                /\ handled = [e \in Exchange |-> {}]
                /\ terminated = FALSE

(* The thread of e is at "from" and goes on to "to".                       *)
Goto(e, from, to) == /\ ~terminated
                     /\ tpc[e] = from
                     /\ tpc' = [tpc EXCEPT ![e] = to]
-----------------------------------------------------------------------------
(* The loop, l. 23-30 *)

(* The flag is a plain bool that the main thread clears without a lock:    *)
(* the read returns its value or, for a while, the one it had before.      *)
LoopCheck(e) == /\ \E seen \in {active[e], TRUE} :
                       Goto(e, "check", IF seen THEN "fetch" ELSE "exited")
                /\ UNCHANGED <<active, msg, mutex, handled, terminated, brokerVars>>

(* Faulty variant of Fetch: the message is accepted as it is fetched.      *)
FetchAccepts(e, m) == /\ Goto(e, "fetch", "lock")
                      /\ conn[e] = "open"
                      /\ m \in queue[e]
                      /\ queue' = [queue EXCEPT ![e] = @ \ {m}]
                      /\ acked' = [acked EXCEPT ![e] = @ \cup {m}]
                      /\ msg' = [msg EXCEPT ![e] = m]
                      /\ UNCHANGED <<conn, unacked, published, active, mutex, handled,
                                     terminated>>

(* Faulty variant of Fetch: the fetched message is not kept.               *)
FetchForgets(e, m) == /\ Goto(e, "fetch", "lock")
                      /\ Deliver(e, m)
                      /\ UNCHANGED <<active, msg, mutex, handled, terminated>>

Fetch(e, m) == /\ Goto(e, "fetch", "lock")
               /\ Deliver(e, m)
               /\ msg' = [msg EXCEPT ![e] = m]
               /\ UNCHANGED <<active, mutex, handled, terminated>>

(* fetch on an ended connection throws, at once or out of its wait.        *)
FetchThrows(e) == /\ Goto(e, "fetch", "catch")
                  /\ conn[e] = "closed"
                  /\ UNCHANGED <<active, msg, mutex, handled, terminated, brokerVars>>

(* The session or the link of the receiver fails; the connection is open.  *)
FetchFails(e) == /\ Goto(e, "fetch", "catch")
                 /\ conn[e] = "open"
                 /\ UNCHANGED <<active, msg, mutex, handled, terminated, brokerVars>>

(* Faulty variant of LockMutex: a mutex per receiver, not a static one.    *)
LockOwnMutex(e) == /\ Goto(e, "lock", "callback")
                   /\ mutex' = e
                   /\ UNCHANGED <<active, msg, handled, terminated, brokerVars>>

LockMutex(e) == /\ Goto(e, "lock", "callback")
                /\ mutex = NoExchange
                /\ mutex' = e
                /\ UNCHANGED <<active, msg, handled, terminated, brokerVars>>

(* Faulty variant of CallbackReturns: the mutex is not released.           *)
CallbackKeepsMutex(e) == /\ Goto(e, "callback", "ack")
                         /\ handled' = [handled EXCEPT ![e] = @ \cup {msg[e]}]
                         /\ UNCHANGED <<active, msg, mutex, terminated, brokerVars>>

(* The callback returns and the mutex is released (l. 27-28).              *)
CallbackReturns(e) == /\ Goto(e, "callback", "ack")
                      /\ handled' = [handled EXCEPT ![e] = @ \cup {msg[e]}]
                      /\ mutex' = NoExchange
                      /\ UNCHANGED <<active, msg, terminated, brokerVars>>

(* The callback throws: l. 28 is skipped and nobody unlocks the mutex.     *)
CallbackThrows(e) == /\ CallbackMayThrow
                     /\ Goto(e, "callback", "catch")
                     /\ UNCHANGED <<active, msg, mutex, handled, terminated, brokerVars>>

(* Faulty variant of Acknowledge: the acknowledgement is left for later.   *)
AcknowledgeLater(e) == /\ Goto(e, "ack", "check")
                       /\ conn[e] = "open"
                       /\ msg' = [msg EXCEPT ![e] = NoMsg]
                       /\ UNCHANGED <<active, mutex, handled, terminated, brokerVars>>

Acknowledge(e) == /\ Goto(e, "ack", "check")
                  /\ AckSession(e)
                  /\ msg' = [msg EXCEPT ![e] = NoMsg]
                  /\ UNCHANGED <<active, mutex, handled, terminated>>

AckThrows(e) == /\ Goto(e, "ack", "catch")
                /\ conn[e] = "closed"
                /\ UNCHANGED <<active, msg, mutex, handled, terminated, brokerVars>>

(* The session fails; the connection is open and keeps what is in hand.    *)
AckFails(e) == /\ Goto(e, "ack", "catch")
               /\ conn[e] = "open"
               /\ UNCHANGED <<active, msg, mutex, handled, terminated, brokerVars>>
-----------------------------------------------------------------------------
(* The handler, l. 31-35 *)

(* Faulty variant of CatchCheck: the thread clears mReceivingActive.       *)
CatchClearsActive(e) ==
    /\ Goto(e, "catch", IF conn[e] = "open" THEN "close" ELSE "exited")
    /\ msg' = [msg EXCEPT ![e] = NoMsg]
    /\ active' = [active EXCEPT ![e] = FALSE]
    /\ UNCHANGED <<mutex, handled, terminated, brokerVars>>

CatchCheck(e) == /\ Goto(e, "catch", IF conn[e] = "open" THEN "close" ELSE "exited")
                 /\ msg' = [msg EXCEPT ![e] = NoMsg]
                 /\ UNCHANGED <<active, mutex, handled, terminated, brokerVars>>

CatchClose(e) == /\ Goto(e, "close", "exited")
                 /\ Disconnect(e)
                 /\ UNCHANGED <<active, msg, mutex, handled, terminated>>

(* Nothing catches what the handler throws: the thread's function ends     *)
(* with an exception.                                                      *)
CatchCloseThrows(e) == /\ CloseMayThrow
                       /\ Goto(e, "close", "exited")
                       /\ terminated' = TRUE
                       /\ UNCHANGED <<active, msg, mutex, handled, brokerVars>>
-----------------------------------------------------------------------------
(* The world around: messages arrive, connections break.                   *)

Arrive(e, m) == /\ ~terminated
                /\ Publish(e, m)
                /\ UNCHANGED receiverVars

LoseConnection(e) == /\ ~terminated
                     /\ conn[e] = "open"
                     /\ Disconnect(e)
                     /\ UNCHANGED receiverVars
-----------------------------------------------------------------------------
(* What the thread does by itself, without a failure that needs not come.  *)
ThreadStep(e) == \/ LoopCheck(e)
                 \/ \E m \in Msg : Fetch(e, m)
                 \/ FetchThrows(e)
                 \/ LockMutex(e)
                 \/ CallbackReturns(e)
                 \/ Acknowledge(e)
                 \/ AckThrows(e)
                 \/ CatchCheck(e)
                 \/ CatchClose(e)

ThreadFailure(e) == \/ FetchFails(e) \/ AckFails(e)
                    \/ CallbackThrows(e) \/ CatchCloseThrows(e)

Environment(e) == LoseConnection(e) \/ \E m \in Msg : Arrive(e, m)
=============================================================================
