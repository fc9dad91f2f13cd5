------------------------- MODULE QPIDMessagingProofs ------------------------
(***************************************************************************)
(* Proofs about QPIDMessaging for every set of exchanges and messages, and *)
(* whichever of the failures may happen.                                   *)
(***************************************************************************)
EXTENDS QPIDMessaging, TLAPS

(* Where the main thread is says which exchange it works on, whether that  *)
(* one is registered, and which receivers have mReceivingActive set.       *)
Starting == mpc \in {"connect", "spawn", "abort", "drop"}
Stopping == mpc \in {"close", "join", "dclose", "djoin"}

Control ==
    /\ Starting => target \in Exchange \ registered
    /\ Stopping => target \in registered /\ ~active[target]
    /\ mpc \in {"idle", "connect", "spawn"} =>
          \A e \in Exchange : active[e] <=> e \in registered
    /\ mpc \in {"abort", "drop", "close", "join"} =>
          \A e \in Exchange \ {target} : active[e] <=> e \in registered

(* A thread that is past fetch has a message in hand.                      *)
Holding == \A e \in Exchange : tpc[e] \in {"lock", "callback", "ack"} => msg[e] \in Msg

(* The types hold as long as the main thread knows its exchange.           *)
LEMMA TypeStep ==
  TypeOK /\ Control /\ Holding /\ NoThreadOutlivesReceiver /\ [Next]_vars
     => TypeOK' /\ Control' /\ Holding'
<1> SUFFICES ASSUME TypeOK, Control, Holding, NoThreadOutlivesReceiver, [Next]_vars
             PROVE  TypeOK' /\ Control' /\ Holding'
  OBVIOUS
<1> USE ReceiverAssumption
    DEF TypeOK, BrokerTypeOK, ReceiverTypeOK, Control, Starting, Stopping, Holding,
        NoThreadOutlivesReceiver, brokerVars, receiverVars, mainVars
<1>1. ASSUME NEW e \in Exchange, LoopCheck(e), UNCHANGED mainVars
      PROVE  TypeOK' /\ Control' /\ Holding'
  BY <1>1 DEF LoopCheck, Goto
<1>2. ASSUME NEW e \in Exchange, FetchThrows(e), UNCHANGED mainVars
      PROVE  TypeOK' /\ Control' /\ Holding'
  BY <1>2 DEF FetchThrows, Goto
<1>3. ASSUME NEW e \in Exchange, FetchFails(e) \/ AckFails(e), UNCHANGED mainVars
      PROVE  TypeOK' /\ Control' /\ Holding'
  BY <1>3 DEF FetchFails, AckFails, Goto
<1>4. ASSUME NEW e \in Exchange, LockMutex(e), UNCHANGED mainVars
      PROVE  TypeOK' /\ Control' /\ Holding'
  BY <1>4 DEF LockMutex, Goto
<1>5. ASSUME NEW e \in Exchange, CallbackReturns(e), UNCHANGED mainVars
      PROVE  TypeOK' /\ Control' /\ Holding'
  BY <1>5 DEF CallbackReturns, Goto
<1>6. ASSUME NEW e \in Exchange, CallbackThrows(e), UNCHANGED mainVars
      PROVE  TypeOK' /\ Control' /\ Holding'
  BY <1>6 DEF CallbackThrows, Goto
<1>7. ASSUME NEW e \in Exchange, Acknowledge(e), UNCHANGED mainVars
      PROVE  TypeOK' /\ Control' /\ Holding'
  BY <1>7 DEF Acknowledge, Goto, AckSession
<1>8. ASSUME NEW e \in Exchange, AckThrows(e), UNCHANGED mainVars
      PROVE  TypeOK' /\ Control' /\ Holding'
  BY <1>8 DEF AckThrows, Goto
<1>9. ASSUME NEW e \in Exchange, CatchCheck(e), UNCHANGED mainVars
      PROVE  TypeOK' /\ Control' /\ Holding'
  BY <1>9 DEF CatchCheck, Goto
<1>10. ASSUME NEW e \in Exchange, CatchClose(e), UNCHANGED mainVars
      PROVE  TypeOK' /\ Control' /\ Holding'
  BY <1>10 DEF CatchClose, Goto, Disconnect
<1>11. ASSUME NEW e \in Exchange, CatchCloseThrows(e), UNCHANGED mainVars
      PROVE  TypeOK' /\ Control' /\ Holding'
  BY <1>11 DEF CatchCloseThrows, Goto
<1>12. ASSUME NEW e \in Exchange, NEW m \in Msg, Fetch(e, m), UNCHANGED mainVars
      PROVE  TypeOK' /\ Control' /\ Holding'
  BY <1>12 DEF Fetch, Deliver, Goto
<1>13. ASSUME NEW e \in Exchange, NEW m \in Msg, Arrive(e, m), UNCHANGED mainVars
      PROVE  TypeOK' /\ Control' /\ Holding'
  BY <1>13 DEF Arrive, Publish
<1>14. ASSUME NEW e \in Exchange, LoseConnection(e), UNCHANGED mainVars
      PROVE  TypeOK' /\ Control' /\ Holding'
  BY <1>14 DEF LoseConnection, Disconnect
<1>15. CASE ReceiveWithoutCallback
  BY <1>15 DEF ReceiveWithoutCallback, At
<1>16. CASE ConnectSucceeds
  BY <1>16 DEF ConnectSucceeds, At, Connect
<1>17. CASE ConnectFails
  BY <1>17 DEF ConnectFails, At, Connect
<1>18. CASE SpawnSucceeds
  BY <1>18 DEF SpawnSucceeds, At
<1>19. CASE SpawnFails
  BY <1>19 DEF SpawnFails, At
<1>20. CASE AbortClose
  BY <1>20 DEF AbortClose, At, Disconnect
<1>21. CASE AbortCloseThrows
  BY <1>21 DEF AbortCloseThrows, At, MaybeDisconnect, Disconnect
<1>22. CASE DropReceiver
  BY <1>22 DEF DropReceiver, At, Destroy, Disconnect
<1>23. CASE DropThrows
  BY <1>23 DEF DropThrows, At
<1>24. CASE StopClose
  BY <1>24 DEF StopClose, At, Disconnect
<1>25. CASE StopCloseThrows
  BY <1>25 DEF StopCloseThrows, At, MaybeDisconnect, Disconnect
<1>26. CASE StopReturn
  BY <1>26 DEF StopReturn, At, Joinable, Destroy, Disconnect
<1>27. CASE DtorBegin
  BY <1>27 DEF DtorBegin, At
<1>28. CASE DtorClose
  BY <1>28 DEF DtorClose, At, Disconnect
<1>29. CASE DtorCloseThrows
  BY <1>29 DEF DtorCloseThrows, At, MaybeDisconnect, Disconnect
<1>30. CASE DtorJoin
  BY <1>30 DEF DtorJoin, At, Joinable
<1>31. CASE DtorDone
  BY <1>31 DEF DtorDone, At
<1>32. ASSUME NEW e \in Exchange, ReceiveMessages(e)
      PROVE  TypeOK' /\ Control' /\ Holding'
  BY <1>32 DEF ReceiveMessages, At
<1>33. ASSUME NEW e \in Exchange, ReceiveStop(e)
      PROVE  TypeOK' /\ Control' /\ Holding'
  BY <1>33 DEF ReceiveStop, At
<1>34. ASSUME NEW e \in Exchange, DtorStop(e)
      PROVE  TypeOK' /\ Control' /\ Holding'
  BY <1>34 DEF DtorStop, At
<1>35. ASSUME NEW e \in Exchange, DtorClear(e)
      PROVE  TypeOK' /\ Control' /\ Holding'
  BY <1>35 DEF DtorClear, At, Joinable, Destroy, Disconnect
<1>36. CASE UNCHANGED vars
  BY <1>36 DEF vars
<1> QED
  BY <1>1, <1>2, <1>3, <1>4, <1>5, <1>6, <1>7, <1>8, <1>9, <1>10, <1>11, <1>12,
     <1>13, <1>14, <1>15, <1>16, <1>17, <1>18, <1>19, <1>20, <1>21, <1>22, <1>23, <1>24,
     <1>25, <1>26, <1>27, <1>28, <1>29, <1>30, <1>31, <1>32, <1>33, <1>34, <1>35, <1>36
  DEF Next, Call, MainStep, MainFailure, ThreadStep, ThreadFailure, Environment
-----------------------------------------------------------------------------
(* What the thread of e does leaves the other threads, the flags and the   *)
(* registration alone, and neither creates nor joins a thread.             *)
LEMMA ThreadFrame ==
  ASSUME TypeOK, NEW e \in Exchange, ThreadStep(e) \/ ThreadFailure(e)
  PROVE  /\ tpc[e] # "none" /\ tpc'[e] # "none"
         /\ \A f \in Exchange \ {e} : tpc'[f] = tpc[f]
<1> USE DEF TypeOK, ReceiverTypeOK, Goto
<1>1. CASE \/ LoopCheck(e) \/ FetchThrows(e) \/ FetchFails(e) \/ AckFails(e)
           \/ \E m \in Msg : Fetch(e, m)
  BY <1>1 DEF LoopCheck, FetchThrows, FetchFails, AckFails, Fetch
<1>2. CASE LockMutex(e) \/ CallbackReturns(e) \/ CallbackThrows(e)
  BY <1>2 DEF LockMutex, CallbackReturns, CallbackThrows
<1>3. CASE Acknowledge(e) \/ AckThrows(e)
  BY <1>3 DEF Acknowledge, AckThrows
<1>4. CASE CatchCheck(e) \/ CatchClose(e) \/ CatchCloseThrows(e)
  BY <1>4 DEF CatchCheck, CatchClose, CatchCloseThrows
<1> QED
  BY <1>1, <1>2, <1>3, <1>4 DEF ThreadStep, ThreadFailure

(* A thread is created with its registration, and the registration ends    *)
(* after a join.                                                           *)
LEMMA OutliveStep ==
  TypeOK /\ Control /\ NoThreadOutlivesReceiver /\ [Next]_vars
     => NoThreadOutlivesReceiver'
<1> SUFFICES ASSUME TypeOK, Control, NoThreadOutlivesReceiver, [Next]_vars
             PROVE  NoThreadOutlivesReceiver'
  OBVIOUS
<1> USE DEF TypeOK, ReceiverTypeOK, NoThreadOutlivesReceiver, Control, Starting, Stopping,
            mainVars, receiverVars
<1>1. ASSUME NEW e \in Exchange, ThreadStep(e) \/ ThreadFailure(e), UNCHANGED mainVars
      PROVE  NoThreadOutlivesReceiver'
  BY <1>1, ThreadFrame
<1>2. ASSUME NEW e \in Exchange, Environment(e), UNCHANGED mainVars
      PROVE  NoThreadOutlivesReceiver'
  BY <1>2 DEF Environment, Arrive, LoseConnection
<1>3. CASE SpawnSucceeds
  BY <1>3 DEF SpawnSucceeds, At
<1>4. CASE DropReceiver
  BY <1>4 DEF DropReceiver, At, Destroy
<1>5. CASE StopReturn
  BY <1>5 DEF StopReturn, At, Joinable, Destroy
<1>6. ASSUME NEW e \in Exchange, DtorClear(e) PROVE NoThreadOutlivesReceiver'
  BY <1>6 DEF DtorClear, At, Joinable, Destroy
<1>7. CASE ConnectSucceeds \/ ConnectFails \/ SpawnFails \/ AbortClose \/ AbortCloseThrows
           \/ DropThrows
  BY <1>7 DEF ConnectSucceeds, ConnectFails, SpawnFails, AbortClose, AbortCloseThrows, DropThrows
<1>8. CASE StopClose \/ StopCloseThrows \/ DtorBegin \/ DtorClose \/ DtorCloseThrows
           \/ DtorJoin \/ DtorDone \/ ReceiveWithoutCallback
  BY <1>8 DEF StopClose, StopCloseThrows, DtorBegin, DtorClose, DtorCloseThrows, DtorJoin,
              DtorDone, ReceiveWithoutCallback
<1>9. ASSUME NEW e \in Exchange, ReceiveMessages(e) \/ ReceiveStop(e) \/ DtorStop(e)
      PROVE  NoThreadOutlivesReceiver'
  BY <1>9 DEF ReceiveMessages, ReceiveStop, DtorStop
<1>10. CASE UNCHANGED vars
  BY <1>10 DEF vars
<1> QED
  BY <1>1, <1>2, <1>3, <1>4, <1>5, <1>6, <1>7, <1>8, <1>9, <1>10
  DEF Next, Call, MainStep, MainFailure

(* The types, the control state of the main thread, and that a thread      *)
(* exists exactly as long as its receiver is registered                    *)
(* (QPIDReceiver.cpp:12-19, 61-79; QPIDMessaging.cpp:29-60).               *)
THEOREM ThreadsAreJoined ==
  Spec => [](TypeOK /\ Control /\ Holding /\ NoThreadOutlivesReceiver)
<1>1. Init => TypeOK
  <2>1. Init => BrokerTypeOK
    BY DEF Init, BrokerInit, BrokerTypeOK
  <2>2. Init => tpc \in [Exchange -> {"none", "check", "fetch", "lock", "callback", "ack",
                                      "catch", "close", "exited"}]
    BY DEF Init, ReceiverInit
  <2>3. Init => ReceiverTypeOK
    BY <2>2 DEF Init, ReceiverInit, ReceiverTypeOK
  <2> QED
    BY <2>1, <2>3 DEF Init, TypeOK
<1>2. Init => Control /\ Holding /\ NoThreadOutlivesReceiver
  BY DEF Init, ReceiverInit, Control, Starting, Stopping, Holding, NoThreadOutlivesReceiver
<1> QED
  BY <1>1, <1>2, TypeStep, OutliveStep, PTL DEF Spec

(* The state of the receivers and of their callers is well typed           *)
(* (QPIDReceiver.h, QPIDMessaging.h).                                      *)
THEOREM TypeCorrect == Spec => []TypeOK
BY ThreadsAreJoined, PTL

(* The stop of a registered receiver is never an invalid parameter         *)
(* (QPIDReceiver.cpp:65-72).                                               *)
THEOREM StopFindsActive == Spec => []RegisteredIsActive
<1>1. Control => RegisteredIsActive
  BY DEF Control, RegisteredIsActive
<1> QED
  BY <1>1, ThreadsAreJoined, PTL
-----------------------------------------------------------------------------
(* One callback at a time: the thread in its callback owns mMutex.         *)
THEOREM OneCallback == Spec => []CallbacksExclude
<1>1. Init => CallbacksExclude
  BY DEF Init, ReceiverInit, CallbacksExclude
<1>2. TypeOK /\ CallbacksExclude /\ [Next]_vars => CallbacksExclude'
  <2> SUFFICES ASSUME TypeOK, CallbacksExclude, [Next]_vars PROVE CallbacksExclude'
    OBVIOUS
  <2> USE ReceiverAssumption
      DEF TypeOK, ReceiverTypeOK, CallbacksExclude, receiverVars
  <2>1. ASSUME NEW e \in Exchange,
               \/ LoopCheck(e) \/ FetchThrows(e) \/ FetchFails(e) \/ AckFails(e)
               \/ \E m \in Msg : Fetch(e, m)
        PROVE  CallbacksExclude'
    BY <2>1 DEF Goto, LoopCheck, FetchThrows, FetchFails, AckFails, Fetch
  <2>2. ASSUME NEW e \in Exchange, LockMutex(e) PROVE CallbacksExclude'
    BY <2>2 DEF Goto, LockMutex
  <2>3. ASSUME NEW e \in Exchange, CallbackReturns(e) \/ CallbackThrows(e)
        PROVE  CallbacksExclude'
    BY <2>3 DEF Goto, CallbackReturns, CallbackThrows
  <2>4. ASSUME NEW e \in Exchange, Acknowledge(e) \/ AckThrows(e) PROVE CallbacksExclude'
    BY <2>4 DEF Goto, Acknowledge, AckThrows
  <2>5. ASSUME NEW e \in Exchange, CatchCheck(e) \/ CatchClose(e) \/ CatchCloseThrows(e)
        PROVE  CallbacksExclude'
    BY <2>5 DEF Goto, CatchCheck, CatchClose, CatchCloseThrows
  <2>6. ASSUME NEW e \in Exchange, Environment(e) PROVE CallbacksExclude'
    BY <2>6 DEF Environment, Arrive, LoseConnection
  <2>7. CASE \/ ConnectSucceeds \/ ConnectFails \/ SpawnFails \/ AbortClose
             \/ AbortCloseThrows \/ DropThrows \/ ReceiveWithoutCallback
    BY <2>7 DEF ConnectSucceeds, ConnectFails, SpawnFails, AbortClose, AbortCloseThrows,
                DropThrows, ReceiveWithoutCallback
  <2>8. CASE \/ StopClose \/ StopCloseThrows \/ DtorBegin \/ DtorClose
             \/ DtorCloseThrows \/ DtorJoin \/ DtorDone
    BY <2>8 DEF StopClose, StopCloseThrows, DtorBegin, DtorClose, DtorCloseThrows, DtorJoin,
                DtorDone
  <2>9. ASSUME NEW e \in Exchange, ReceiveMessages(e) \/ ReceiveStop(e) \/ DtorStop(e)
        PROVE  CallbacksExclude'
    BY <2>9 DEF ReceiveMessages, ReceiveStop, DtorStop
  <2>10. CASE SpawnSucceeds
    BY <2>10 DEF SpawnSucceeds
  <2>11. CASE DropReceiver \/ StopReturn \/ \E e \in Exchange : DtorClear(e)
    BY <2>11 DEF DropReceiver, StopReturn, DtorClear, Destroy
  <2>12. CASE UNCHANGED vars
    BY <2>12 DEF vars
  <2> QED
    BY <2>1, <2>2, <2>3, <2>4, <2>5, <2>6, <2>7, <2>8, <2>9, <2>10, <2>11, <2>12
    DEF Next, Call, MainStep, MainFailure, ThreadStep, ThreadFailure
<1> QED
  BY <1>1, <1>2, ThreadsAreJoined, PTL DEF Spec
-----------------------------------------------------------------------------
(* No message is lost: what the broker has handed out is what the thread   *)
(* has in hand, and that is handled before it is acknowledged.             *)
Delivery ==
    /\ \A e \in Exchange : tpc[e] = "ack" => msg[e] \in handled[e]
    /\ \A e \in Exchange : tpc[e] = "none" => unacked[e] = {}
    /\ AckCoversMessageInHand
    /\ NoMessageLost

(* The end of a connection loses nothing of a queue and leaves nothing     *)
(* handed out.                                                             *)
LEMMA DisconnectKeeps ==
  ASSUME TypeOK, Delivery, NEW e \in Exchange, MaybeDisconnect(e),
         UNCHANGED <<msg, handled>>,
         \A f \in Exchange : \/ tpc'[f] = tpc[f]
                             \/ tpc[f] = "exited" /\ tpc'[f] = "none" /\ Disconnect(e) /\ f = e
                             \/ tpc'[f] = "exited"
  PROVE  Delivery'
<1> USE DEF TypeOK, BrokerTypeOK, ReceiverTypeOK, Delivery, AckCoversMessageInHand, NoMessageLost
<1>1. CASE Disconnect(e)
  BY <1>1 DEF Disconnect
<1>2. CASE UNCHANGED brokerVars /\ ~Disconnect(e)
  BY <1>2 DEF brokerVars
<1> QED
  BY <1>1, <1>2 DEF MaybeDisconnect

(* No step loses a message or acknowledges one too many.                   *)
LEMMA DeliveryStep ==
  TypeOK /\ Control /\ Holding /\ NoThreadOutlivesReceiver /\ Delivery /\ [Next]_vars
     => Delivery'
<1> SUFFICES ASSUME TypeOK, Control, Holding, NoThreadOutlivesReceiver, Delivery, [Next]_vars
             PROVE  Delivery'
  OBVIOUS
<1> USE DEF TypeOK, BrokerTypeOK, ReceiverTypeOK, Delivery, AckCoversMessageInHand,
            NoMessageLost, brokerVars, receiverVars
<1>1. ASSUME NEW e \in Exchange, LoopCheck(e) PROVE Delivery'
  BY <1>1 DEF LoopCheck, Goto
<1>2. ASSUME NEW e \in Exchange, NEW m \in Msg, Fetch(e, m) PROVE Delivery'
  BY <1>2 DEF Fetch, Goto, Deliver
<1>3. ASSUME NEW e \in Exchange,
             \/ FetchThrows(e) \/ FetchFails(e) \/ AckFails(e) \/ CallbackThrows(e) \/ AckThrows(e)
             \/ CatchCheck(e) \/ CatchCloseThrows(e)
      PROVE  Delivery'
  BY <1>3 DEF Goto, FetchThrows, FetchFails, AckFails, CallbackThrows, AckThrows, CatchCheck,
              CatchCloseThrows
<1>4. ASSUME NEW e \in Exchange, LockMutex(e) PROVE Delivery'
  BY <1>4 DEF LockMutex, Goto
<1>5. ASSUME NEW e \in Exchange, CallbackReturns(e) PROVE Delivery'
  BY <1>5 DEF CallbackReturns, Goto
<1>6. ASSUME NEW e \in Exchange, Acknowledge(e) PROVE Delivery'
  BY <1>6 DEF Acknowledge, Goto, AckSession
<1>7. ASSUME NEW e \in Exchange, CatchClose(e) PROVE Delivery'
  BY <1>7, DisconnectKeeps DEF CatchClose, Goto, MaybeDisconnect
<1>8. ASSUME NEW e \in Exchange, LoseConnection(e) PROVE Delivery'
  BY <1>8, DisconnectKeeps DEF LoseConnection, MaybeDisconnect
<1>9. ASSUME NEW e \in Exchange, NEW m \in Msg, Arrive(e, m) PROVE Delivery'
  BY <1>9 DEF Arrive, Publish
<1>10. CASE ConnectSucceeds \/ ConnectFails
  <2>1. target \in Exchange /\ tpc[target] = "none"
    BY <1>10 DEF ConnectSucceeds, ConnectFails, At, Control, Starting, NoThreadOutlivesReceiver
  <2> QED
    BY <1>10, <2>1 DEF ConnectSucceeds, ConnectFails, Connect
<1>11. CASE SpawnSucceeds
  <2>1. target \in Exchange /\ tpc[target] = "none"
    BY <1>11 DEF SpawnSucceeds, At, Control, Starting, NoThreadOutlivesReceiver
  <2> QED
    BY <1>11, <2>1 DEF SpawnSucceeds
<1>12. CASE AbortClose \/ AbortCloseThrows
  <2>1. target \in Exchange
    BY <1>12 DEF AbortClose, AbortCloseThrows, At, Control, Starting
  <2> QED
    BY <1>12, <2>1, DisconnectKeeps DEF AbortClose, AbortCloseThrows, MaybeDisconnect
<1>13. CASE StopClose \/ StopCloseThrows \/ DtorClose \/ DtorCloseThrows
  <2>1. target \in Exchange
    BY <1>13 DEF StopClose, StopCloseThrows, DtorClose, DtorCloseThrows, At, Control, Stopping
  <2> QED
    BY <1>13, <2>1, DisconnectKeeps
    DEF StopClose, StopCloseThrows, DtorClose, DtorCloseThrows, MaybeDisconnect
<1>14. CASE DropReceiver \/ StopReturn
  <2>1. target \in Exchange /\ Destroy(target)
    BY <1>14 DEF DropReceiver, StopReturn, At, Control, Starting, Stopping
  <2> QED
    BY <2>1, DisconnectKeeps DEF Destroy, MaybeDisconnect
<1>15. ASSUME NEW e \in Exchange, DtorClear(e) PROVE Delivery'
  BY <1>15, DisconnectKeeps DEF DtorClear, Destroy, MaybeDisconnect
<1>16. ASSUME NEW e \in Exchange, ReceiveMessages(e) \/ ReceiveStop(e) \/ DtorStop(e)
       PROVE  Delivery'
  BY <1>16 DEF ReceiveMessages, ReceiveStop, DtorStop
<1>17. CASE \/ ReceiveWithoutCallback \/ SpawnFails \/ DropThrows \/ DtorBegin
            \/ DtorJoin \/ DtorDone
  BY <1>17 DEF ReceiveWithoutCallback, SpawnFails, DropThrows, DtorBegin, DtorJoin, DtorDone
<1>18. CASE UNCHANGED vars
  BY <1>18 DEF vars
<1> QED
  BY <1>1, <1>2, <1>3, <1>4, <1>5, <1>6, <1>7, <1>8, <1>9, <1>10, <1>11, <1>12, <1>13,
     <1>14, <1>15, <1>16, <1>17, <1>18
  DEF Next, Call, MainStep, MainFailure, ThreadStep, ThreadFailure, Environment

(* The hand-over between broker, thread and callback is kept by every step *)
(* (QPIDReceiver.cpp:21-36).                                               *)
THEOREM DeliveryHolds == Spec => []Delivery
<1>1. Init => Delivery
  BY DEF Init, BrokerInit, ReceiverInit, Delivery, AckCoversMessageInHand, NoMessageLost
<1> QED
  BY <1>1, ThreadsAreJoined, DeliveryStep, PTL DEF Spec

(* No message of a queue is lost, and what is acknowledged was handled     *)
(* (QPIDReceiver.cpp:24-29).                                               *)
THEOREM AtLeastOnce == Spec => []NoMessageLost
<1>1. Delivery => NoMessageLost
  BY DEF Delivery
<1> QED
  BY <1>1, DeliveryHolds, PTL

(* An acknowledgement covers the message in hand and no other              *)
(* (QPIDReceiver.cpp:24-29).                                               *)
THEOREM AckIsExact == Spec => []AckCoversMessageInHand
<1>1. Delivery => AckCoversMessageInHand
  BY DEF Delivery
<1> QED
  BY <1>1, DeliveryHolds, PTL
-----------------------------------------------------------------------------
(* What the broker may still hand out, and what a thread has in hand, was  *)
(* published and never acknowledged.                                       *)
Outstanding ==
    \A e \in Exchange :
        /\ acked[e] \subseteq published[e]
        /\ queue[e] \cup unacked[e] \subseteq published[e] \ acked[e]
        /\ queue[e] \cap unacked[e] = {}
        /\ tpc[e] \in {"lock", "callback", "ack"} => msg[e] \in published[e] \ acked[e]

(* A connection that ends gives back what was handed out on it.            *)
LEMMA DisconnectReturns ==
  ASSUME TypeOK, Outstanding, NEW e \in Exchange, MaybeDisconnect(e), UNCHANGED msg,
         \A f \in Exchange : tpc'[f] = tpc[f] \/ tpc'[f] \in {"none", "exited"}
  PROVE  Outstanding'
<1> USE DEF TypeOK, BrokerTypeOK, ReceiverTypeOK, Outstanding
<1>1. CASE Disconnect(e)
  BY <1>1 DEF Disconnect
<1>2. CASE UNCHANGED brokerVars
  BY <1>2 DEF brokerVars
<1> QED
  BY <1>1, <1>2 DEF MaybeDisconnect

(* No step hands out what was acknowledged.                                *)
LEMMA OutstandingStep ==
  TypeOK /\ Control /\ Delivery /\ Outstanding /\ [Next]_vars => Outstanding'
<1> SUFFICES ASSUME TypeOK, Control, Delivery, Outstanding, [Next]_vars PROVE Outstanding'
  OBVIOUS
<1> USE DEF TypeOK, BrokerTypeOK, ReceiverTypeOK, Outstanding, brokerVars, receiverVars
<1>1. ASSUME NEW e \in Exchange,
             \/ LoopCheck(e) \/ FetchThrows(e) \/ FetchFails(e) \/ AckFails(e) \/ AckThrows(e)
             \/ CatchCheck(e) \/ CatchCloseThrows(e)
      PROVE  Outstanding'
  BY <1>1 DEF Goto, LoopCheck, FetchThrows, FetchFails, AckFails, AckThrows, CatchCheck,
     CatchCloseThrows
<1>2. ASSUME NEW e \in Exchange, NEW m \in Msg, Fetch(e, m) PROVE Outstanding'
  BY <1>2 DEF Fetch, Goto, Deliver
<1>3. ASSUME NEW e \in Exchange, LockMutex(e) \/ CallbackReturns(e) \/ CallbackThrows(e)
      PROVE  Outstanding'
  BY <1>3 DEF LockMutex, CallbackReturns, CallbackThrows, Goto
<1>4. ASSUME NEW e \in Exchange, Acknowledge(e) PROVE Outstanding'
  BY <1>4 DEF Acknowledge, Goto, AckSession
<1>5. ASSUME NEW e \in Exchange, CatchClose(e) PROVE Outstanding'
  BY <1>5, DisconnectReturns DEF CatchClose, Goto, MaybeDisconnect
<1>6. ASSUME NEW e \in Exchange, LoseConnection(e) PROVE Outstanding'
  BY <1>6, DisconnectReturns DEF LoseConnection, MaybeDisconnect
<1>7. ASSUME NEW e \in Exchange, NEW m \in Msg, Arrive(e, m) PROVE Outstanding'
  BY <1>7 DEF Arrive, Publish
<1>8. CASE ConnectSucceeds \/ ConnectFails \/ SpawnSucceeds \/ SpawnFails
  BY <1>8 DEF ConnectSucceeds, ConnectFails, SpawnSucceeds, SpawnFails, Connect
<1>9. CASE AbortClose \/ AbortCloseThrows
  <2>1. target \in Exchange
    BY <1>9 DEF AbortClose, AbortCloseThrows, At, Control, Starting
  <2> QED
    BY <1>9, <2>1, DisconnectReturns DEF AbortClose, AbortCloseThrows, MaybeDisconnect
<1>10. CASE StopClose \/ StopCloseThrows \/ DtorClose \/ DtorCloseThrows
  <2>1. target \in Exchange
    BY <1>10 DEF StopClose, StopCloseThrows, DtorClose, DtorCloseThrows, At, Control, Stopping
  <2> QED
    BY <1>10, <2>1, DisconnectReturns
    DEF StopClose, StopCloseThrows, DtorClose, DtorCloseThrows, MaybeDisconnect
<1>11. CASE DropReceiver \/ StopReturn
  <2>1. target \in Exchange /\ Destroy(target)
    BY <1>11 DEF DropReceiver, StopReturn, At, Control, Starting, Stopping
  <2> QED
    BY <2>1, DisconnectReturns DEF Destroy, MaybeDisconnect
<1>12. ASSUME NEW e \in Exchange, DtorClear(e) PROVE Outstanding'
  BY <1>12, DisconnectReturns DEF DtorClear, Destroy, MaybeDisconnect
<1>13. ASSUME NEW e \in Exchange, ReceiveMessages(e) \/ ReceiveStop(e) \/ DtorStop(e)
       PROVE  Outstanding'
  BY <1>13 DEF ReceiveMessages, ReceiveStop, DtorStop
<1>14. CASE ReceiveWithoutCallback \/ DropThrows \/ DtorBegin \/ DtorJoin \/ DtorDone
  BY <1>14 DEF ReceiveWithoutCallback, DropThrows, DtorBegin, DtorJoin, DtorDone
<1>15. CASE UNCHANGED vars
  BY <1>15 DEF vars
<1> QED
  BY <1>1, <1>2, <1>3, <1>4, <1>5, <1>6, <1>7, <1>8, <1>9, <1>10, <1>11, <1>12, <1>13,
     <1>14, <1>15
  DEF Next, Call, MainStep, MainFailure, ThreadStep, ThreadFailure, Environment

(* A message that was acknowledged is not handed out again                 *)
(* (QPIDReceiver.cpp:24-29).                                               *)
THEOREM AcknowledgedIsFinal == Spec => []Outstanding
<1>1. Init => Outstanding
  BY DEF Init, BrokerInit, ReceiverInit, Outstanding
<1> QED
  BY <1>1, ThreadsAreJoined, DeliveryHolds, OutstandingStep, PTL DEF Spec
-----------------------------------------------------------------------------
(* Refinement: every step is one of MessageDelivery or does not show.      *)

(* What does not touch the registration, the history and the mutex, and    *)
(* neither enters nor leaves a callback, does not show.                    *)
LEMMA Hidden ==
  ASSUME UNCHANGED <<registered, published, handled, acked, mutex>>,
         mutex # NoExchange => (tpc'[mutex] = "callback" <=> tpc[mutex] = "callback"),
         InCallback => msg'[mutex] = msg[mutex]
  PROVE  UNCHANGED Promise!vars
BY DEF Promise!vars, InCallback

(* A receiver without a running thread is not the one in a callback.       *)
LEMMA NotInCallback ==
  ASSUME NEW e \in Exchange, tpc[e] # "callback"
  PROVE  \A m \in Msg : (IF InCallback THEN <<mutex, msg[mutex]>> ELSE <<>>) # <<e, m>>
BY DEF InCallback

PromiseInv == /\ TypeOK /\ Control /\ Holding /\ NoThreadOutlivesReceiver
              /\ Delivery /\ CallbacksExclude /\ Outstanding

(* The steps of a receiver thread.                                         *)
LEMMA ThreadRefines ==
  ASSUME PromiseInv, NEW e \in Exchange, ThreadStep(e) \/ ThreadFailure(e), UNCHANGED mainVars
  PROVE  [Promise!Next]_(Promise!vars)
<1> USE ReceiverAssumption
    DEF PromiseInv, TypeOK, BrokerTypeOK, ReceiverTypeOK, Holding, CallbacksExclude, mainVars,
        brokerVars
<1>0. e \in registered
  BY ThreadFrame DEF NoThreadOutlivesReceiver
<1>1. CASE \/ LoopCheck(e) \/ FetchThrows(e) \/ FetchFails(e) \/ AckFails(e)
           \/ \E m \in Msg : Fetch(e, m)
  BY <1>1, Hidden DEF LoopCheck, FetchThrows, FetchFails, AckFails, Fetch, Deliver, Goto, InCallback
<1>2. CASE AckThrows(e) \/ CatchCheck(e) \/ CatchClose(e) \/ CatchCloseThrows(e)
  BY <1>2, Hidden DEF AckThrows, CatchCheck, CatchClose, CatchCloseThrows, Disconnect, Goto,
                      InCallback
<1>3. CASE LockMutex(e)
  <2>1. msg[e] \in Msg /\ msg[e] \in published[e] \ acked[e]
    BY <1>3 DEF LockMutex, Goto, Outstanding
  <2>2. mutex = NoExchange /\ mutex' = e /\ tpc'[e] = "callback" /\ msg' = msg
    BY <1>3 DEF LockMutex, Goto
  <2>3. ~InCallback /\ InCallback'
    BY <2>2 DEF InCallback
  <2>4. Promise!Begin(e, msg[e])
    BY <1>3, <1>0, <2>1, <2>2, <2>3 DEF LockMutex, Promise!Begin, Promise!NoCall
  <2> QED
    BY <2>1, <2>4 DEF Promise!Next
<1>4. CASE CallbackReturns(e)
  <2>1. mutex = e /\ mutex' = NoExchange /\ tpc[e] = "callback" /\ msg[e] \in Msg
    BY <1>4 DEF CallbackReturns, Goto
  <2>2. InCallback /\ ~InCallback'
    BY <2>1 DEF InCallback
  <2>3. Promise!Return(e, msg[e])
    BY <1>4, <2>1, <2>2 DEF CallbackReturns, Promise!Return, Promise!NoCall
  <2> QED
    BY <2>1, <2>3 DEF Promise!Next
<1>5. CASE CallbackThrows(e)
  <2>1. mutex = e /\ mutex' = e /\ tpc[e] = "callback" /\ tpc'[e] = "catch" /\ msg[e] \in Msg
    BY <1>5 DEF CallbackThrows, Goto
  <2>2. InCallback /\ ~InCallback'
    BY <2>1 DEF InCallback
  <2>3. Promise!Throw(e, msg[e])
    BY <1>5, <2>1, <2>2 DEF CallbackThrows, Promise!Throw, Promise!NoCall
  <2> QED
    BY <2>1, <2>3 DEF Promise!Next
<1>6. CASE Acknowledge(e)
  <2>1. msg[e] \in Msg /\ msg[e] \in handled[e] /\ unacked[e] = {msg[e]}
    BY <1>6 DEF Acknowledge, Goto, AckSession, Delivery, AckCoversMessageInHand
  <2>2. acked' = [acked EXCEPT ![e] = @ \cup {msg[e]}]
    BY <1>6, <2>1 DEF Acknowledge, AckSession
  <2>3. InCallback' = InCallback /\ (InCallback => msg'[mutex] = msg[mutex])
    BY <1>6 DEF Acknowledge, Goto, InCallback
  <2>4. msg[e] \notin acked[e]
    BY <1>6 DEF Acknowledge, Goto, Outstanding
  <2>5. \A m \in Msg : (IF InCallback THEN <<mutex, msg[mutex]>> ELSE <<>>) # <<e, m>>
    BY <1>6, NotInCallback DEF Acknowledge, Goto
  <2>6. Promise!Ack(e, msg[e])
    BY <1>6, <1>0, <2>1, <2>2, <2>3, <2>4, <2>5 DEF Acknowledge, AckSession, Promise!Ack
  <2> QED
    BY <2>1, <2>6 DEF Promise!Next
<1> QED
  BY <1>1, <1>2, <1>3, <1>4, <1>5, <1>6 DEF ThreadStep, ThreadFailure

(* The end of a receiver, after its thread.                                *)
LEMMA UnlistenRefines ==
  ASSUME PromiseInv, NEW e \in registered, e \in Exchange, Joinable(e), Destroy(e),
         registered' = registered \ {e}
  PROVE  [Promise!Next]_(Promise!vars)
<1> USE ReceiverAssumption DEF PromiseInv, TypeOK, ReceiverTypeOK
<1>1. \A m \in Msg : (IF InCallback THEN <<mutex, msg[mutex]>> ELSE <<>>) # <<e, m>>
  BY NotInCallback DEF Joinable
<1>2. InCallback' = InCallback
  BY DEF InCallback, Destroy
<1>3. Promise!Unlisten(e)
  BY <1>1, <1>2 DEF Promise!Unlisten, Destroy, Disconnect
<1> QED
  BY <1>3 DEF Promise!Next

(* The steps of the whole.                                                 *)
LEMMA PromiseStep == PromiseInv /\ [Next]_vars => [Promise!Next]_(Promise!vars)
<1> SUFFICES ASSUME PromiseInv, [Next]_vars PROVE [Promise!Next]_(Promise!vars)
  OBVIOUS
<1> USE ReceiverAssumption
    DEF PromiseInv, TypeOK, BrokerTypeOK, ReceiverTypeOK, brokerVars, receiverVars, mainVars
<1>1. ASSUME NEW e \in Exchange, ThreadStep(e) \/ ThreadFailure(e), UNCHANGED mainVars
      PROVE  [Promise!Next]_(Promise!vars)
  BY <1>1, ThreadRefines
<1>2. ASSUME NEW e \in Exchange, NEW m \in Msg, Arrive(e, m), UNCHANGED mainVars
      PROVE  [Promise!Next]_(Promise!vars)
  <2>1. Promise!Publish(e, m)
    BY <1>2 DEF Arrive, Publish, Promise!Publish, InCallback
  <2> QED
    BY <2>1 DEF Promise!Next
<1>3. ASSUME NEW e \in Exchange, LoseConnection(e), UNCHANGED mainVars
      PROVE  [Promise!Next]_(Promise!vars)
  BY <1>3, Hidden DEF LoseConnection, Disconnect
<1>4. CASE SpawnSucceeds
  <2>1. target \in Exchange \ registered /\ tpc[target] = "none"
    BY <1>4 DEF SpawnSucceeds, At, Control, Starting, NoThreadOutlivesReceiver
  <2>2. InCallback' = InCallback
    BY <1>4, <2>1 DEF SpawnSucceeds, InCallback
  <2>3. Promise!Listen(target)
    BY <1>4, <2>1, <2>2 DEF SpawnSucceeds, Promise!Listen
  <2> QED
    BY <2>1, <2>3 DEF Promise!Next
<1>5. CASE StopReturn
  <2>1. target \in registered /\ target \in Exchange
    BY <1>5 DEF StopReturn, At, Control, Stopping
  <2> QED
    BY <1>5, <2>1, UnlistenRefines DEF StopReturn
<1>6. ASSUME NEW e \in Exchange, DtorClear(e) PROVE [Promise!Next]_(Promise!vars)
  BY <1>6, UnlistenRefines DEF DtorClear
<1>7. CASE DropReceiver
  <2>1. target \in Exchange /\ tpc[target] = "none"
    BY <1>7 DEF DropReceiver, At, Control, Starting, NoThreadOutlivesReceiver
  <2>2. tpc' = tpc
    BY <1>7, <2>1 DEF DropReceiver, Destroy
  <2> QED
    BY <1>7, <2>2, Hidden DEF DropReceiver, Destroy, Disconnect
<1>8. CASE \/ ConnectSucceeds \/ ConnectFails \/ SpawnFails \/ AbortClose \/ AbortCloseThrows
           \/ DropThrows \/ ReceiveWithoutCallback
  BY <1>8, Hidden DEF ConnectSucceeds, ConnectFails, SpawnFails, AbortClose, AbortCloseThrows,
              DropThrows, ReceiveWithoutCallback, Connect, Disconnect, MaybeDisconnect
<1>9. CASE \/ StopClose \/ StopCloseThrows \/ DtorBegin \/ DtorClose \/ DtorCloseThrows
           \/ DtorJoin \/ DtorDone
  BY <1>9, Hidden DEF StopClose, StopCloseThrows, DtorBegin, DtorClose, DtorCloseThrows,
              DtorJoin, DtorDone, Disconnect, MaybeDisconnect
<1>10. ASSUME NEW e \in Exchange, ReceiveMessages(e) \/ ReceiveStop(e) \/ DtorStop(e)
       PROVE  [Promise!Next]_(Promise!vars)
  BY <1>10, Hidden DEF ReceiveMessages, ReceiveStop, DtorStop
<1>11. CASE UNCHANGED vars
  BY <1>11, Hidden DEF vars
<1> QED
  BY <1>1, <1>2, <1>3, <1>4, <1>5, <1>6, <1>7, <1>8, <1>9, <1>10, <1>11
  DEF Next, Call, MainStep, MainFailure, Environment

(* QPIDMessaging implements MessageDelivery, whatever breaks, throws or is *)
(* stopped (QPIDMessaging.cpp:10-60, QPIDReceiver.cpp:12-79).              *)
THEOREM MessagingRefinesDelivery == Spec => ImplementsMessageDelivery
<1>1. Init => Promise!Init
  BY DEF Init, BrokerInit, ReceiverInit, Promise!Init, Promise!NoCall, InCallback
<1>2. Spec => []PromiseInv
  BY ThreadsAreJoined, DeliveryHolds, OneCallback, AcknowledgedIsFinal, PTL DEF PromiseInv
<1> QED
  BY <1>1, <1>2, PromiseStep, PTL DEF Spec, Promise!Spec, ImplementsMessageDelivery
-----------------------------------------------------------------------------
(* What MessageDelivery promises, for the receivers.                       *)
Promised == INSTANCE MessageDeliveryProofs
            WITH listening <- registered,
                 call <- IF InCallback THEN <<mutex, msg[mutex]>> ELSE <<>>,
                 jammed <- mutex # NoExchange /\ ~InCallback

(* All that follows from MessageDelivery holds of the receivers.           *)
LEMMA DeliveryIsPromised == Spec => Promised!Spec
<1>1. Promise!Init => Promised!Init
  BY DEF Promise!Init, Promised!Init, Promise!NoCall, Promised!NoCall
<1>2. [Promise!Next]_(Promise!vars) => [Promised!Next]_(Promised!vars)
  BY DEF Promise!Next, Promised!Next, Promise!vars, Promised!vars,
     Promise!NoCall, Promised!NoCall, Promise!Publish, Promised!Publish,
     Promise!Listen, Promised!Listen, Promise!Unlisten, Promised!Unlisten,
     Promise!Begin, Promised!Begin, Promise!Return, Promised!Return,
     Promise!Throw, Promised!Throw, Promise!Ack, Promised!Ack
<1> QED
  BY <1>1, <1>2, MessagingRefinesDelivery, PTL
  DEF Promise!Spec, Promised!Spec, ImplementsMessageDelivery

(* mMutex is locked and nobody will unlock it.                             *)
Jammed == mutex # NoExchange /\ ~InCallback

(* A message that was acknowledged never is in a callback again, also      *)
(* after a reconnection; and once a callback has thrown no message of any  *)
(* exchange is handled, however many receivers are started and stopped.    *)
CallbackRule ==
    /\ \A e \in Exchange : \A m \in acked[e] : ~(InCallback' /\ mutex' = e /\ msg'[e] = m)
    /\ Jammed => Jammed' /\ handled' = handled

(* No step of the receivers, of their callers or of the broker breaks the  *)
(* rule (QPIDReceiver.cpp:24-36).                                          *)
THEOREM CallbacksKeepRule == Spec => [][CallbackRule]_vars
<1>1. Spec => [][Promised!StepIsLegal]_(Promised!vars)
  BY DeliveryIsPromised, Promised!CallbacksAreLegal, PTL
<1>2. Spec => []Outstanding
  BY AcknowledgedIsFinal
<1>3. TypeOK /\ Holding /\ Outstanding /\ [Promised!StepIsLegal]_(Promised!vars)
         => [CallbackRule]_vars
  <2> SUFFICES ASSUME TypeOK, Outstanding, [Promised!StepIsLegal]_(Promised!vars)
               PROVE  CallbackRule
    OBVIOUS
  <2> DEFINE Current == IF InCallback THEN <<mutex, msg[mutex]>> ELSE <<>>
  <2>1. ASSUME NEW e \in Exchange, NEW m \in acked[e]
        PROVE  ~(InCallback' /\ mutex' = e /\ msg'[e] = m)
    <3>1. Current # <<e, m>>
      BY DEF Outstanding, InCallback
    <3>2. Current' # <<e, m>>
      BY <3>1 DEF Promised!StepIsLegal, Promised!vars
    <3> QED
      BY <3>2
  <2>2. ASSUME Jammed PROVE Jammed' /\ handled' = handled
    BY <2>2 DEF Promised!StepIsLegal, Promised!vars, Jammed
  <2> QED
    BY <2>1, <2>2 DEF CallbackRule
<1> QED
  BY <1>1, <1>2, <1>3, ThreadsAreJoined, PTL
-----------------------------------------------------------------------------
(* The connection of a receiver that was told to stop is closed once the   *)
(* close of l. 67 was made, and stays so; mMutex is held in a callback, or *)
(* by a thread whose callback has thrown.                                  *)
StoppedIsClosed ==
    \A e \in registered :
        ~active[e] /\ ~(mpc \in {"close", "dclose"} /\ target = e)
           => conn[e] = "closed" \/ CloseMayThrow

MutexHeld == mutex # NoExchange => tpc[mutex] = "callback" \/ CallbackMayThrow

(* Only the main thread opens a connection, for an unregistered receiver,  *)
(* or clears a flag, before it closes.                                     *)
LEMMA StoppedStep ==
  TypeOK /\ Control /\ StoppedIsClosed /\ [Next]_vars => StoppedIsClosed'
<1> SUFFICES ASSUME TypeOK, Control, StoppedIsClosed, [Next]_vars PROVE StoppedIsClosed'
  OBVIOUS
<1> USE ReceiverAssumption
    DEF TypeOK, BrokerTypeOK, ReceiverTypeOK, Control, Starting, Stopping, StoppedIsClosed,
        brokerVars, receiverVars, mainVars
<1>1. ASSUME UNCHANGED <<mainVars, active>>,
             \A e \in Exchange : conn'[e] = conn[e] \/ conn'[e] = "closed"
      PROVE  StoppedIsClosed'
  BY <1>1
<1>2. ASSUME NEW e \in Exchange, UNCHANGED mainVars,
             \/ LoopCheck(e) \/ FetchThrows(e) \/ FetchFails(e) \/ AckFails(e) \/ LockMutex(e)
             \/ CallbackReturns(e) \/ CallbackThrows(e) \/ AckThrows(e) \/ CatchCheck(e)
             \/ CatchCloseThrows(e)
      PROVE  StoppedIsClosed'
  BY <1>2, <1>1 DEF LoopCheck, FetchThrows, FetchFails, AckFails, LockMutex, CallbackReturns,
     CallbackThrows, AckThrows, CatchCheck, CatchCloseThrows
<1>3. ASSUME NEW e \in Exchange, UNCHANGED mainVars, Acknowledge(e) \/ \E m \in Msg : Fetch(e, m)
      PROVE  StoppedIsClosed'
  BY <1>3, <1>1 DEF Acknowledge, AckSession, Fetch, Deliver
<1>4. ASSUME NEW e \in Exchange, UNCHANGED mainVars, CatchClose(e) \/ LoseConnection(e)
      PROVE  StoppedIsClosed'
  BY <1>4, <1>1 DEF CatchClose, LoseConnection, Disconnect
<1>5. ASSUME NEW e \in Exchange, NEW m \in Msg, UNCHANGED mainVars, Arrive(e, m)
      PROVE  StoppedIsClosed'
  BY <1>5, <1>1 DEF Arrive, Publish
<1>6. CASE ConnectSucceeds \/ ConnectFails
  BY <1>6 DEF ConnectSucceeds, ConnectFails, At, Connect
<1>7. CASE SpawnSucceeds \/ SpawnFails
  BY <1>7 DEF SpawnSucceeds, SpawnFails, At
<1>8. CASE AbortClose \/ AbortCloseThrows
  BY <1>8 DEF AbortClose, AbortCloseThrows, At, MaybeDisconnect, Disconnect
<1>9. CASE DropReceiver \/ StopReturn
  BY <1>9 DEF DropReceiver, StopReturn, At, Destroy, Disconnect
<1>10. CASE StopClose \/ DtorClose
  BY <1>10 DEF StopClose, DtorClose, At, Disconnect
<1>11. CASE StopCloseThrows \/ DtorCloseThrows
  BY <1>11 DEF StopCloseThrows, DtorCloseThrows
<1>12. ASSUME NEW e \in Exchange, ReceiveMessages(e) PROVE StoppedIsClosed'
  BY <1>12 DEF ReceiveMessages, At
<1>13. ASSUME NEW e \in Exchange, ReceiveStop(e) PROVE StoppedIsClosed'
  BY <1>13 DEF ReceiveStop, At
<1>14. ASSUME NEW e \in Exchange, DtorStop(e) PROVE StoppedIsClosed'
  BY <1>14 DEF DtorStop, At
<1>15. ASSUME NEW e \in Exchange, DtorClear(e) PROVE StoppedIsClosed'
  BY <1>15 DEF DtorClear, At, Destroy, Disconnect
<1>16. CASE ReceiveWithoutCallback \/ DropThrows \/ DtorBegin \/ DtorJoin \/ DtorDone
  BY <1>16 DEF ReceiveWithoutCallback, DropThrows, DtorBegin, DtorJoin, DtorDone, At
<1>17. CASE UNCHANGED vars
  BY <1>17 DEF vars
<1> QED
  BY <1>2, <1>3, <1>4, <1>5, <1>6, <1>7, <1>8, <1>9, <1>10, <1>11, <1>12, <1>13, <1>14,
     <1>15, <1>16, <1>17
  DEF Next, Call, MainStep, MainFailure, ThreadStep, ThreadFailure, Environment

(* The holder leaves its callback with the mutex released, or throws.      *)
LEMMA HolderStep ==
  TypeOK /\ Control /\ NoThreadOutlivesReceiver /\ MutexHeld /\ [Next]_vars => MutexHeld'
<1> SUFFICES ASSUME TypeOK, Control, NoThreadOutlivesReceiver, MutexHeld, [Next]_vars
             PROVE  MutexHeld'
  OBVIOUS
<1> USE ReceiverAssumption DEF TypeOK, ReceiverTypeOK, MutexHeld, receiverVars
<1>1. ASSUME NEW e \in Exchange, LockMutex(e) \/ CallbackReturns(e) PROVE MutexHeld'
  BY <1>1 DEF LockMutex, CallbackReturns, Goto
<1>2. ASSUME NEW e \in Exchange, CallbackThrows(e) PROVE MutexHeld'
  BY <1>2 DEF CallbackThrows
<1>3. ASSUME UNCHANGED mutex, \A e \in Exchange : tpc[e] = "callback" => tpc'[e] = "callback"
      PROVE  MutexHeld'
  BY <1>3
<1>4. ASSUME NEW e \in Exchange,
             \/ LoopCheck(e) \/ FetchThrows(e) \/ FetchFails(e) \/ AckFails(e) \/ Acknowledge(e)
             \/ \E m \in Msg : Fetch(e, m)
      PROVE  MutexHeld'
  BY <1>4, <1>3 DEF LoopCheck, FetchThrows, FetchFails, AckFails, Acknowledge, Fetch, Goto
<1>5. ASSUME NEW e \in Exchange,
             AckThrows(e) \/ CatchCheck(e) \/ CatchClose(e) \/ CatchCloseThrows(e)
      PROVE  MutexHeld'
  BY <1>5, <1>3 DEF AckThrows, CatchCheck, CatchClose, CatchCloseThrows, Goto
<1>6. ASSUME NEW e \in Exchange, Environment(e) PROVE MutexHeld'
  BY <1>6, <1>3 DEF Environment, Arrive, LoseConnection
<1>7. CASE SpawnSucceeds
  BY <1>7, <1>3 DEF SpawnSucceeds, At, Control, Starting, NoThreadOutlivesReceiver
<1>8. CASE DropReceiver \/ StopReturn \/ \E e \in Exchange : DtorClear(e)
  BY <1>8, <1>3 DEF DropReceiver, StopReturn, DtorClear, Destroy
<1>9. CASE \/ ConnectSucceeds \/ ConnectFails \/ SpawnFails \/ AbortClose \/ AbortCloseThrows
           \/ DropThrows \/ ReceiveWithoutCallback
  BY <1>9, <1>3 DEF ConnectSucceeds, ConnectFails, SpawnFails, AbortClose, AbortCloseThrows, DropThrows,
         ReceiveWithoutCallback
<1>10. CASE \/ StopClose \/ StopCloseThrows \/ DtorBegin \/ DtorClose \/ DtorCloseThrows
            \/ DtorJoin \/ DtorDone
  BY <1>10, <1>3 DEF StopClose, StopCloseThrows, DtorBegin, DtorClose, DtorCloseThrows, DtorJoin, DtorDone
<1>11. ASSUME NEW e \in Exchange, ReceiveMessages(e) \/ ReceiveStop(e) \/ DtorStop(e)
       PROVE  MutexHeld'
  BY <1>11, <1>3 DEF ReceiveMessages, ReceiveStop, DtorStop
<1>12. CASE UNCHANGED vars
  BY <1>12, <1>3 DEF vars
<1> QED
  BY <1>1, <1>2, <1>4, <1>5, <1>6, <1>7, <1>8, <1>9, <1>10, <1>11, <1>12
  DEF Next, Call, MainStep, MainFailure, ThreadStep, ThreadFailure

(* Who joins the thread of a receiver, in a stop or in the destructor, does*)
(* not wait for one that waits for ever, whenever it read its flag         *)
(* (QPIDReceiver.cpp:23-28, 66-69).                                        *)
THEOREM JoinsGoOn == Spec => []JoinedThreadGoesOn
<1>1. Init => StoppedIsClosed /\ MutexHeld
  BY DEF Init, ReceiverInit, StoppedIsClosed, MutexHeld
<1>2. StoppedIsClosed /\ MutexHeld => JoinedThreadGoesOn
  BY DEF StoppedIsClosed, MutexHeld, JoinedThreadGoesOn
<1> QED
  BY <1>1, <1>2, ThreadsAreJoined, StoppedStep, HolderStep, PTL DEF Spec
=============================================================================
