------------------------ MODULE MessageDeliveryProofs ------------------------
(***************************************************************************)
(* What follows from the specification of the delivery of messages, for    *)
(* every set of exchanges and messages: QPIDMessaging, which implements it,*)
(* and TestCM, which uses it, inherit these theorems.                      *)
(***************************************************************************)
EXTENDS MessageDelivery, TLAPS

(* The variables are functions on the exchanges.                           *)
Typed == /\ listening \subseteq Exchange
         /\ published \in [Exchange -> SUBSET Msg]
         /\ handled \in [Exchange -> SUBSET Msg]
         /\ acked \in [Exchange -> SUBSET Msg]
         /\ jammed \in BOOLEAN

(* What was acknowledged was handled, what was handled was published, and  *)
(* no message belongs to two exchanges.                                    *)
InOrder == \A e \in Exchange :
              /\ acked[e] \subseteq handled[e]
              /\ handled[e] \subseteq published[e]
              /\ \A x \in Exchange \ {e} : published[e] \cap published[x] = {}

(* A callback has a published message that is not acknowledged yet, its    *)
(* exchange is listened to, and no callback has thrown.                    *)
CallIsLegal == call # NoCall =>
                  /\ ~jammed
                  /\ \E e \in listening : \E m \in published[e] \ acked[e] : call = <<e, m>>

(* What a step may never do: take back what was handled or acknowledged,   *)
(* hand out what was acknowledged, handle anything but the message in the  *)
(* callback, go from one callback into another, or go on after one has     *)
(* thrown.                                                                 *)
StepIsLegal ==
    /\ \A e \in Exchange :
          /\ acked[e] \subseteq acked'[e]
          /\ handled[e] \subseteq handled'[e]
          /\ \A m \in handled'[e] \ handled[e] : call = <<e, m>>
          /\ \A m \in acked[e] : call' # <<e, m>>
    /\ call # NoCall => call' = call \/ call' = NoCall
    /\ jammed => jammed' /\ call' = NoCall /\ handled' = handled

(* Nothing is published, handled or acknowledged at the beginning.         *)
LEMMA InitHolds == Init => Typed /\ InOrder /\ CallIsLegal
BY DEF Init, Typed, InOrder, CallIsLegal

(* A pair is not the empty sequence, and equal pairs have equal parts.     *)
LEMMA Pairs == \A e, m, x, n : /\ <<e, m>> # NoCall
                               /\ <<e, m>> = <<x, n>> => e = x /\ m = n
BY DEF NoCall

(* Every step keeps the types, the order and the callback legal.           *)
LEMMA StepHolds ==
  Typed /\ InOrder /\ CallIsLegal /\ [Next]_vars => Typed' /\ InOrder' /\ CallIsLegal'
<1> SUFFICES ASSUME Typed, InOrder, CallIsLegal, [Next]_vars
             PROVE  Typed' /\ InOrder' /\ CallIsLegal'
  OBVIOUS
<1> USE DEF Typed, InOrder, CallIsLegal
<1>1. ASSUME NEW e \in Exchange, Listen(e) PROVE Typed' /\ InOrder' /\ CallIsLegal'
  BY <1>1 DEF Listen
<1>2. ASSUME NEW e \in Exchange, Unlisten(e) PROVE Typed' /\ InOrder' /\ CallIsLegal'
  BY <1>2 DEF Unlisten
<1>3. ASSUME NEW e \in Exchange, NEW m \in Msg, Publish(e, m)
      PROVE  Typed' /\ InOrder' /\ CallIsLegal'
  BY <1>3 DEF Publish
<1>4. ASSUME NEW e \in Exchange, NEW m \in Msg, Begin(e, m)
      PROVE  Typed' /\ InOrder' /\ CallIsLegal'
  BY <1>4 DEF Begin
<1>5. ASSUME NEW e \in Exchange, NEW m \in Msg, Return(e, m)
      PROVE  Typed' /\ InOrder' /\ CallIsLegal'
  <2>1. m \in published[e]
    BY <1>5, Pairs DEF Return
  <2> QED
    BY <1>5, <2>1 DEF Return
<1>6. ASSUME NEW e \in Exchange, NEW m \in Msg, Throw(e, m)
      PROVE  Typed' /\ InOrder' /\ CallIsLegal'
  BY <1>6 DEF Throw
<1>7. ASSUME NEW e \in Exchange, NEW m \in Msg, Ack(e, m)
      PROVE  Typed' /\ InOrder' /\ CallIsLegal'
  BY <1>7, Pairs DEF Ack
<1>8. CASE UNCHANGED vars
  BY <1>8 DEF vars
<1> QED
  BY <1>1, <1>2, <1>3, <1>4, <1>5, <1>6, <1>7, <1>8 DEF Next

(* The order of events in the life of a message, and the state in which a  *)
(* callback is made.                                                       *)
THEOREM DeliveryIsLegal == Spec => [](Typed /\ InOrder /\ CallIsLegal)
BY InitHolds, StepHolds, PTL DEF Spec

(* The callbacks come one after the other, never for a message that was    *)
(* acknowledged, and none comes after one that threw.                      *)
THEOREM CallbacksAreLegal == Spec => [][StepIsLegal]_vars
<1>1. Typed /\ InOrder /\ CallIsLegal /\ [Next]_vars => [StepIsLegal]_vars
  <2> SUFFICES ASSUME Typed, InOrder, CallIsLegal, Next PROVE StepIsLegal
    OBVIOUS
  <2> USE DEF Typed, StepIsLegal
  <2>0. \A e \in Exchange : \A m \in acked[e] : call # <<e, m>>
    BY Pairs DEF CallIsLegal
  <2>1. ASSUME NEW e \in Exchange, Listen(e) \/ Unlisten(e) PROVE StepIsLegal
    BY <2>0, <2>1 DEF Listen, Unlisten, CallIsLegal
  <2>2. ASSUME NEW e \in Exchange, NEW m \in Msg, Publish(e, m) PROVE StepIsLegal
    BY <2>0, <2>2 DEF Publish, CallIsLegal
  <2>3. ASSUME NEW e \in Exchange, NEW m \in Msg, Begin(e, m) PROVE StepIsLegal
    BY <2>3, Pairs DEF Begin
  <2>4. ASSUME NEW e \in Exchange, NEW m \in Msg, Return(e, m) PROVE StepIsLegal
    BY <2>4, Pairs DEF Return, CallIsLegal
  <2>5. ASSUME NEW e \in Exchange, NEW m \in Msg, Throw(e, m) PROVE StepIsLegal
    BY <2>5, Pairs DEF Throw, CallIsLegal
  <2>6. ASSUME NEW e \in Exchange, NEW m \in Msg, Ack(e, m) PROVE StepIsLegal
    BY <2>0, <2>6 DEF Ack, CallIsLegal
  <2> QED
    BY <2>1, <2>2, <2>3, <2>4, <2>5, <2>6 DEF Next
<1> QED
  BY <1>1, DeliveryIsLegal, PTL DEF Spec
=============================================================================
