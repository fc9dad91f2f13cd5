----------------------------- MODULE TestCMProofs ----------------------------
(***************************************************************************)
(* Proofs about QPIDSender and TestCM for every set of exchanges and       *)
(* messages, any number of items and callbacks, and every failure.         *)
(***************************************************************************)
EXTENDS TestCM, TLAPS

(* What can happen to the senders in a step.                               *)
SenderMove == \/ \E s \in Sender : SenderStep(s)
              \/ \E p \in wire : Accept(p)
              \/ \E m \in Msg : CallSend("menu", m)
              \/ \E e \in Exchange, m \in Msg : ReplyCallback(e, m)
              \/ UNCHANGED senderVars

(* A callback in progress has been counted, and its receiver is there.     *)
CallbackPlace ==
    /\ cpc # "none" => calls # 0
    /\ \A e \in Exchange, m \in Msg :
          call = <<e, m>> => /\ kind[e] # "none"
                             /\ cpc = kind[e] \/ (cpc = "send" /\ kind[e] = "reply")

(* A thread in sendMessage has a packet.                                   *)
Sending == \A s \in Sender : spc[s] # "idle" => packet[s] \in Packet

(* The actions of MessageDelivery, as far as TestCM's own variables tell.  *)
(* A receiver that ends was there and in no callback.                      *)
LEMMA UnlistenFacts ==
  ASSUME NEW e \in Exchange, Receivers!Unlisten(e)
  PROVE  kind[e] # "none" /\ (\A m \in Msg : call # <<e, m>>) /\ UNCHANGED deliveryVars
BY DEF Receivers!Unlisten, deliveryVars

(* A callback begins on behalf of a receiver, and when none is running.    *)
LEMMA BeginFacts ==
  ASSUME NEW e \in Exchange, NEW m \in Msg, Receivers!Begin(e, m)
  PROVE  /\ kind[e] # "none"
         /\ call = <<>> /\ call' = <<e, m>>
         /\ UNCHANGED <<handled, acked, jammed>>
BY DEF Receivers!Begin, Receivers!NoCall

(* A callback that returns was the one in progress.                        *)
LEMMA ReturnFacts ==
  ASSUME NEW e \in Exchange, NEW m \in Msg, Receivers!Return(e, m)
  PROVE  /\ call = <<e, m>> /\ call' = <<>>
         /\ handled' = [handled EXCEPT ![e] = @ \cup {m}]
         /\ UNCHANGED <<acked, jammed>>
BY DEF Receivers!Return, Receivers!NoCall

(* Whichever callback returns, it ends in this way.                        *)
LEMMA EndFacts ==
  ASSUME TypeOK, NEW e \in Exchange, NEW m \in Msg,
         PrintCallback(e, m) \/ ReplySent(e, m) \/ PersistCallback(e, m)
  PROVE  /\ call' = <<>> /\ handled' = [handled EXCEPT ![e] = @ \cup {m}]
         /\ cpc' = "none" /\ UNCHANGED <<acked, jammed, menuVars, calls>>
         /\ rows' \in SUBSET Msg
         /\ done' \in [Msg -> Kinds \cup {"none"}]
<1>1. PICK k \in Kinds : CallbackEnds(e, m, k)
  BY DEF PrintCallback, ReplySent, PersistCallback, Kinds
<1>2. rows' \in SUBSET Msg
  BY DEF PrintCallback, ReplySent, PersistCallback, TypeOK
<1>3. Receivers!Return(e, m)
  BY <1>1 DEF CallbackEnds
<1>4. done' \in [Msg -> Kinds \cup {"none"}]
  BY <1>1 DEF CallbackEnds, TypeOK
<1> QED
  BY <1>1, <1>2, <1>3, <1>4, ReturnFacts DEF CallbackEnds

(* A callback that throws is no longer in progress.                        *)
LEMMA ThrowFacts ==
  ASSUME NEW e \in Exchange, NEW m \in Msg, Receivers!Throw(e, m)
  PROVE  /\ call = <<e, m>> /\ call' = <<>> /\ jammed' \in BOOLEAN
         /\ UNCHANGED <<handled, acked>>
BY DEF Receivers!Throw, Receivers!NoCall

(* An acknowledgement changes nothing but acked.                           *)
LEMMA AckFacts ==
  ASSUME NEW e \in Exchange, NEW m \in Msg, Receivers!Ack(e, m)
  PROVE  /\ acked' = [acked EXCEPT ![e] = @ \cup {m}]
         /\ UNCHANGED <<handled, call, jammed>>
BY DEF Receivers!Ack
-----------------------------------------------------------------------------
(* The senders *)

(* What a reply says is one of the known texts.                            *)
LEMMA TextsOfReplies ==
  ASSUME TypeOK, NEW e \in Exchange, NEW m \in Msg
  PROVE  ReplyText(e, m) \subseteq Text \cup {"invalid"}
BY DEF TypeOK, ReplyText, Text

(* Every step of the program is one of these for the senders.              *)
LEMMA EveryMove == [Next]_vars => SenderMove
<1> SUFFICES ASSUME [Next]_vars PROVE SenderMove
  OBVIOUS
<1> USE DEF SenderMove
<1>1. CASE Input
  BY <1>1 DEF Input, Exit, SendItem, StopItem, ReceiveItem, ReplyItem
<1>2. CASE CallReturns
  BY <1>2 DEF CallReturns, SendReturns, StartSucceeds, StartFails, StopInvalid
<1>3. CASE StopSucceeds \/ ExitStep
  BY <1>3 DEF StopSucceeds, Unlisten, ExitStep, ExitDatabase, ExitDone, ExitReceiver
<1>4. CASE MainFailure
  BY <1>4 DEF MainFailure, StartThrows, StopFails, Unlisten, Hang
<1>5. ASSUME NEW e \in Exchange, NEW m \in Msg,
             CallbackBegins(e, m) \/ Acknowledged(e, m) \/ PrintCallback(e, m)
             \/ ReplySent(e, m) \/ ReplyThrows(e, m) \/ PersistCallback(e, m)
      PROVE  SenderMove
  BY <1>5 DEF CallbackBegins, Acknowledged, PrintCallback, ReplySent, ReplyThrows,
              PersistCallback, CallbackEnds
<1>6. ASSUME NEW e \in Exchange, NEW m \in Msg, ReplyCallback(e, m) PROVE SenderMove
  BY <1>6
<1>7. CASE (\E s \in Sender : SenderRuns(s)) \/ BrokerAccepts
  BY <1>7 DEF SenderRuns, BrokerAccepts
<1>8. CASE \/ MapRace \/ UseAfterDestruction \/ UNCHANGED vars
           \/ \E e \in Exchange : ReceiverTerminates(e)
  BY <1>8 DEF MapRace, UseAfterDestruction, ReceiverTerminates, vars
<1> QED
  BY <1>1, <1>2, <1>3, <1>4, <1>5, <1>6, <1>7, <1>8 DEF Next, CallbackStep

(* The senders stay well typed: a reply that is sent is a packet.          *)
LEMMA SenderTypeStep ==
  ASSUME TypeOK, Sending, CallbackPlace, SenderMove
  PROVE  SenderTypeOK' /\ Sending'
<1>0. SenderTypeOK
  BY DEF TypeOK
<1> USE <1>0, TestAssumption, SenderAssumption DEF SenderTypeOK, Sending
<1>1. ASSUME NEW s \in Sender, SenderStep(s) PROVE SenderTypeOK' /\ Sending'
  BY <1>1 DEF SenderStep, OpenSucceeds, OpenFails, SendSucceeds, SendFails, CloseSucceeds,
              CloseFails, HandlerClose, HandlerCloseThrows, Goto
<1>2. ASSUME NEW p \in wire, Accept(p) PROVE SenderTypeOK' /\ Sending'
  BY <1>2 DEF Accept
<1>3. ASSUME NEW s \in Sender, NEW p \in Packet, CallSend(s, p)
      PROVE  SenderTypeOK' /\ Sending'
  BY <1>3 DEF CallSend, Goto
<1>4. ASSUME NEW e \in Exchange, NEW m \in Msg, ReplyCallback(e, m)
      PROVE  SenderTypeOK' /\ Sending'
  <2>1. PICK t \in ReplyText(e, m) : CallSend("callback", [re |-> m, no |-> calls, text |-> t])
    BY <1>4 DEF ReplyCallback
  <2>2. calls \in 1 .. MaxCalls
    BY <1>4 DEF ReplyCallback, CallbackPlace, TypeOK
  <2>3. [re |-> m, no |-> calls, text |-> t] \in Packet
    BY <2>2, TextsOfReplies DEF Reply
  <2> QED
    BY <1>3, <2>1, <2>3
<1>5. CASE UNCHANGED senderVars
  BY <1>5 DEF senderVars
<1> QED
  BY <1>1, <1>2, <1>3, <1>4, <1>5 DEF SenderMove

(* No step of a sender makes a status wrong (QPIDSender.cpp:9-32).         *)
LEMMA SendStatusStep ==
  ASSUME SenderTypeOK, SendStatusIsTrue, SenderMove
  PROVE  SendStatusIsTrue'
<1> USE SenderAssumption DEF SenderTypeOK, SendStatusIsTrue
<1>1. ASSUME NEW s \in Sender, SenderStep(s) PROVE SendStatusIsTrue'
  BY <1>1 DEF SenderStep, OpenSucceeds, OpenFails, SendSucceeds, SendFails, CloseSucceeds,
              CloseFails, HandlerClose, HandlerCloseThrows, Goto
<1>2. ASSUME NEW p \in wire, Accept(p) PROVE SendStatusIsTrue'
  BY <1>2 DEF Accept
<1>3. ASSUME NEW s, NEW p, CallSend(s, p) PROVE SendStatusIsTrue'
  BY <1>3 DEF CallSend, Goto
<1>4. CASE UNCHANGED senderVars
  BY <1>4 DEF senderVars
<1> QED
  BY <1>1, <1>2, <1>3, <1>4 DEF SenderMove, ReplyCallback
-----------------------------------------------------------------------------
(* The menu and the callbacks *)

(* Where the main thread is says what it works on.                         *)
MenuPlace == /\ mpc \in {"start", "stop"} => target \in Exchange
             /\ mpc = "start" => choice # "none"
             /\ choice # "none" => mpc \in {"start", "aborted"}

Basic == TypeOK /\ Sending /\ CallbackPlace /\ MenuPlace

(* A start that succeeds found no receiver (QPIDMessaging.cpp:32-40).      *)
LEMMA StartFacts ==
  ASSUME MenuPlace, StartSucceeds
  PROVE  target \in Exchange /\ kind[target] = "none" /\ UNCHANGED deliveryVars
<1>1. target \in Exchange /\ Receivers!Listen(target)
  BY DEF MenuPlace, StartSucceeds, At
<1> QED
  BY <1>1 DEF Receivers!Listen, deliveryVars

(* A stop ends a receiver that is there and not in a callback.             *)
LEMMA StopFacts ==
  ASSUME MenuPlace, StopSucceeds \/ StopFails
  PROVE  /\ target \in Exchange /\ kind[target] # "none" /\ choice = "none"
         /\ \A m \in Msg : call # <<target, m>>
         /\ UNCHANGED deliveryVars
<1>1. target \in Exchange /\ choice = "none" /\ Receivers!Unlisten(target)
  BY DEF MenuPlace, StopSucceeds, StopFails, At, Unlisten
<1> QED
  BY <1>1 DEF Receivers!Unlisten, deliveryVars

(* Types and places are kept by every step.                                *)
LEMMA BasicStep == Basic /\ [Next]_vars => Basic'
<1> SUFFICES ASSUME Basic, [Next]_vars PROVE Basic'
  OBVIOUS
<1> DEFINE Rest == TypeOK' /\ CallbackPlace' /\ MenuPlace'
<1>1. SenderTypeOK' /\ Sending'
  BY EveryMove, SenderTypeStep DEF Basic, TypeOK
<1> USE <1>1, TestAssumption
    DEF Basic, TypeOK, CallbackPlace, MenuPlace, Kinds, Text, deliveryVars, menuVars,
        callbackVars, At, Choose
<1>2. CASE Input
  BY <1>2 DEF Input, Exit, SendItem, StopItem, ReceiveItem, ReplyItem
<1>3. CASE SendReturns \/ StartFails \/ StopInvalid
  <2>1. failed' \in [Exchange -> BOOLEAN]
    BY <1>3, Zenon DEF SendReturns, StartFails, StopInvalid
  <2> QED
    BY <1>3, <2>1 DEF SendReturns, StartFails, StopInvalid, Return
<1>4. CASE StartSucceeds
  BY <1>4, StartFacts DEF StartSucceeds, Return
<1>5. CASE StopSucceeds \/ StopFails
  <2>1. failed' \in [Exchange -> BOOLEAN]
    BY <1>5, Zenon DEF StopSucceeds, StopFails
  <2> QED
    BY <1>5, <2>1, StopFacts DEF StopSucceeds, StopFails, Unlisten, Return
<1>6. ASSUME NEW e \in Exchange, ExitReceiver(e) PROVE Rest
  <2>1. Receivers!Unlisten(e)
    BY <1>6 DEF ExitReceiver, Unlisten
  <2>2. (\A m \in Msg : call # <<e, m>>) /\ UNCHANGED deliveryVars
    BY <2>1, UnlistenFacts
  <2> QED
    BY <1>6, <2>2 DEF ExitReceiver, Unlisten
<1>7. CASE ExitDatabase \/ ExitDone \/ StartThrows \/ Hang
  BY <1>7 DEF ExitDatabase, ExitDone, StartThrows, Hang
<1>8. ASSUME NEW e \in Exchange, NEW m \in Msg, CallbackBegins(e, m) PROVE Rest
  BY <1>8, BeginFacts DEF CallbackBegins
<1>9. ASSUME NEW e \in Exchange, NEW m \in Msg,
             call' = <<>>, handled' = [handled EXCEPT ![e] = @ \cup {m}], cpc' = "none",
             UNCHANGED <<acked, jammed, menuVars, calls>>, rows' \in SUBSET Msg,
             done' \in [Msg -> Kinds \cup {"none"}]
      PROVE  Rest
  BY <1>9
<1>10. ASSUME NEW e \in Exchange, NEW m \in Msg,
              PrintCallback(e, m) \/ ReplySent(e, m) \/ PersistCallback(e, m)
       PROVE  Rest
  BY <1>9, <1>10, EndFacts
<1>11. ASSUME NEW e \in Exchange, NEW m \in Msg, ReplyCallback(e, m) PROVE Rest
  BY <1>11 DEF ReplyCallback
<1>12. ASSUME NEW e \in Exchange, NEW m \in Msg, ReplyThrows(e, m) PROVE Rest
  <2>1. Receivers!Throw(e, m)
    BY <1>12 DEF ReplyThrows
  <2>2. call' = <<>> /\ jammed' \in BOOLEAN /\ UNCHANGED <<handled, acked>>
    BY <2>1, ThrowFacts
  <2> QED
    BY <1>12, <2>2 DEF ReplyThrows
<1>13. ASSUME NEW e \in Exchange, NEW m \in Msg, Acknowledged(e, m) PROVE Rest
  BY <1>13, AckFacts DEF Acknowledged
<1>14. CASE (\E s \in Sender : SenderRuns(s)) \/ BrokerAccepts
  BY <1>14 DEF SenderRuns, BrokerAccepts
<1>15. CASE MapRace \/ UseAfterDestruction \/ \E e \in Exchange : ReceiverTerminates(e)
  BY <1>15 DEF MapRace, UseAfterDestruction, ReceiverTerminates, MapDestroyed, DatabaseDestroyed
<1>16. CASE UNCHANGED vars
  BY <1>16 DEF vars
<1> QED
  BY <1>1, <1>2, <1>3, <1>4, <1>5, <1>6, <1>7, <1>8, <1>10, <1>11, <1>12, <1>13, <1>14,
     <1>15, <1>16
  DEF Next, CallReturns, ExitStep, MainFailure, CallbackStep
-----------------------------------------------------------------------------
(* The entries of exchangeReply *)

(* Until the exit, an entry has a receiver that replies, or a start or a   *)
(* stop has failed, or the item that made it is still in its start; and    *)
(* the entry that operator[] would make is never made.                     *)
Entries ==
    /\ mpc \in {"menu", "send", "start", "stop"} =>
          \A e \in Exchange :
             /\ exchangeReply[e] # "none" =>
                   kind[e] = "reply" \/ failed[e] \/ (target = e /\ choice = "reply")
             /\ exchangeReply[e] = "earlier" => kind[e] = "reply" \/ failed[e]
    /\ choice = "reply" => exchangeReply[target] # "none"
    /\ \A e \in Exchange : exchangeReply[e] # "empty"

TextInv == Entries /\ OldTextMeansFailure

(* The entries of exchangeReply are kept by every step.                    *)
LEMMA TextStep == Basic /\ TextInv /\ [Next]_vars => TextInv'
<1> SUFFICES ASSUME Basic, TextInv, [Next]_vars PROVE TextInv'
  OBVIOUS
<1>0. /\ target \in Exchange \cup {NoExchange} /\ choice \in Kinds \cup {"none"}
      /\ kind \in [Exchange -> Kinds \cup {"none"}]
      /\ exchangeReply \in [Exchange -> Text \cup {"none"}]
      /\ failed \in [Exchange -> BOOLEAN]
      /\ MenuPlace /\ CallbackPlace
  BY DEF Basic, TypeOK
<1> USE <1>0, TestAssumption
    DEF TextInv, Entries, OldTextMeansFailure, MenuPlace, Kinds, Text, At, Choose
<1>1. CASE UNCHANGED menuVars
  BY <1>1 DEF menuVars
<1>2. CASE Exit \/ \E m \in Msg : SendItem(m)
  BY <1>2 DEF Exit, SendItem
<1>3. ASSUME NEW e \in Exchange, StopItem(e) PROVE TextInv'
  BY <1>3 DEF StopItem
<1>4. ASSUME NEW e \in Exchange, NEW k \in {"print", "persist"}, ReceiveItem(e, k)
      PROVE  TextInv'
  BY <1>4 DEF ReceiveItem
<1>5. ASSUME NEW e \in Exchange, ReplyItem(e) PROVE TextInv'
  BY <1>5 DEF ReplyItem
<1>6. CASE SendReturns \/ StopInvalid
  BY <1>6 DEF SendReturns, StopInvalid, Return
<1>7. CASE StartSucceeds
  BY <1>7, StartFacts DEF StartSucceeds, Return
<1>8. CASE StartFails
  BY <1>8 DEF StartFails, Return
<1>9. CASE StopSucceeds
  BY <1>9, StopFacts DEF StopSucceeds, Unlisten, Return
<1>10. CASE StopFails
  BY <1>10, StopFacts DEF StopFails, Unlisten, Return
<1>11. ASSUME NEW e \in Exchange, ExitReceiver(e) PROVE TextInv'
  BY <1>11 DEF ExitReceiver, Unlisten
<1>12. CASE ExitDatabase \/ ExitDone \/ StartThrows \/ Hang \/ MapRace
  BY <1>12 DEF ExitDatabase, ExitDone, StartThrows, Hang, MapRace
<1>13. CASE UseAfterDestruction \/ \E e \in Exchange : ReceiverTerminates(e)
  BY <1>13 DEF UseAfterDestruction, ReceiverTerminates
<1>14. ASSUME NEW e \in Exchange, NEW m \in Msg, ReplyCallback(e, m) PROVE TextInv'
  <2>1. exchangeReply[e] # "none"
    BY <1>14 DEF ReplyCallback, CallbackPlace
  <2> QED
    BY <1>14, <2>1 DEF ReplyCallback
<1>15. ASSUME NEW e \in Exchange, NEW m \in Msg,
              \/ CallbackBegins(e, m) \/ Acknowledged(e, m) \/ PrintCallback(e, m)
              \/ ReplySent(e, m) \/ ReplyThrows(e, m) \/ PersistCallback(e, m)
       PROVE  UNCHANGED menuVars
  BY <1>15 DEF CallbackBegins, Acknowledged, PrintCallback, ReplySent, ReplyThrows,
               PersistCallback, CallbackEnds
<1>16. CASE (\E s \in Sender : SenderRuns(s)) \/ BrokerAccepts \/ UNCHANGED vars
  BY <1>1, <1>16 DEF SenderRuns, BrokerAccepts, vars
<1> QED
  BY <1>1, <1>2, <1>3, <1>4, <1>5, <1>6, <1>7, <1>8, <1>9, <1>10, <1>11, <1>12, <1>13,
     <1>14, <1>15, <1>16
  DEF Next, Input, CallReturns, ExitStep, MainFailure, CallbackStep
-----------------------------------------------------------------------------
(* The replies *)

(* exchangeReply is destroyed, or nothing is claimed any more.             *)
Over == MapDestroyed \/ ~Alive

(* What RepliesAreReal says of one reply, and of those not sent yet.       *)
Real(p) == /\ p.text = "invalid" <=> Wants[p.re] = "invalid"
           /\ p.text = "empty" => Over

PacketsAreReal == \A s \in Sender : packet[s] \in Reply \ Msg => Real(packet[s])

(* exchangeReply is not constructed again.                                 *)
LEMMA OverIsFinal == Over /\ [Next]_vars => Over'
<1> SUFFICES ASSUME Over, [Next]_vars PROVE Over'
  OBVIOUS
<1> USE DEF Over, MapDestroyed, Alive, At, Choose
<1>1. CASE Input
  BY <1>1 DEF Input, Exit, SendItem, StopItem, ReceiveItem, ReplyItem
<1>2. CASE CallReturns \/ StopSucceeds \/ ExitStep \/ MainFailure
  BY <1>2 DEF CallReturns, SendReturns, StartSucceeds, StartFails, StopInvalid, StopSucceeds,
              ExitStep, ExitDatabase, ExitDone, ExitReceiver, MainFailure, StartThrows,
              StopFails, Hang
<1>3. ASSUME NEW e \in Exchange, NEW m \in Msg,
             CallbackBegins(e, m) \/ CallbackStep(e, m) \/ Acknowledged(e, m)
      PROVE  Over'
  BY <1>3 DEF CallbackBegins, CallbackStep, Acknowledged, PrintCallback, ReplyCallback,
              ReplySent, ReplyThrows, PersistCallback, CallbackEnds, menuVars
<1>4. CASE (\E s \in Sender : SenderRuns(s)) \/ BrokerAccepts \/ UNCHANGED vars
  BY <1>4 DEF SenderRuns, BrokerAccepts, menuVars, vars
<1>5. CASE MapRace \/ UseAfterDestruction \/ \E e \in Exchange : ReceiverTerminates(e)
  BY <1>5 DEF MapRace, UseAfterDestruction, ReceiverTerminates
<1> QED
  BY <1>1, <1>2, <1>3, <1>4, <1>5 DEF Next

(* A reply that ReplyCallback makes is real.                               *)
LEMMA ReplyIsReal ==
  ASSUME Basic, TextInv, NEW e \in Exchange, NEW m \in Msg, ReplyCallback(e, m),
         NEW t \in ReplyText(e, m)
  PROVE  Real([re |-> m, no |-> calls, text |-> t])
<1>1. exchangeReply[e] \in {"last", "earlier"}
  BY DEF ReplyCallback, Basic, CallbackPlace, TextInv, OldTextMeansFailure
<1>2. Wants[m] = "invalid" <=> t = "invalid"
  BY <1>1 DEF ReplyText
<1>3. t = "empty" => MapDestroyed
  BY <1>1 DEF ReplyText
<1> QED
  BY <1>2, <1>3 DEF Real, Over

(* Replies stay real, those on their way included.                         *)
LEMMA RepliesStep ==
  Basic /\ TextInv /\ PacketsAreReal /\ RepliesAreReal /\ [Next]_vars
     => PacketsAreReal' /\ RepliesAreReal'
<1> SUFFICES ASSUME Basic, TextInv, PacketsAreReal, RepliesAreReal, [Next]_vars
             PROVE  PacketsAreReal' /\ RepliesAreReal'
  OBVIOUS
<1>1. /\ packet \in [Sender -> Packet \cup {NoPacket}] /\ wire \subseteq Packet
      /\ \A s \in Sender : spc[s] # "idle" => packet[s] \in Packet
  BY DEF Basic, TypeOK, SenderTypeOK, Sending
<1>2. \A p : Real(p) => Real(p)'
  BY OverIsFinal DEF Real
<1>3. \A p \in wire \ Msg : Real(p)
  BY DEF RepliesAreReal, Real, Over
<1>4. SUFFICES PacketsAreReal' /\ \A p \in wire' \ Msg : Real(p)'
  BY DEF RepliesAreReal, Real, Over
<1>5. ASSUME NEW s \in Sender, packet' = packet, wire' \subseteq wire \cup {packet[s]},
             packet[s] \in Packet
      PROVE  PacketsAreReal' /\ \A p \in wire' \ Msg : Real(p)'
  BY <1>1, <1>2, <1>3, <1>5, TestAssumption DEF PacketsAreReal
<1>6. ASSUME UNCHANGED <<packet, wire>>
      PROVE  PacketsAreReal' /\ \A p \in wire' \ Msg : Real(p)'
  BY <1>2, <1>3, <1>6 DEF PacketsAreReal
<1>7. ASSUME NEW s \in Sender, SenderStep(s)
      PROVE  PacketsAreReal' /\ \A p \in wire' \ Msg : Real(p)'
  <2>1. CASE spc[s] = "send"
    BY <1>1, <1>5, <1>7, <2>1
    DEF SenderStep, OpenSucceeds, OpenFails, SendSucceeds, SendFails, CloseSucceeds,
        CloseFails, HandlerClose, HandlerCloseThrows, Goto
  <2>2. CASE spc[s] # "send"
    BY <1>6, <1>7, <2>2
    DEF SenderStep, OpenSucceeds, OpenFails, SendSucceeds, SendFails, CloseSucceeds,
        CloseFails, HandlerClose, HandlerCloseThrows, Goto
  <2> QED
    BY <2>1, <2>2
<1>8. CASE (\E p \in wire : Accept(p)) \/ UNCHANGED senderVars
  BY <1>6, <1>8 DEF Accept, senderVars
<1>9. ASSUME NEW s \in Sender, NEW p, CallSend(s, p), p \in Msg \/ Real(p)
      PROVE  PacketsAreReal' /\ \A q \in wire' \ Msg : Real(q)'
  BY <1>1, <1>2, <1>3, <1>9 DEF PacketsAreReal, CallSend
<1>10. ASSUME NEW e \in Exchange, NEW m \in Msg, ReplyCallback(e, m)
       PROVE  PacketsAreReal' /\ \A p \in wire' \ Msg : Real(p)'
  <2>1. PICK t \in ReplyText(e, m) : CallSend("callback", [re |-> m, no |-> calls, text |-> t])
    BY <1>10 DEF ReplyCallback
  <2>2. Real([re |-> m, no |-> calls, text |-> t])
    BY <1>10, ReplyIsReal
  <2> QED
    BY <1>9, <2>1, <2>2, TestAssumption
<1> QED
  BY <1>7, <1>8, <1>9, <1>10, EveryMove, TestAssumption DEF SenderMove
-----------------------------------------------------------------------------
(* All of this holds at the start.                                         *)
LEMMA InitHolds == Init => /\ Basic /\ TextInv /\ SendStatusIsTrue
                           /\ PacketsAreReal /\ RepliesAreReal
<1> SUFFICES ASSUME Init
             PROVE  Basic /\ TextInv /\ SendStatusIsTrue /\ PacketsAreReal /\ RepliesAreReal
  OBVIOUS
<1> USE TestAssumption, SenderAssumption
    DEF Init, SenderInit, Receivers!Init, Receivers!NoCall
<1>1. SenderTypeOK /\ Sending
  BY DEF SenderTypeOK, Sending
<1>2. exchangeReply \in [Exchange -> Text \cup {"none"}] /\ failed \in [Exchange -> BOOLEAN]
  BY DEF Text
<1>3. kind \in [Exchange -> Kinds \cup {"none"}] /\ done \in [Msg -> Kinds \cup {"none"}]
  OBVIOUS
<1>4. handled \in [Exchange -> SUBSET Msg] /\ acked \in [Exchange -> SUBSET Msg]
  OBVIOUS
<1>5. CallbackPlace /\ MenuPlace
  BY DEF CallbackPlace, MenuPlace
<1>6. TypeOK
  <2>1. calls \in 0 .. MaxCalls /\ items \in 0 .. MaxItems
    OBVIOUS
  <2>2. /\ call \in {<<>>} \cup Exchange \X Msg /\ jammed \in BOOLEAN /\ rows \in SUBSET Msg
        /\ target \in Exchange \cup {NoExchange} /\ choice \in Kinds \cup {"none"}
        /\ cpc \in {"none", "send"} \cup Kinds
    OBVIOUS
  <2>3. mpc = "menu"
    OBVIOUS
  <2> QED
    BY <1>1, <1>2, <1>3, <1>4, <2>1, <2>2, <2>3, Zenon DEF TypeOK
<1>7. TextInv
  BY DEF TextInv, Entries, OldTextMeansFailure
<1>8. wire = {} /\ \A s \in Sender : packet[s] = NoPacket
  OBVIOUS
<1>9. SendStatusIsTrue
  BY <1>8 DEF SendStatusIsTrue
<1>10. RepliesAreReal
  BY <1>8 DEF RepliesAreReal
<1>11. PacketsAreReal
  BY <1>8, Zenon DEF PacketsAreReal, TestAssumption, SenderAssumption
<1> QED
  BY <1>1, <1>5, <1>6, <1>7, <1>9, <1>10, <1>11 DEF Basic

(* Types and places hold in every state.                                   *)
LEMMA BasicHolds == Spec => []Basic
BY InitHolds, BasicStep, PTL DEF Spec

(* The program's state is well typed.                                      *)
THEOREM TypeCorrect == Spec => []TypeOK
BY BasicHolds, PTL DEF Basic

(* QPID_SUCCESS of a send means that the broker has the message, whichever *)
(* threads send at a time and whatever fails (QPIDSender.cpp:9-32).        *)
THEOREM SendStatusHolds == Spec => []SendStatusIsTrue
<1>1. Basic /\ SendStatusIsTrue /\ [Next]_vars => SendStatusIsTrue'
  BY EveryMove, SendStatusStep DEF Basic, TypeOK
<1> QED
  BY <1>1, InitHolds, BasicHolds, PTL DEF Spec

(* So do the entries.                                                      *)
LEMMA TextHolds == Spec => []TextInv
BY InitHolds, BasicHolds, TextStep, PTL DEF Spec

(* The selected text is the one of the last item, or a start or a stop has *)
(* failed since (cm_qpid.cpp:116).                                         *)
THEOREM TextIsKept == Spec => []OldTextMeansFailure
BY TextHolds, PTL DEF TextInv

(* Before the exit no callback sends a text nobody has entered             *)
(* (cm_qpid.cpp:15-20).                                                    *)
THEOREM RepliesHold == Spec => []RepliesAreReal
BY InitHolds, BasicHolds, TextHolds, RepliesStep, PTL DEF Spec
-----------------------------------------------------------------------------
(* The receivers, as MessageDelivery sees them *)

(* What touches neither the receivers nor the broker does not show.        *)
LEMMA Unseen ==
  ASSUME UNCHANGED <<deliveryVars, kind, accepted>>
  PROVE  UNCHANGED Receivers!vars
BY DEF Receivers!vars, deliveryVars

(* A message that the broker takes is published to its exchange.           *)
LEMMA AcceptPublishes ==
  ASSUME NEW m \in Msg, Accept(m), UNCHANGED <<deliveryVars, kind>>
  PROVE  Receivers!Publish(To[m], m)
<1> DEFINE sent == [e \in Exchange |-> {n \in Msg \cap accepted : To[n] = e}]
<1>1. m \notin accepted /\ accepted' = accepted \cup {m} /\ To[m] \in Exchange
  BY TestAssumption DEF Accept
<1>2. \A x \in Exchange : m \notin sent[x]
  BY <1>1
<1>3. sent' = [sent EXCEPT ![To[m]] = @ \cup {m}]
  <2>1. \A e \in Exchange : {n \in Msg \cap accepted' : To[n] = e}
                               = IF e = To[m] THEN sent[e] \cup {m} ELSE sent[e]
    BY <1>1
  <2> QED
    BY <1>1, <2>1
<1> QED
  BY <1>2, <1>3 DEF Receivers!Publish, deliveryVars

(* Every step of the program is one of the receivers, or does not show.    *)
LEMMA ReceiversStep == Basic /\ [Next]_vars => [Receivers!Next]_(Receivers!vars)
<1> SUFFICES ASSUME Basic, [Next]_vars PROVE [Receivers!Next]_(Receivers!vars)
  OBVIOUS
<1>1. CASE Input \/ SendReturns \/ StartFails \/ StopInvalid
  BY <1>1, Unseen DEF Input, Exit, SendItem, CallSend, StopItem, ReceiveItem, ReplyItem,
     SendReturns, StartFails, StopInvalid, senderVars
<1>2. CASE StartSucceeds
  <2>1. target \in Exchange /\ Receivers!Listen(target)
    BY <1>2 DEF StartSucceeds, At, Basic, MenuPlace
  <2> QED
    BY <2>1 DEF Receivers!Next, Receivers!Listen
<1>3. CASE StopSucceeds \/ StopFails
  <2>1. target \in Exchange /\ Receivers!Unlisten(target)
    BY <1>3 DEF StopSucceeds, StopFails, Unlisten, At, Basic, MenuPlace
  <2> QED
    BY <2>1 DEF Receivers!Next, Receivers!Unlisten
<1>4. ASSUME NEW e \in Exchange, ExitReceiver(e) PROVE Receivers!Next
  <2>1. Receivers!Unlisten(e)
    BY <1>4 DEF ExitReceiver, Unlisten
  <2> QED
    BY <2>1 DEF Receivers!Next
<1>5. CASE ExitDatabase \/ ExitDone \/ StartThrows \/ Hang
  BY <1>5, Unseen DEF ExitDatabase, ExitDone, StartThrows, Hang, senderVars
<1>6. ASSUME NEW e \in Exchange, NEW m \in Msg,
             \/ CallbackBegins(e, m) \/ PrintCallback(e, m) \/ ReplySent(e, m)
             \/ ReplyThrows(e, m) \/ PersistCallback(e, m) \/ Acknowledged(e, m)
      PROVE  Receivers!Next
  <2>1. \/ Receivers!Begin(e, m) \/ Receivers!Return(e, m) \/ Receivers!Throw(e, m)
        \/ Receivers!Ack(e, m)
    BY <1>6 DEF CallbackBegins, PrintCallback, ReplySent, ReplyThrows, PersistCallback,
       CallbackEnds, Acknowledged
  <2> QED
    BY <2>1 DEF Receivers!Next
<1>7. ASSUME NEW e \in Exchange, NEW m \in Msg, ReplyCallback(e, m)
      PROVE  [Receivers!Next]_(Receivers!vars)
  BY <1>7, Unseen DEF ReplyCallback, CallSend
<1>8. ASSUME NEW s \in Sender, SenderRuns(s) PROVE [Receivers!Next]_(Receivers!vars)
  BY <1>8, Unseen DEF SenderRuns, SenderStep, OpenSucceeds, OpenFails, SendSucceeds, SendFails,
     CloseSucceeds, CloseFails, HandlerClose, HandlerCloseThrows, menuVars
<1>9. CASE BrokerAccepts
  <2>1. PICK p \in wire : Accept(p) /\ UNCHANGED <<deliveryVars, kind>>
    BY <1>9 DEF BrokerAccepts, menuVars
  <2>2. CASE p \in Msg
    <3>1. Receivers!Publish(To[p], p) /\ To[p] \in Exchange
      BY <2>1, <2>2, AcceptPublishes, TestAssumption
    <3> QED
      BY <2>2, <3>1 DEF Receivers!Next
  <2>3. CASE p \notin Msg
    <3>1. Msg \cap accepted' = Msg \cap accepted
      BY <2>1, <2>3 DEF Accept
    <3> QED
      BY <2>1, <3>1 DEF Receivers!vars, deliveryVars
  <2> QED
    BY <2>2, <2>3
<1>10. CASE \/ MapRace \/ UseAfterDestruction \/ UNCHANGED vars
            \/ \E e \in Exchange : ReceiverTerminates(e)
  BY <1>10, Unseen DEF MapRace, UseAfterDestruction, ReceiverTerminates, vars, menuVars,
     senderVars
<1> QED
  BY <1>1, <1>2, <1>3, <1>4, <1>5, <1>6, <1>7, <1>8, <1>9, <1>10
  DEF Next, CallReturns, ExitStep, MainFailure, CallbackStep

(* The program is one that MessageDelivery describes, with its own sends   *)
(* as the messages that are published (cm_qpid.cpp; QPIDMessaging.h).      *)
THEOREM ProgramUsesReceivers == Spec => Receivers!Spec
<1>1. Init => Receivers!Init
  BY DEF Init
<1> QED
  BY <1>1, BasicHolds, ReceiversStep, PTL DEF Spec, Receivers!Spec
-----------------------------------------------------------------------------
(* The end of the process *)

(* Who is in a send call: the menu in a send item, a callback that replies.*)
Busy == /\ call = <<>> <=> cpc = "none"
        /\ spc["callback"] # "idle" => cpc = "send"
        /\ spc["menu"] # "idle" => mpc \in {"send", "aborted"}
        /\ \A s \in Sender \ {"menu", "callback"} : spc[s] = "idle"
        /\ mpc = "ended" => \A e \in Exchange : kind[e] = "none"

(* A step of a sender that is in a call leaves the other senders alone.    *)
LEMMA SenderFrame ==
  ASSUME SenderTypeOK, NEW s \in Sender, SenderStep(s)
  PROVE  spc[s] # "idle" /\ \A r \in Sender \ {s} : spc'[r] = spc[r]
BY DEF SenderTypeOK, SenderStep, OpenSucceeds, OpenFails, SendSucceeds, SendFails,
   CloseSucceeds, CloseFails, HandlerClose, HandlerCloseThrows, Goto

(* Threads enter and leave the send calls where Busy says.                 *)
LEMMA BusyStep == Basic /\ Busy /\ [Next]_vars => Busy'
<1> SUFFICES ASSUME Basic, Busy, [Next]_vars PROVE Busy'
  OBVIOUS
<1>0. /\ kind \in [Exchange -> Kinds \cup {"none"}]
      /\ SenderTypeOK /\ spc \in [Sender -> {"idle", "open", "send", "close", "handler"}]
      /\ "menu" \in Sender /\ "callback" \in Sender
      /\ MenuPlace
  BY TestAssumption DEF Basic, TypeOK, SenderTypeOK
<1> USE <1>0 DEF Busy, MenuPlace, Kinds, At, Choose, Alive
<1>1. CASE Exit \/ \E e \in Exchange : StopItem(e) \/ ReplyItem(e)
  BY <1>1 DEF Exit, StopItem, ReplyItem, deliveryVars, callbackVars, senderVars
<1>2. ASSUME NEW e \in Exchange, NEW k \in {"print", "persist"}, ReceiveItem(e, k)
      PROVE  Busy'
  BY <1>2 DEF ReceiveItem, deliveryVars, callbackVars, senderVars
<1>3. ASSUME NEW m \in Msg, SendItem(m) PROVE Busy'
  BY <1>3 DEF SendItem, CallSend, Goto, deliveryVars, callbackVars
<1>4. CASE SendReturns \/ StartFails \/ StopInvalid
  BY <1>4 DEF SendReturns, StartFails, StopInvalid, deliveryVars, callbackVars, senderVars
<1>5. CASE StartSucceeds
  BY <1>5, StartFacts DEF StartSucceeds, deliveryVars, callbackVars, senderVars
<1>6. CASE StopSucceeds \/ StopFails
  BY <1>6, StopFacts DEF StopSucceeds, StopFails, Unlisten, deliveryVars, callbackVars,
                         senderVars
<1>7. ASSUME NEW e \in Exchange, ExitReceiver(e) PROVE Busy'
  <2>1. UNCHANGED deliveryVars
    BY <1>7, UnlistenFacts DEF ExitReceiver, Unlisten
  <2> QED
    BY <1>7, <2>1 DEF ExitReceiver, Unlisten, deliveryVars, callbackVars, senderVars
<1>8. CASE ExitDatabase \/ ExitDone \/ StartThrows \/ Hang
  BY <1>8 DEF ExitDatabase, ExitDone, StartThrows, Hang, deliveryVars, callbackVars, senderVars
<1>9. ASSUME NEW e \in Exchange, NEW m \in Msg, CallbackBegins(e, m) PROVE Busy'
  <2>1. kind[e] # "none" /\ call' = <<e, m>> /\ call = <<>>
    BY <1>9, BeginFacts DEF CallbackBegins
  <2>2. cpc' = kind[e] /\ Alive /\ UNCHANGED <<menuVars, senderVars>>
    BY <1>9 DEF CallbackBegins
  <2>3. call' # <<>>
    BY <2>1
  <2> QED
    BY <2>1, <2>2, <2>3 DEF menuVars, senderVars
<1>10. ASSUME NEW e \in Exchange, NEW m \in Msg,
              PrintCallback(e, m) \/ ReplySent(e, m) \/ PersistCallback(e, m)
       PROVE  Busy'
  <2>1. call' = <<>> /\ cpc' = "none" /\ UNCHANGED <<menuVars, senderVars>>
    BY <1>10, EndFacts DEF Basic, PrintCallback, ReplySent, PersistCallback, CallbackEnds
  <2>2. spc["callback"] = "idle"
    BY <1>10 DEF PrintCallback, ReplySent, PersistCallback
  <2> QED
    BY <2>1, <2>2 DEF menuVars, senderVars
<1>11. ASSUME NEW e \in Exchange, NEW m \in Msg, ReplyCallback(e, m) PROVE Busy'
  BY <1>11 DEF ReplyCallback, CallSend, Goto, deliveryVars
<1>12. ASSUME NEW e \in Exchange, NEW m \in Msg, ReplyThrows(e, m) PROVE Busy'
  <2>1. call' = <<>>
    BY <1>12, ThrowFacts DEF ReplyThrows
  <2> QED
    BY <1>12, <2>1 DEF ReplyThrows, menuVars, senderVars
<1>13. ASSUME NEW e \in Exchange, NEW m \in Msg, Acknowledged(e, m) PROVE Busy'
  BY <1>13, AckFacts DEF Acknowledged, menuVars, callbackVars, senderVars
<1>14. ASSUME NEW s \in Sender, SenderRuns(s) PROVE Busy'
  BY <1>14, SenderFrame DEF SenderRuns, deliveryVars, menuVars, callbackVars
<1>15. CASE BrokerAccepts
  BY <1>15 DEF BrokerAccepts, Accept, deliveryVars, menuVars, callbackVars
<1>16. CASE MapRace \/ UseAfterDestruction
  BY <1>16 DEF MapRace, UseAfterDestruction, LookingUp, MapDestroyed, DatabaseDestroyed,
               deliveryVars, callbackVars, senderVars
<1>17. ASSUME NEW e \in Exchange, ReceiverTerminates(e) PROVE Busy'
  <2>1. mpc' = "aborted" /\ UNCHANGED <<call, cpc, spc>>
    BY <1>17 DEF ReceiverTerminates, deliveryVars, callbackVars, senderVars
  <2> QED
    BY <2>1
<1>18. CASE UNCHANGED vars
  BY <1>18 DEF vars, deliveryVars, menuVars, callbackVars, senderVars
<1> QED
  BY <1>1, <1>2, <1>3, <1>4, <1>5, <1>6, <1>7, <1>8, <1>9, <1>10, <1>11, <1>12, <1>13,
     <1>14, <1>15, <1>16, <1>17, <1>18
  DEF Next, Input, CallReturns, ExitStep, MainFailure, CallbackStep

(* The process ends without a thread in a callback or in a send call       *)
(* (cm_qpid.cpp:4-6; QPIDReceiver.cpp:68).                                 *)
THEOREM EndQuiet == Spec => []EndIsQuiet
<1>1. Init => Busy
  BY TestAssumption DEF Init, Busy, SenderInit, Receivers!Init, Receivers!NoCall
<1>2. Basic /\ Busy => EndIsQuiet
  <2> SUFFICES ASSUME Basic, Busy, mpc = "ended"
               PROVE  call = <<>> /\ \A s \in Sender : spc[s] = "idle"
    BY DEF EndIsQuiet
  <2>1. call = <<>>
    BY DEF Busy, Basic, TypeOK, CallbackPlace
  <2> QED
    BY <2>1 DEF Busy
<1> QED
  BY <1>1, <1>2, BasicHolds, BusyStep, PTL DEF Spec
-----------------------------------------------------------------------------
(* What MessageDelivery promises, for the program.                         *)
Promised == INSTANCE MessageDeliveryProofs
            WITH listening <- {e \in Exchange : kind[e] # "none"},
                 published <- [e \in Exchange |-> {m \in Msg \cap accepted : To[m] = e}]

(* All that follows from MessageDelivery holds of the program.             *)
LEMMA DeliveryIsPromised == Spec => Promised!Spec
<1>1. Receivers!Init => Promised!Init
  BY DEF Receivers!Init, Promised!Init, Receivers!NoCall, Promised!NoCall
<1>2. [Receivers!Next]_(Receivers!vars) => [Promised!Next]_(Promised!vars)
  BY DEF Receivers!Next, Promised!Next, Receivers!vars, Promised!vars,
     Receivers!NoCall, Promised!NoCall, Receivers!Publish, Promised!Publish,
     Receivers!Listen, Promised!Listen, Receivers!Unlisten, Promised!Unlisten,
     Receivers!Begin, Promised!Begin, Receivers!Return, Promised!Return,
     Receivers!Throw, Promised!Throw, Receivers!Ack, Promised!Ack
<1> QED
  BY <1>1, <1>2, ProgramUsesReceivers, PTL DEF Receivers!Spec, Promised!Spec

(* What callbacks have handled, and what was acknowledged, is what the     *)
(* menu's send calls left with the broker for that exchange.               *)
HandledWasSent ==
    \A e \in Exchange : /\ acked[e] \subseteq handled[e]
                        /\ handled[e] \subseteq {m \in Msg \cap accepted : To[m] = e}

(* No message appears from nowhere or on another exchange, from the send   *)
(* item to the acknowledgement (QPIDSender.cpp:22; QPIDReceiver.cpp:24-29).*)
THEOREM HandledSent == Spec => []HandledWasSent
<1>1. Promised!InOrder => HandledWasSent
  BY DEF Promised!InOrder, HandledWasSent
<1> QED
  BY <1>1, DeliveryIsPromised, Promised!DeliveryIsLegal, PTL

(* A callback whose reply throws is the last one: nothing is handled or    *)
(* persisted after it, on no exchange.                                     *)
ThrowIsLast == jammed => jammed' /\ call' = <<>> /\ UNCHANGED <<handled, rows, done>>

(* Only the return of a callback changes the rows and done.                *)
LEMMA OnlyCallbacksRecord == Next /\ call = <<>> => UNCHANGED <<rows, done>>
<1> SUFFICES ASSUME Next, call = <<>> PROVE UNCHANGED <<rows, done>>
  OBVIOUS
<1>1. CASE Input \/ CallReturns
  BY <1>1 DEF Input, Exit, SendItem, StopItem, ReceiveItem, ReplyItem, CallReturns,
     SendReturns, StartSucceeds, StartFails, StopInvalid, callbackVars
<1>2. CASE StopSucceeds \/ ExitStep \/ MainFailure
  BY <1>2 DEF StopSucceeds, Unlisten, ExitStep, ExitDatabase, ExitDone, ExitReceiver,
     MainFailure, StartThrows, StopFails, Hang, callbackVars
<1>3. ASSUME NEW e \in Exchange, NEW m \in Msg,
             PrintCallback(e, m) \/ ReplySent(e, m) \/ PersistCallback(e, m)
      PROVE  FALSE
  <2>1. Receivers!Return(e, m)
    BY <1>3 DEF PrintCallback, ReplySent, PersistCallback, CallbackEnds
  <2>2. call = <<e, m>>
    BY <2>1, ReturnFacts
  <2> QED
    BY <2>2
<1>4. ASSUME NEW e \in Exchange, NEW m \in Msg,
             \/ CallbackBegins(e, m) \/ ReplyCallback(e, m) \/ ReplyThrows(e, m)
             \/ Acknowledged(e, m)
      PROVE  UNCHANGED <<rows, done>>
  BY <1>4 DEF CallbackBegins, ReplyCallback, ReplyThrows, Acknowledged, callbackVars
<1>5. CASE (\E s \in Sender : SenderRuns(s)) \/ BrokerAccepts
  BY <1>5 DEF SenderRuns, BrokerAccepts, callbackVars
<1>6. CASE MapRace \/ UseAfterDestruction \/ \E e \in Exchange : ReceiverTerminates(e)
  BY <1>6 DEF MapRace, UseAfterDestruction, ReceiverTerminates, callbackVars
<1> QED
  BY <1>1, <1>2, <1>3, <1>4, <1>5, <1>6 DEF Next, CallbackStep

(* The exception that leaves a reply keeps mMutex locked, whatever the     *)
(* menu stops and starts afterwards (cm_qpid.cpp:17-20;                    *)
(* QPIDReceiver.cpp:25-28; QPIDSender.cpp:27).                             *)
THEOREM ThrowEndsCallbacks == Spec => [][ThrowIsLast]_vars
<1>1. Spec => [][Promised!StepIsLegal]_(Promised!vars) /\ []Promised!CallIsLegal
  BY DeliveryIsPromised, Promised!CallbacksAreLegal, Promised!DeliveryIsLegal, PTL
<1>2. Promised!CallIsLegal /\ [Promised!StepIsLegal]_(Promised!vars) /\ [Next]_vars
         => [ThrowIsLast]_vars
  <2> SUFFICES ASSUME Promised!CallIsLegal, [Promised!StepIsLegal]_(Promised!vars), Next, jammed
               PROVE  jammed' /\ call' = <<>> /\ UNCHANGED <<handled, rows, done>>
    BY DEF ThrowIsLast
  <2>1. call = <<>>
    BY DEF Promised!CallIsLegal, Promised!NoCall
  <2>2. jammed' /\ call' = <<>> /\ handled' = handled
    BY <2>1 DEF Promised!StepIsLegal, Promised!vars, Promised!NoCall
  <2>3. UNCHANGED <<rows, done>>
    BY <2>1, OnlyCallbacksRecord
  <2> QED
    BY <2>2, <2>3
<1> QED
  BY <1>1, <1>2, PTL DEF Spec
=============================================================================
