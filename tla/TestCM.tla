------------------------------- MODULE TestCM -------------------------------
(***************************************************************************)
(* The test program: the menu of test/src/cm_qpid.cpp, its callbacks and   *)
(* the end of the process.  It composes the senders with the receivers and *)
(* uses the latter through MessageDelivery, which QPIDMessaging            *)
(* implements; what a menu message is published as is what its sender left *)
(* with the broker.  The database client is used for one call, whose       *)
(* status is true (PGClient).                                              *)
(*                                                                         *)
(* mpc is the place of the main thread:                                    *)
(*   menu        waiting for input                                         *)
(*   send        in qpidSendMessage or qpidSendInvalidMessage              *)
(*   start       in qpidReceiveMessages                                    *)
(*   stop        in qpidReceiveStop                                        *)
(*   hung        in a stop that never returns                              *)
(*   database    at exit, exchangeReply destroyed, postgresClient next     *)
(*   receivers   at exit, in ~QPIDMessaging                                *)
(*   stuck       in a ~QPIDMessaging that never returns                    *)
(*   ended       the process has ended                                     *)
(*   aborted     an exception left main, a receiver's thread or a          *)
(*               destructor: std::terminate                                *)
(*   undefined   a data race or the use of a destroyed object; nothing is  *)
(*               said about what follows                                   *)
(***************************************************************************)
EXTENDS QPIDSender, Naturals

CONSTANTS Exchange,   \* the addresses known to the broker
          NoExchange, \* the target of no item
          Msg,        \* the messages of the menu
          To,         \* the exchange each is sent to
          Wants,      \* what the reply callback finds in it
          MaxCalls,   \* bound: how many callbacks there are
          MaxItems    \* bound: the items a user chooses, the exit among them

(* A reply message is the one that the user entered last for its exchange, *)
(* an earlier one, or the empty one that operator[] makes up.              *)
Text == {"last", "earlier", "empty"}

Reply == [re : Msg, no : 1 .. MaxCalls, text : Text \cup {"invalid"}]

ASSUME TestAssumption ==
    /\ {"menu", "callback"} \subseteq Sender
    /\ Packet = Msg \cup Reply
    /\ To \in [Msg -> Exchange]
    /\ Wants \in [Msg -> {"nothing", "text", "invalid"}]
    /\ NoExchange \notin Exchange
    /\ MaxCalls \in Nat /\ MaxItems \in Nat

VARIABLES handled, acked, call, jammed,  \* those of MessageDelivery
          mpc,            \* the place of the main thread
          items,          \* how many items were chosen
          target,         \* the exchange of the item it is in
          choice,         \* the callback of the item it is in
          kind,           \* the callback of the receiver on each exchange
          exchangeReply,  \* the map from exchanges to reply messages
          cpc,            \* the place of the thread that is in a callback
          calls,          \* how many callbacks there were
          rows,           \* the messages in the database
          failed,         \* history: a start or stop failed since the last erase
          done            \* history: the callback that last returned for it

deliveryVars == <<handled, acked, call, jammed>>
menuVars == <<mpc, items, target, choice, kind, exchangeReply, failed>>
callbackVars == <<cpc, calls, rows, done>>
vars == <<senderVars, deliveryVars, menuVars, callbackVars>>

Receivers == INSTANCE MessageDelivery
             WITH listening <- {e \in Exchange : kind[e] # "none"},
                  published <- [e \in Exchange |-> {m \in Msg \cap accepted : To[m] = e}]

Kinds == {"print", "reply", "persist"}

TypeOK == /\ SenderTypeOK
          /\ handled \in [Exchange -> SUBSET Msg]
          /\ acked \in [Exchange -> SUBSET Msg]
          /\ call \in {<<>>} \cup Exchange \X Msg
          /\ jammed \in BOOLEAN
          /\ mpc \in {"menu", "send", "start", "stop", "hung", "database", "receivers",
                      "stuck", "ended", "aborted", "undefined"}
          /\ items \in 0 .. MaxItems
          /\ target \in Exchange \cup {NoExchange}
          /\ choice \in Kinds \cup {"none"}
          /\ kind \in [Exchange -> Kinds \cup {"none"}]
          /\ exchangeReply \in [Exchange -> Text \cup {"none"}]
          /\ cpc \in {"none", "send"} \cup Kinds
          /\ calls \in 0 .. MaxCalls
          /\ rows \in SUBSET Msg
          /\ failed \in [Exchange -> BOOLEAN]
          /\ done \in [Msg -> Kinds \cup {"none"}]

Init == /\ SenderInit
        /\ mpc = "menu"
        /\ items = 0
        /\ target = NoExchange
        /\ choice = "none"
        /\ kind = [e \in Exchange |-> "none"]
        /\ Receivers!Init
        /\ exchangeReply = [e \in Exchange |-> "none"]
        /\ cpc = "none"
        /\ calls = 0
        /\ rows = {}
        /\ failed = [e \in Exchange |-> FALSE]
        /\ done = [m \in Msg |-> "none"]

At(from, to) == mpc = from /\ mpc' = to /\ items' = items

Choose(to) == /\ mpc = "menu" /\ mpc' = to
              /\ items < MaxItems /\ items' = items + 1

Alive == mpc \notin {"ended", "aborted", "undefined"}
MapDestroyed == mpc \in {"database", "receivers", "stuck"}
DatabaseDestroyed == mpc \in {"receivers", "stuck"}
-----------------------------------------------------------------------------
(* The items of the menu.  The items that do something four or eight times *)
(* are as many single ones.                                                *)

SendItem(m) == /\ Choose("send")
               /\ CallSend("menu", m)
               /\ UNCHANGED <<target, choice, kind, exchangeReply, failed,
                              deliveryVars, callbackVars>>

SendReturns == /\ spc["menu"] = "idle"
               /\ At("send", IF ret["menu"] = "THROWS" THEN "aborted" ELSE "menu")
               /\ UNCHANGED <<target, choice, kind, exchangeReply, failed,
                              senderVars, deliveryVars, callbackVars>>

(* An item that starts a receiver which prints or persists.                *)
ReceiveItem(e, k) == /\ Choose("start")
                     /\ target' = e
                     /\ choice' = k
                     /\ UNCHANGED <<kind, exchangeReply, failed, senderVars,
                                    deliveryVars, callbackVars>>

(* emplace (l. 116) keeps an entry that is there, and what was entered     *)
(* last before is then an earlier text.                                    *)
ReplyItem(e) ==
    /\ Choose("start")
    /\ target' = e
    /\ choice' = "reply"
    /\ exchangeReply' = [exchangeReply EXCEPT ![e] = CASE @ = "none" -> "last"
                                                      [] @ = "last" -> "earlier"
                                                      [] OTHER -> @]
    /\ UNCHANGED <<kind, failed, senderVars, deliveryVars, callbackVars>>

Return == target' = NoExchange /\ choice' = "none"

StartSucceeds == /\ At("start", "menu")
                 /\ kind' = [kind EXCEPT ![target] = choice]
                 /\ UNCHANGED <<exchangeReply, failed, senderVars, callbackVars>>
                 /\ Receivers!Listen(target)
                 /\ Return

(* QPID_ALREADY, or QPID_ERROR; the entry of l. 116 stays.                 *)
StartFails == /\ At("start", "menu")
              /\ failed' = [failed EXCEPT ![target] = @ \/ choice = "reply"]
              /\ Return
              /\ UNCHANGED <<kind, exchangeReply, senderVars, deliveryVars,
                             callbackVars>>

(* A close throws out of qpidReceiveMessages or out of ~QPIDReceiver.      *)
StartThrows == /\ CloseMayThrow
               /\ At("start", "aborted")
               /\ kind[target] = "none"
               /\ UNCHANGED <<target, choice, kind, exchangeReply, failed,
                              senderVars, deliveryVars, callbackVars>>

(* Faulty variant of StopItem: the entry is erased before the stop.        *)
StopItemErases(e) == /\ Choose("stop")
                     /\ target' = e
                     /\ exchangeReply' = [exchangeReply EXCEPT ![e] = "none"]
                     /\ UNCHANGED <<choice, kind, failed, senderVars, deliveryVars,
                                    callbackVars>>

StopItem(e) == /\ Choose("stop")
               /\ target' = e
               /\ UNCHANGED <<choice, kind, exchangeReply, failed, senderVars,
                              deliveryVars, callbackVars>>

(* QPID_INVALID_PARAM                                                      *)
StopInvalid == /\ At("stop", "menu")
               /\ kind[target] = "none"
               /\ Return
               /\ UNCHANGED <<kind, exchangeReply, failed, senderVars,
                              deliveryVars, callbackVars>>

(* Faulty variant of Unlisten: the thread is detached.                     *)
UnlistenAtOnce(e) == /\ kind[e] # "none"
                     /\ kind' = [kind EXCEPT ![e] = "none"]
                     /\ UNCHANGED <<senderVars, callbackVars, deliveryVars>>

(* The receiver of e ends, after the callback it is in.                    *)
Unlisten(e) == /\ kind' = [kind EXCEPT ![e] = "none"]
               /\ UNCHANGED <<senderVars, callbackVars>>
               /\ Receivers!Unlisten(e)

(* Faulty variant of StopSucceeds: the entry stays.                        *)
StopKeepsEntry == /\ At("stop", "menu")
                  /\ Unlisten(target)
                  /\ failed' = [failed EXCEPT ![target] = FALSE]
                  /\ Return
                  /\ UNCHANGED exchangeReply

(* QPID_SUCCESS: the entry goes when the receiver is gone (l. 148-150).    *)
StopSucceeds == /\ At("stop", "menu")
                /\ Unlisten(target)
                /\ exchangeReply' = [exchangeReply EXCEPT ![target] = "none"]
                /\ failed' = [failed EXCEPT ![target] = FALSE]
                /\ Return

(* QPID_ERROR: a close has thrown, the thread has ended all the same.      *)
StopFails == /\ CloseMayThrow
             /\ At("stop", "menu")
             /\ Unlisten(target)
             /\ failed' = [failed EXCEPT ![target] = TRUE]
             /\ Return
             /\ UNCHANGED exchangeReply

(* A close has thrown and the join waits for a thread that nobody wakes,   *)
(* in the stop or in the destructor.                                       *)
Hang == /\ CloseMayThrow
        /\ \/ At("stop", "hung") /\ kind[target] # "none"
           \/ At("receivers", "stuck") /\ \E e \in Exchange : kind[e] # "none"
        /\ UNCHANGED <<target, choice, kind, exchangeReply, failed,
                       senderVars, deliveryVars, callbackVars>>

(* The end of the process: exchangeReply is destroyed first, as it was     *)
(* constructed last, then postgresClient, then qpidMessagingClient.        *)
Exit == /\ Choose("database")
        /\ UNCHANGED <<target, choice, kind, exchangeReply, failed,
                       senderVars, deliveryVars, callbackVars>>

ExitDatabase == /\ At("database", "receivers")
                /\ UNCHANGED <<target, choice, kind, exchangeReply, failed,
                               senderVars, deliveryVars, callbackVars>>

ExitReceiver(e) == /\ At("receivers", "receivers")
                   /\ Unlisten(e)
                   /\ UNCHANGED <<target, choice, exchangeReply, failed>>

ExitDone == /\ At("receivers", "ended")
            /\ \A e \in Exchange : kind[e] = "none"
            /\ UNCHANGED <<target, choice, kind, exchangeReply, failed,
                           senderVars, deliveryVars, callbackVars>>
-----------------------------------------------------------------------------
(* The callbacks, each on the thread of its receiver                       *)

CallbackBegins(e, m) == /\ Alive
                        /\ calls < MaxCalls
                        /\ calls' = calls + 1
                        /\ cpc' = kind[e]
                        /\ UNCHANGED <<menuVars, rows, done, senderVars>>
                        /\ Receivers!Begin(e, m)

(* The callback k returns, whatever its send or persist call returned.     *)
CallbackEnds(e, m, k) == /\ cpc' = "none"
                         /\ done' = [done EXCEPT ![m] = k]
                         /\ UNCHANGED <<menuVars, calls, senderVars>>
                         /\ Receivers!Return(e, m)

(* receiveCallback, and receiveAndReplyCallback without a reply address.   *)
PrintCallback(e, m) == /\ Alive
                       /\ cpc = "print" \/ (cpc = "reply" /\ Wants[m] = "nothing")
                       /\ UNCHANGED rows
                       /\ CallbackEnds(e, m, cpc)

(* What l. 20 sends: the entry of the exchange, or what operator[] makes   *)
(* of a map without it.  A map that was destroyed may still look as it did.*)
ReplyText(e, m) == IF Wants[m] = "invalid" THEN {"invalid"}
                   ELSE {IF exchangeReply[e] = "none" THEN "empty" ELSE exchangeReply[e]}
                           \cup (IF MapDestroyed THEN {"empty"} ELSE {})

ReplyCallback(e, m) ==
    /\ Alive
    /\ cpc = "reply" /\ call = <<e, m>> /\ Wants[m] # "nothing"
    /\ cpc' = "send"
    /\ \E t \in ReplyText(e, m) :
          CallSend("callback", [re |-> m, no |-> calls, text |-> t])
    /\ exchangeReply' = IF Wants[m] = "text" /\ exchangeReply[e] = "none"
                        THEN [exchangeReply EXCEPT ![e] = "empty"] ELSE exchangeReply
    /\ UNCHANGED <<mpc, items, target, choice, kind, failed, calls, rows, done,
                   deliveryVars>>

(* Faulty variant of ReplySent: the callback insists on QPID_SUCCESS.      *)
ReplyInsists(e, m) == /\ Alive
                      /\ cpc = "send" /\ spc["callback"] = "idle"
                      /\ ret["callback"] = "SUCCESS"
                      /\ UNCHANGED rows
                      /\ CallbackEnds(e, m, "reply")

ReplySent(e, m) == /\ Alive
                   /\ cpc = "send" /\ spc["callback"] = "idle"
                   /\ ret["callback"] # "THROWS"
                   /\ UNCHANGED rows
                   /\ CallbackEnds(e, m, "reply")

ReplyThrows(e, m) == /\ Alive
                     /\ cpc = "send" /\ spc["callback"] = "idle"
                     /\ ret["callback"] = "THROWS"
                     /\ cpc' = "none"
                     /\ UNCHANGED <<menuVars, calls, rows, done, senderVars>>
                     /\ Receivers!Throw(e, m)

(* PG_SUCCESS, with the row, or PG_ERROR, with it or without (PGClient).   *)
PersistCallback(e, m) == /\ Alive
                         /\ cpc = "persist"
                         /\ rows' \in {rows, rows \cup {m}}
                         /\ CallbackEnds(e, m, "persist")

Acknowledged(e, m) == /\ Alive
                      /\ UNCHANGED <<menuVars, callbackVars, senderVars>>
                      /\ Receivers!Ack(e, m)

(* The thread of e, outside of a callback, is in the handler of a failure, *)
(* and the close of that throws (QPIDReceiver.cpp:31-35).                  *)
ReceiverTerminates(e) ==
    /\ CloseMayThrow
    /\ Alive
    /\ kind[e] # "none"
    /\ \A m \in Msg : call # <<e, m>>
    /\ mpc' = "aborted" /\ items' = items
    /\ UNCHANGED <<target, choice, kind, exchangeReply, failed,
                   senderVars, deliveryVars, callbackVars>>
-----------------------------------------------------------------------------
(* Undefined behaviour.  Each of these steps may also go well: then it is  *)
(* the action above.                                                       *)

LookingUp == \E e \in Exchange, m \in Msg :
                call = <<e, m>> /\ cpc = "reply" /\ Wants[m] = "text"

(* exchangeReply has no lock: the menu changes it during a look-up.        *)
MapRace == /\ LookingUp
           /\ \/ At("menu", "undefined") /\ \E e \in Exchange : exchangeReply[e] = "none"
              \/ /\ At("stop", "undefined")
                 /\ kind[target] # "none" /\ exchangeReply[target] # "none"
                 /\ \A m \in Msg : call # <<target, m>>
           /\ UNCHANGED <<target, choice, kind, exchangeReply, failed,
                          senderVars, deliveryVars, callbackVars>>

UseAfterDestruction ==
    /\ \/ MapDestroyed /\ LookingUp
       \/ DatabaseDestroyed /\ cpc = "persist"
    /\ mpc' = "undefined" /\ items' = items
    /\ UNCHANGED <<target, choice, kind, exchangeReply, failed,
                   senderVars, deliveryVars, callbackVars>>
-----------------------------------------------------------------------------
SenderRuns(s) == /\ Alive
                 /\ SenderStep(s)
                 /\ UNCHANGED <<deliveryVars, menuVars, callbackVars>>

BrokerAccepts == /\ Alive
                 /\ \E p \in wire : Accept(p)
                 /\ UNCHANGED <<deliveryVars, menuVars, callbackVars>>

Input == \/ Exit
         \/ \E m \in Msg : SendItem(m)
         \/ \E e \in Exchange : \/ StopItem(e)
                                \/ \E k \in {"print", "persist"} : ReceiveItem(e, k)
                                \/ ReplyItem(e)

CallReturns == SendReturns \/ StartSucceeds \/ StartFails \/ StopInvalid

ExitStep == ExitDatabase \/ ExitDone \/ \E e \in Exchange : ExitReceiver(e)

MainFailure == StartThrows \/ StopFails \/ Hang

CallbackStep(e, m) == \/ PrintCallback(e, m) \/ ReplyCallback(e, m) \/ ReplySent(e, m)
                      \/ ReplyThrows(e, m) \/ PersistCallback(e, m)

Next == \/ Input \/ CallReturns \/ StopSucceeds \/ ExitStep \/ MainFailure
        \/ \E e \in Exchange, m \in Msg : \/ CallbackBegins(e, m)
                                          \/ CallbackStep(e, m)
                                          \/ Acknowledged(e, m)
        \/ \E e \in Exchange : ReceiverTerminates(e)
        \/ \E s \in Sender : SenderRuns(s)
        \/ BrokerAccepts
        \/ MapRace \/ UseAfterDestruction

Spec == Init /\ [][Next]_vars

(* Calls of the qpid library return or throw, and a stop returns as long   *)
(* as no callback has thrown (StopReturns of QPIDMessaging; a close that   *)
(* throws is Hang).  Nobody has to enter anything, no message has to       *)
(* arrive, nothing has to fail.                                            *)
Fairness == /\ WF_vars(CallReturns)
            /\ WF_vars(~jammed /\ StopSucceeds)
            /\ WF_vars(~jammed /\ ExitStep)
            /\ WF_vars(\E e \in Exchange, m \in Msg : CallbackStep(e, m))
            /\ \A s \in Sender : WF_vars(SenderRuns(s))

FairSpec == Spec /\ Fairness
-----------------------------------------------------------------------------
(* A replying receiver always has a text to answer with, and it is not the *)
(* one entered last only if a start or a stop has failed since the entry   *)
(* was made, or is about to: every stop that succeeds makes way for the    *)
(* next text (cm_qpid.cpp:116-118, 148-150).  What is entered after such a *)
(* failure is dropped: SelectedIsAnswered.                                 *)
OldTextMeansFailure ==
    \A e \in Exchange :
        kind[e] = "reply" => \/ exchangeReply[e] = "last"
                            \/ /\ exchangeReply[e] = "earlier"
                               /\ failed[e] \/ (target = e /\ choice = "reply")

(* No reply goes out that operator[] made up, and none that answers        *)
(* another kind of request, before the program exits (cm_qpid.cpp:15-20).  *)
RepliesAreReal ==
    \A p \in wire \ Msg : /\ p.text = "invalid" <=> Wants[p.re] = "invalid"
                          /\ p.text = "empty" => MapDestroyed \/ ~Alive

(* When the process ends by itself no thread of it is left: no callback    *)
(* runs and nobody is in a send call, also if the exit item was chosen     *)
(* while a callback was sending (cm_qpid.cpp:4-6; QPIDReceiver.cpp:68).    *)
EndIsQuiet == mpc = "ended" => call = <<>> /\ \A s \in Sender : spc[s] = "idle"

(* What a throwing close leaves behind: mMutex locked by a callback, main  *)
(* in a stop or a destructor that waits for ever, or no process.           *)
CloseHasThrown == jammed \/ mpc \in {"hung", "stuck", "aborted"}

(* The stop item comes back to the menu, whatever the receiver's callback  *)
(* is doing, unless it races for exchangeReply or a close has thrown       *)
(* (cm_qpid.cpp:148).                                                      *)
StopItemReturns == (mpc = "stop") ~> (mpc \in {"menu", "undefined"} \/ CloseHasThrown)

(* After the exit item the process ends, and it does so without undefined  *)
(* behaviour if the receivers that were left running only print; the one   *)
(* exception is a close that throws (cm_qpid.cpp:4-6).                     *)
ExitEnds ==
    /\ (mpc = "database") ~> (mpc \in {"ended", "undefined"} \/ CloseHasThrown)
    /\ (mpc = "database" /\ \A e \in Exchange : kind[e] \in {"none", "print"})
          ~> (mpc = "ended" \/ CloseHasThrown)
-----------------------------------------------------------------------------
(* Claims of the documentation that the code does not keep *)

(* README.md:155: the item starts to listen and to answer with the selected*)
(* message.  The text selected for a start that succeeds is the one that   *)
(* requests are answered with.                                             *)
SelectedIsAnswered ==
    [][StartSucceeds /\ choice = "reply" => exchangeReply[target] = "last"]_vars

(* README.md:156: the item makes the program persist received messages.    *)
(* One that was acknowledged after the persisting callback is gone from    *)
(* the broker; it should be in the database.                               *)
AcknowledgedIsStored ==
    \A e \in Exchange : \A m \in acked[e] : done[m] = "persist" => m \in rows
=============================================================================
