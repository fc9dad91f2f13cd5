--------------------------- MODULE MessageDelivery ---------------------------
(***************************************************************************)
(* What QPIDMessaging promises to a program that receives messages,        *)
(* without connections, sessions, threads and the mutex: callbacks run one *)
(* at a time and only while their exchange is listened to; a message is    *)
(* acknowledged after its callback has returned, until then it may be      *)
(* handed out again, afterwards it never is; and after a callback that     *)
(* threw there is no other.  QPIDMessaging implements this specification.  *)
(***************************************************************************)
CONSTANTS Exchange,  \* the addresses known to the broker
          Msg        \* the messages, each published at most once

VARIABLES listening,  \* the exchanges with a receiver
          published,  \* the messages sent to each exchange
          handled,    \* those whose callback has returned
          acked,      \* those that were acknowledged
          call,       \* the callback in progress, <<exchange, message>>
          jammed      \* a callback threw

vars == <<listening, published, handled, acked, call, jammed>>

NoCall == <<>>

Init == /\ listening = {}
        /\ published = [e \in Exchange |-> {}]
        /\ handled = [e \in Exchange |-> {}]
        /\ acked = [e \in Exchange |-> {}]
        /\ call = NoCall
        /\ jammed = FALSE

Publish(e, m) == /\ \A x \in Exchange : m \notin published[x]
                 /\ published' = [published EXCEPT ![e] = @ \cup {m}]
                 /\ UNCHANGED <<listening, handled, acked, call, jammed>>

Listen(e) == /\ e \notin listening
             /\ listening' = listening \cup {e}
             /\ UNCHANGED <<published, handled, acked, call, jammed>>

(* The end of a receiver waits for the callback that it is in.             *)
Unlisten(e) == /\ e \in listening
               /\ \A m \in Msg : call # <<e, m>>
               /\ listening' = listening \ {e}
               /\ UNCHANGED <<published, handled, acked, call, jammed>>

Begin(e, m) == /\ ~jammed
               /\ call = NoCall
               /\ e \in listening
               /\ m \in published[e] \ acked[e]
               /\ call' = <<e, m>>
               /\ UNCHANGED <<listening, published, handled, acked, jammed>>

Return(e, m) == /\ call = <<e, m>>
                /\ call' = NoCall
                /\ handled' = [handled EXCEPT ![e] = @ \cup {m}]
                /\ UNCHANGED <<listening, published, acked, jammed>>

Throw(e, m) == /\ call = <<e, m>>
               /\ call' = NoCall
               /\ jammed' = TRUE
               /\ UNCHANGED <<listening, published, handled, acked>>

(* Who acknowledges is the receiver, when its callback has returned.       *)
Ack(e, m) == /\ e \in listening
             /\ \A n \in Msg : call # <<e, n>>
             /\ m \in handled[e] \ acked[e]
             /\ acked' = [acked EXCEPT ![e] = @ \cup {m}]
             /\ UNCHANGED <<listening, published, handled, call, jammed>>

Next == \E e \in Exchange :
           \/ Listen(e)
           \/ Unlisten(e)
           \/ \E m \in Msg : \/ Publish(e, m)
                             \/ Begin(e, m)
                             \/ Return(e, m)
                             \/ Throw(e, m)
                             \/ Ack(e, m)

Spec == Init /\ [][Next]_vars
=============================================================================
