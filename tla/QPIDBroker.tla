----------------------------- MODULE QPIDBroker -----------------------------
(***************************************************************************)
(* What the program relies on in the AMQP broker and in the client library *)
(* behind IQPIDBrokerConnector: no code of the repository, modelled from   *)
(* the way QPIDReceiver.cpp uses it.                                       *)
(*                                                                         *)
(* A queue keeps a message until it is acknowledged: a message that was    *)
(* handed out and not acknowledged goes back when the connection it went   *)
(* out on ends.  A topic keeps messages for a subscriber only as long as   *)
(* that one is connected.  There is at most one receiver per exchange, and *)
(* each has a connection of its own, so a connection is named by its       *)
(* exchange.                                                               *)
(***************************************************************************)
EXTENDS Naturals, FiniteSets

CONSTANTS Exchange,  \* the addresses known to the broker
          Topic,     \* those of them that are topics; the others are queues
          Msg        \* the messages, each published at most once

ASSUME BrokerAssumption == Topic \subseteq Exchange

VARIABLES conn,       \* "open" from the creation of a receiver to the close
          queue,      \* the messages waiting at an exchange
          unacked,    \* the messages handed out on the open connection
          acked,      \* history: the messages that were acknowledged
          published   \* history: the messages that were ever sent

brokerVars == <<conn, queue, unacked, acked, published>>

BrokerTypeOK == /\ conn \in [Exchange -> {"open", "closed"}]
                /\ queue \in [Exchange -> SUBSET Msg]
                /\ unacked \in [Exchange -> SUBSET Msg]
                /\ acked \in [Exchange -> SUBSET Msg]
                /\ published \in [Exchange -> SUBSET Msg]

BrokerInit == /\ conn = [e \in Exchange |-> "closed"]
              /\ queue = [e \in Exchange |-> {}]
              /\ unacked = [e \in Exchange |-> {}]
              /\ acked = [e \in Exchange |-> {}]
              /\ published = [e \in Exchange |-> {}]

(* Somebody sends a message, the callbacks of this program included.  A    *)
(* topic drops what it gets while nobody is subscribed.                    *)
Publish(e, m) ==
    /\ \A x \in Exchange : m \notin published[x]
    /\ published' = [published EXCEPT ![e] = @ \cup {m}]
    /\ IF e \in Topic /\ conn[e] = "closed"
       THEN UNCHANGED queue
       ELSE queue' = [queue EXCEPT ![e] = @ \cup {m}]
    /\ UNCHANGED <<conn, unacked, acked>>

(* A connection with its session and receiver.                             *)
Connect(e) == /\ conn' = [conn EXCEPT ![e] = "open"]
              /\ UNCHANGED <<queue, unacked, acked, published>>

(* The connection ends, whoever ended it; nothing happens if it had.       *)
Disconnect(e) ==
    /\ conn' = [conn EXCEPT ![e] = "closed"]
    /\ queue' = [queue EXCEPT ![e] = IF e \in Topic THEN {} ELSE @ \cup unacked[e]]
    /\ unacked' = [unacked EXCEPT ![e] = {}]
    /\ UNCHANGED <<acked, published>>

(* A call that was to end the connection and failed: it may have ended.    *)
MaybeDisconnect(e) == Disconnect(e) \/ UNCHANGED brokerVars

(* fetch hands out one of the waiting messages.                            *)
Deliver(e, m) == /\ conn[e] = "open"
                 /\ m \in queue[e]
                 /\ queue' = [queue EXCEPT ![e] = @ \ {m}]
                 /\ unacked' = [unacked EXCEPT ![e] = @ \cup {m}]
                 /\ UNCHANGED <<conn, acked, published>>

(* Session::acknowledge covers everything fetched on the session so far.   *)
AckSession(e) == /\ conn[e] = "open"
                 /\ acked' = [acked EXCEPT ![e] = @ \cup unacked[e]]
                 /\ unacked' = [unacked EXCEPT ![e] = {}]
                 /\ UNCHANGED <<conn, queue, published>>
=============================================================================
