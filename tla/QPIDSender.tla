----------------------------- MODULE QPIDSender -----------------------------
(***************************************************************************)
(* qpid-sender/src/QPIDSender.cpp and the two calls of QPIDMessaging that  *)
(* use it: each call makes a sender with a connection of its own, sends    *)
(* one message and closes.  A sender is named by the thread that calls.    *)
(*                                                                         *)
(* spc[s] is the place of that thread in sendMessage:                      *)
(*   idle     not in it                                                    *)
(*   open     about to open connection, session and sender  (l. 13-15)     *)
(*   send     about to send                                 (l. 22)        *)
(*   close    in the close                                  (l. 24)        *)
(*   handler  in the close of the handler                   (l. 27)        *)
(***************************************************************************)
CONSTANTS Sender,        \* the threads that send
          Packet,        \* what they send, each at most once
          NoPacket,      \* the packet of a thread that has sent none
          CloseMayThrow  \* whether closeConnection may throw

ASSUME SenderAssumption == NoPacket \notin Packet /\ CloseMayThrow \in BOOLEAN

VARIABLES spc,      \* the place of each thread
          packet,   \* what its present or last call sends
          ret,      \* what that call returns
          wire,     \* the packets handed to the library
          accepted  \* the packets that the broker has taken

senderVars == <<spc, packet, ret, wire, accepted>>

SenderTypeOK == /\ spc \in [Sender -> {"idle", "open", "send", "close", "handler"}]
                /\ packet \in [Sender -> Packet \cup {NoPacket}]
                /\ ret \in [Sender -> {"SUCCESS", "ERROR", "THROWS"}]
                /\ wire \in SUBSET Packet
                /\ accepted \in SUBSET Packet

SenderInit == /\ spc = [s \in Sender |-> "idle"]
              /\ packet = [s \in Sender |-> NoPacket]
              /\ ret = [s \in Sender |-> "SUCCESS"]
              /\ wire = {}
              /\ accepted = {}

Goto(s, from, to) == spc[s] = from /\ spc' = [spc EXCEPT ![s] = to]

(* Faulty variant of CallSend: the call does not keep its message.         *)
CallSendForgets(s, p) == /\ p \notin wire
                         /\ Goto(s, "idle", "open")
                         /\ ret' = [ret EXCEPT ![s] = "SUCCESS"]
                         /\ UNCHANGED <<packet, wire, accepted>>

CallSend(s, p) == /\ p \notin wire
                  /\ Goto(s, "idle", "open")
                  /\ packet' = [packet EXCEPT ![s] = p]
                  /\ ret' = [ret EXCEPT ![s] = "SUCCESS"]
                  /\ UNCHANGED <<wire, accepted>>

OpenSucceeds(s) == /\ Goto(s, "open", "send")
                   /\ UNCHANGED <<packet, ret, wire, accepted>>

(* No broker, no such address.                                             *)
OpenFails(s) == /\ Goto(s, "open", "handler")
                /\ UNCHANGED <<packet, ret, wire, accepted>>

(* send without sync: it does not wait for the broker.                     *)
SendSucceeds(s) == /\ Goto(s, "send", "close")
                   /\ wire' = wire \cup {packet[s]}
                   /\ UNCHANGED <<packet, ret, accepted>>

(* The packet may have left when send throws.                              *)
SendFails(s) == /\ Goto(s, "send", "handler")
                /\ wire' \in {wire, wire \cup {packet[s]}}
                /\ UNCHANGED <<packet, ret, accepted>>

(* External: the broker takes a packet some time after it was sent, even   *)
(* after its connection has ended, or never.                               *)
Accept(p) == /\ p \in wire \ accepted
             /\ accepted' = accepted \cup {p}
             /\ UNCHANGED <<spc, packet, ret, wire>>

(* Faulty variant of CloseSucceeds: the connection is dropped, not closed. *)
CloseDropped(s) == /\ Goto(s, "close", "idle")
                   /\ UNCHANGED <<packet, ret, wire, accepted>>

(* A close that returns has waited for what was sent on the connection.    *)
CloseSucceeds(s) == /\ Goto(s, "close", "idle")
                    /\ packet[s] \in accepted
                    /\ UNCHANGED <<packet, ret, wire, accepted>>

CloseFails(s) == /\ CloseMayThrow
                 /\ Goto(s, "close", "handler")
                 /\ UNCHANGED <<packet, ret, wire, accepted>>

(* Faulty variant of HandlerClose: it tries again.                         *)
HandlerRetries(s) == /\ Goto(s, "handler", "open")
                     /\ UNCHANGED <<packet, ret, wire, accepted>>

HandlerClose(s) == /\ Goto(s, "handler", "idle")
                   /\ ret' = [ret EXCEPT ![s] = "ERROR"]
                   /\ UNCHANGED <<packet, wire, accepted>>

(* The second close throws as well: so does the send call.                 *)
HandlerCloseThrows(s) == /\ CloseMayThrow
                         /\ Goto(s, "handler", "idle")
                         /\ ret' = [ret EXCEPT ![s] = "THROWS"]
                         /\ UNCHANGED <<packet, wire, accepted>>

SenderStep(s) == \/ OpenSucceeds(s) \/ OpenFails(s)
                 \/ SendSucceeds(s) \/ SendFails(s)
                 \/ CloseSucceeds(s) \/ CloseFails(s)
                 \/ HandlerClose(s) \/ HandlerCloseThrows(s)

(* A send call that returned QPID_SUCCESS has left its message with the    *)
(* broker, although send itself does not wait (QPIDSender.cpp:22-31).      *)
SendStatusIsTrue ==
    \A s \in Sender :
        spc[s] = "idle" /\ packet[s] # NoPacket /\ ret[s] = "SUCCESS" => packet[s] \in accepted
=============================================================================
