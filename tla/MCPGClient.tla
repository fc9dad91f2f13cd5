----------------------------- MODULE MCPGClient -----------------------------
(* A small client for TLC: messages with the known exchange, without one   *)
(* and with an unknown one; queries of the exchange, of everything (two)   *)
(* and of an unknown one.                                                  *)
EXTENDS PGClient, TLC

MCNameOf == [call \in Msg \cup Query |->
                CASE call \in {"m1", "q1", "q2"} -> "send_queue"
                  [] call \in {"m3", "q3", "q5"} -> ""
                  [] OTHER -> "bogus"]
=============================================================================
