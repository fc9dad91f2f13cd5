------------------------------ MODULE MCTestCM ------------------------------
(* Values for TLC: a request that wants the reply message, and one that    *)
(* wants an invalid one or nothing.                                        *)
EXTENDS TestCM

CONSTANTS m1, m2, e1, e2

MCMsg == {m1, m2}
MCExchange == {e1, e2}
MCSender == {"menu", "callback"}
MCTo == [m \in MCMsg |-> IF m = m1 THEN e1 ELSE e2]
MCWants == [m \in MCMsg |-> IF m = m1 THEN "text" ELSE "invalid"]
MCPacket == MCMsg \cup [re : MCMsg, no : 1 .. MaxCalls, text : Text \cup {"invalid"}]
=============================================================================
