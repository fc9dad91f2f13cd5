--------------------------- MODULE MCQPIDMessaging --------------------------
(* Two exchanges, a queue and a topic, for TLC.  The messages are          *)
(* interchangeable; the symmetry is used for safety runs only.             *)
EXTENDS QPIDMessaging, TLC

Symmetry == Permutations(Msg)
=============================================================================
