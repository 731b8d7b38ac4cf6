------------------------------- MODULE MCTurn -------------------------------
(* One agent and one subagent, two calls a message. *)
EXTENDS Turn
CONSTANTS s1
MCCalls == [n \in {Main, s1} |-> IF n = Main THEN 2 ELSE 0]
=============================================================================
