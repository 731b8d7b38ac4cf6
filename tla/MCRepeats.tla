----------------------------- MODULE MCRepeats -----------------------------
(* The calls and rules of MCToolCalls, with the history of their executions.   *)
EXTENDS MCToolCalls, Repeats
=============================================================================
