-------------------------- MODULE MCMCPSessions --------------------------
(* TLC instances of MCPSessions. *)
EXTENDS MCPSessions, TLC

Symmetry == Permutations(Servers) \cup Permutations(Procs)
=============================================================================
