------------------------------ MODULE MCSession ------------------------------
(* Two agents, of which the template has one, a subagent, three models of which a user     *)
(* may have added one, a server.                                              *)
EXTENDS Session, TLC
CONSTANTS a1, a2, s1, m1, m2, m3, v1
MCTemplate ==
  [dir |-> TRUE, file |-> {m1}, llms |-> {m2},
   agents |-> a1 :> [llm |-> m1, default |-> TRUE, old |-> TRUE, subs |-> {s1}],
   subs |-> s1 :> m2, servers |-> v1 :> TRUE]
=============================================================================
