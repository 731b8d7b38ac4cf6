---------------------------- MODULE MCMCPClient ----------------------------
(* A stateful server of two tools that can be repaired and a stateless one of  *)
(* one tool; a configuration without filters, one that excludes, one that      *)
(* includes, and one whose server has both filters.  The agent binds the       *)
(* stateful server to a sandbox and lets the stateless one bypass its own.     *)
EXTENDS MCPClient, TLC

CONSTANTS kept, plain, t1, t2, bound, box, c1, c2

TwoServers == {kept, plain}
OffersAll == kept :> {t1, t2} @@ plain :> {t1}
Basic == [enabled |-> TRUE, transport |-> "stdio", target |-> TRUE, include |-> {},
          exclude |-> {}, stateful |-> FALSE, repair |-> FALSE]
Keep == [Basic EXCEPT !.stateful = TRUE, !.repair = TRUE]
Open == kept :> Keep @@ plain :> [Basic EXCEPT !.transport = "http"]
Excluding == kept :> [Keep EXCEPT !.exclude = {t2}] @@ plain :> [Basic EXCEPT !.enabled = FALSE]
Including == kept :> [Keep EXCEPT !.include = {t2}]
             @@ plain :> Basic
Contrary == kept :> Keep @@ plain :> [Basic EXCEPT !.include = {t1}, !.exclude = {t2}]
AllConfigs == {Open, Excluding, Including, Contrary}
Bindings == <<[servers |-> {plain}, backend |-> None], [servers |-> {kept, plain}, backend |-> box]>>
OneAgent == bound :> Bindings
=============================================================================
