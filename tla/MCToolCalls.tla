---------------------------- MODULE MCToolCalls ----------------------------
(* Two calls of one tool whose approval is by name only, so that an "always"   *)
(* answer to one covers the other, and a pattern that matches the first.       *)
EXTENDS ToolCalls, TLC

CONSTANTS c1, c2, byName, pattern

TwoCalls == {c1, c2}
TwoRules == {byName, pattern}
ByNameAndPattern == byName :> {c1, c2} @@ pattern :> {c1}
SavesByName == c1 :> byName @@ c2 :> byName
OwnRules == byName :> {c1} @@ pattern :> {c2}
SavesOwn == c1 :> byName @@ c2 :> pattern
=============================================================================
