---------------------------- MODULE SessionPool ----------------------------
(* What the pool of mcp/session.py promises a caller: a server has one session *)
(* at a time, a session is never replaced or dropped while it runs, and one    *)
(* that has ended never comes back.                                            *)
EXTENDS Naturals

CONSTANTS Servers,
          Sessions   \* names of sessions, 0 not among them

VARIABLES current,  \* server -> its session, or 0
          over      \* sessions that have ended or could not be opened

Init == current = [s \in Servers |-> 0] /\ over = {}

Establish(s, x) ==
  /\ current[s] = 0 /\ x \notin over
  /\ \A t \in Servers : current[t] # x
  /\ current' = [current EXCEPT ![s] = x]
  /\ UNCHANGED over

Abandon(x) ==
  /\ \A s \in Servers : current[s] # x
  /\ over' = over \cup {x}
  /\ UNCHANGED current

End(s) ==
  /\ current[s] # 0
  /\ current' = [current EXCEPT ![s] = 0]
  /\ over' = over \cup {current[s]}

Next ==
  \/ \E s \in Servers, x \in Sessions : Establish(s, x)
  \/ \E x \in Sessions : Abandon(x)
  \/ \E s \in Servers : End(s)

Spec == Init /\ [][Next]_<<current, over>>
=============================================================================
