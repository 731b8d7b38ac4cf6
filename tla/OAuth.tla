-------------------------------- MODULE OAuth --------------------------------
(* Authorisation of MCP servers over HTTP (mcp/oauth): each has a provider that *)
(* asks the user in the browser, hears the answer on a callback server of its   *)
(* own, on a port of a range all share, and keeps its tokens in a file.  The    *)
(* provider proper, from the mcp library, is external: it runs one flow at a    *)
(* time, chooses the address the browser is sent back to before the callback    *)
(* server has its port, and refuses the answer of a flow that is not its own.   *)
EXTENDS Naturals

CONSTANTS Providers,
          NumPorts,    \* size of the port range
          MaxConns,    \* bound: connections at a time
          MaxFaults,   \* bound: flows cancelled, processes that die, writes that fail
          None

ASSUME OAuthAssumption ==
  NumPorts \in Nat \ {0} /\ MaxConns \in Nat /\ MaxFaults \in Nat /\ None \notin {"torn", "whole"}

Ports == 1..NumPorts
Conns == 1..MaxConns
Processes == {"own", "other"}

VARIABLES flow,     \* provider -> where its flow is, and the port it tries
          srv,      \* its callback server: [port, open, fut], 0 for no server
          leaks,    \* servers nobody refers to any more: <<provider, port>>
          tabs,     \* pages of the browser: [of, now, port]; now: of the flow under way
          conns,    \* connections: [to, leaked, at, says] or None
          disk,     \* provider -> its token file
          temp,     \* provider -> process -> its temporary file
          saves,    \* provider -> process -> where its set_tokens is
          taken,    \* ports other programs have
          waits,    \* whether wait_closed waits for connections (Python 3.12) or not
          faults
vars == <<flow, srv, leaks, tabs, conns, disk, temp, saves, taken, waits, faults>>
serverVars == <<flow, srv, leaks, tabs, conns>>
fileVars == <<disk, temp, saves>>

Idle == [at |-> "idle", port |-> 0]
NoServer == [port |-> 0, open |-> FALSE, fut |-> "none"]

Init ==
  /\ flow = [p \in Providers |-> Idle] /\ srv = [p \in Providers |-> NoServer]
  /\ leaks = {} /\ tabs = {} /\ conns = [i \in Conns |-> None]
  /\ disk \in [Providers -> {None, "whole"}]
  /\ temp = [p \in Providers |-> [w \in Processes |-> None]]
  /\ saves = [p \in Providers |-> [w \in Processes |-> "no"]]
  /\ taken \in SUBSET Ports /\ waits \in BOOLEAN /\ faults = 0

Fault == faults < MaxFaults /\ faults' = faults + 1

-----------------------------------------------------------------------------
(* The flow: redirect_handler and callback_handler *)

\* The browser is opened; the provider waits for the answer.
Asked(p) ==
  \E port \in Ports : tabs' = tabs \cup {[of |-> p, now |-> TRUE, port |-> port]}

\* A server that is_running is used again, with its future.
RedirectHandler(p) ==
  /\ flow[p].at = "idle"
  /\ IF srv[p].port # 0
     THEN flow' = [flow EXCEPT ![p].at = "waiting"] /\ Asked(p) /\ UNCHANGED srv
     ELSE /\ flow' = [flow EXCEPT ![p] = [at |-> "binding", port |-> 1]]
          /\ srv' = [srv EXCEPT ![p].fut = "pending"] /\ UNCHANGED tabs
  /\ UNCHANGED <<leaks, conns, fileVars, taken, waits, faults>>

Listening == {<<q, srv[q].port>> : q \in {q \in Providers : srv[q].open}} \cup leaks
Held(port) == port \in taken \/ \E l \in Listening : l[2] = port

\* start() takes the first port that nobody has.
Start(p) ==
  /\ flow[p].at = "binding"
  /\ LET port == flow[p].port IN
     \/ port \notin Ports /\ flow' = [flow EXCEPT ![p] = Idle] /\ UNCHANGED <<srv, tabs>>
     \/ /\ port \in Ports /\ Held(port)
        /\ flow' = [flow EXCEPT ![p].port = port + 1] /\ UNCHANGED <<srv, tabs>>
     \/ /\ port \in Ports /\ ~Held(port)
        /\ srv' = [srv EXCEPT ![p].port = port, ![p].open = TRUE]
        /\ flow' = [flow EXCEPT ![p] = [at |-> "waiting", port |-> 0]] /\ Asked(p)
  /\ UNCHANGED <<leaks, conns, fileVars, taken, waits, faults>>

\* callback_handler has its answer, or an error, and stops the server.
Answered(p) ==
  /\ flow[p].at = "waiting" /\ srv[p].fut # "pending"
  /\ flow' = [flow EXCEPT ![p].at = "stopping"]
  /\ srv' = [srv EXCEPT ![p].open = FALSE]
  /\ UNCHANGED <<leaks, tabs, conns, fileVars, taken, waits, faults>>

\* From now on the flow's answers are those of a flow of the past.
Past(says) == IF says = "own" THEN "foreign" ELSE says
PastTabs(S) == {IF t.of \in S THEN [t EXCEPT !.now = FALSE] ELSE t : t \in tabs}
PastConns(S) ==
  [i \in Conns |-> IF conns[i] # None /\ conns[i].to \in S
                   THEN [conns[i] EXCEPT !.says = Past(@)] ELSE conns[i]]
Over(p, server) ==
  /\ flow' = [flow EXCEPT ![p] = Idle] /\ srv' = [srv EXCEPT ![p] = server]
  /\ tabs' = PastTabs({p}) /\ conns' = PastConns({p})

Suspended(p) == waits /\ \E i \in Conns : conns[i] # None /\ conns[i].to = p /\ ~conns[i].leaked
Unset(p) == [srv[p] EXCEPT !.port = 0, !.fut = Past(@)]

\* The code of the flow itself is exchanged for tokens, which may fail too.
Stop(p) ==
  /\ flow[p].at \in {"stopping", "giving up"} /\ ~Suspended(p)
  /\ \/ Over(p, Unset(p)) /\ UNCHANGED saves
     \/ /\ flow[p].at = "stopping" /\ srv[p].fut = "own"
        /\ flow' = [flow EXCEPT ![p].at = "saving"] /\ saves' = [saves EXCEPT ![p]["own"] = "mkdir"]
        /\ srv' = [srv EXCEPT ![p].port = 0] /\ UNCHANGED <<tabs, conns>>
  /\ UNCHANGED <<leaks, disk, temp, taken, waits, faults>>

-----------------------------------------------------------------------------
(* Cancellation, of the request that needed the tokens *)

Shielded(fut) == fut  \* mutant: the future outlives the task that waits for it
Cancelled(fut) == IF fut = "pending" THEN "cancelled" ELSE fut

\* While a port is bound: it may be bound already, and nobody will close it.
CancelStart(p) ==
  /\ flow[p].at = "binding" /\ Over(p, srv[p])
  /\ \/ UNCHANGED leaks
     \/ flow[p].port \in Ports /\ ~Held(flow[p].port) /\ leaks' = leaks \cup {<<p, flow[p].port>>}
\* While it waits, and so stops the server; ...
CancelWait(p) ==
  /\ flow[p].at = "waiting" /\ flow' = [flow EXCEPT ![p].at = "giving up"]
  /\ srv' = [srv EXCEPT ![p].open = FALSE, ![p].fut = Cancelled(@)]
  /\ UNCHANGED <<leaks, tabs, conns>>
\* ... or waits for it to have stopped: it is closed, and still there.
CancelStop(p) ==
  /\ flow[p].at \in {"stopping", "giving up"} /\ Suspended(p)
  /\ Over(p, [srv[p] EXCEPT !.fut = Past(@)]) /\ UNCHANGED leaks
Cancel(p) ==
  /\ Fault /\ (CancelStart(p) \/ CancelWait(p) \/ CancelStop(p))
  /\ UNCHANGED <<fileVars, taken, waits>>

-----------------------------------------------------------------------------
(* The callback server *)

\* The browser calls the address it was given, with a code or an error, at most
\* some other program's or provider's server; it may also connect and say nothing.
Connect(i) ==
  /\ conns[i] = None
  /\ \E l \in Listening :
       LET new(says) == [to |-> l[1], leaked |-> l \in leaks, at |-> "reading", says |-> says] IN
       \/ \E t \in tabs : /\ t.port = l[2]
                          /\ conns' = [conns EXCEPT ![i] =
                                         new(IF t.now /\ t.of = l[1] THEN "own" ELSE "foreign")]
       \/ \E says \in {"error", "something else", "nothing"} : conns' = [conns EXCEPT ![i] = new(says)]
  /\ UNCHANGED <<flow, srv, leaks, tabs, fileVars, taken, waits, faults>>

\* The first answer counts, in the future of that moment.
Settle(p, result) ==
  srv' = [srv EXCEPT ![p].fut = IF @ = "pending" THEN result ELSE @]
Tells(says) == says \in {"own", "foreign", "error"}

\* The page is answered before the future is set; a browser that is gone by then
\* is an error.
Respond(i) ==
  /\ conns[i] # None /\ conns[i].at = "reading" /\ conns[i].says # "nothing"
  /\ \/ /\ conns' = [conns EXCEPT ![i].at = IF Tells(conns[i].says) THEN "told" ELSE "closing"]
        /\ UNCHANGED srv
     \/ conns' = [conns EXCEPT ![i].at = "closing"] /\ Settle(conns[i].to, "failed")
  /\ UNCHANGED <<flow, leaks, tabs, fileVars, taken, waits, faults>>
SetResult(i) ==
  /\ conns[i] # None /\ conns[i].at = "told"
  /\ Settle(conns[i].to, IF conns[i].says = "error" THEN "failed" ELSE conns[i].says)
  /\ conns' = [conns EXCEPT ![i].at = "closing"]
  /\ UNCHANGED <<flow, leaks, tabs, fileVars, taken, waits, faults>>

KeepOpen(i) == UNCHANGED conns  \* mutant: the writer is not closed
Close(i) == conns' = [conns EXCEPT ![i] = None]
\* Sooner or later the browser drops a connection on which it says nothing.
Closed(i) ==
  /\ conns[i] # None /\ (conns[i].at = "closing" \/ conns[i].says = "nothing")
  /\ Close(i)
  /\ UNCHANGED <<flow, srv, leaks, tabs, fileVars, taken, waits, faults>>

-----------------------------------------------------------------------------
(* Token files *)

\* What a load finds: a file that does not parse is none.
Load(p) == IF disk[p] = "whole" THEN "whole" ELSE None

TruncateTarget(p, w) ==  \* mutant: written in place
  disk' = [disk EXCEPT ![p] = "torn"] /\ UNCHANGED temp
Truncate(p, w) == temp' = [temp EXCEPT ![p][w] = "torn"] /\ UNCHANGED disk

SaveGoes(p, w, from, to) == saves[p][w] = from /\ saves' = [saves EXCEPT ![p][w] = to]
OpenTemp(p, w) == SaveGoes(p, w, "mkdir", "open") /\ Truncate(p, w)
WriteTemp(p, w) ==
  SaveGoes(p, w, "open", "written") /\ temp' = [temp EXCEPT ![p][w] = "whole"] /\ UNCHANGED disk
Replace(p, w) ==
  /\ SaveGoes(p, w, "written", "no")
  /\ disk' = [disk EXCEPT ![p] = temp[p][w]] /\ temp' = [temp EXCEPT ![p][w] = None]
\* A failure takes the temporary file away; the flow has its tokens all the same.
SaveFails(p, w) ==
  /\ saves[p][w] \in {"mkdir", "open", "written"} /\ saves' = [saves EXCEPT ![p][w] = "no"]
  /\ temp' = [temp EXCEPT ![p][w] = None] /\ UNCHANGED disk
SaveEnds(p, w) ==
  IF w = "own" THEN Over(p, [srv[p] EXCEPT !.fut = Past(@)]) /\ UNCHANGED leaks
  ELSE UNCHANGED serverVars

Save(p, w) ==
  /\ \/ (OpenTemp(p, w) \/ WriteTemp(p, w)) /\ UNCHANGED <<serverVars, faults>>
     \/ Replace(p, w) /\ SaveEnds(p, w) /\ UNCHANGED faults
     \/ Fault /\ SaveFails(p, w) /\ SaveEnds(p, w)
  /\ UNCHANGED <<taken, waits>>

\* Another msagent in the same directory saves its tokens for the server.
OtherSaves(p) ==
  /\ SaveGoes(p, "other", "no", "mkdir")
  /\ UNCHANGED <<serverVars, disk, temp, taken, waits, faults>>

\* A process dies: its servers are gone, its temporary files stay.
Crash ==
  /\ Fault
  /\ flow' = [p \in Providers |-> Idle] /\ srv' = [p \in Providers |-> NoServer]
  /\ leaks' = {} /\ tabs' = PastTabs(Providers) /\ conns' = [i \in Conns |-> None]
  /\ saves' = [p \in Providers |-> [saves[p] EXCEPT !["own"] = "no"]]
  /\ UNCHANGED <<disk, temp, taken, waits>>
OtherCrashes ==
  /\ Fault /\ saves' = [p \in Providers |-> [saves[p] EXCEPT !["other"] = "no"]]
  /\ UNCHANGED <<serverVars, disk, temp, taken, waits>>

Next ==
  \/ \E p \in Providers : \/ RedirectHandler(p) \/ Start(p) \/ Answered(p) \/ Stop(p) \/ Cancel(p)
                          \/ OtherSaves(p) \/ \E w \in Processes : Save(p, w)
  \/ \E i \in Conns : Connect(i) \/ Respond(i) \/ SetResult(i) \/ Closed(i)
  \/ Crash \/ OtherCrashes
Spec == Init /\ [][Next]_vars

\* The event loop runs what is ready, and the browser ends its connections.
FairSpec ==
  /\ Spec
  /\ \A p \in Providers : WF_vars(Start(p) \/ Answered(p) \/ Stop(p) \/ Save(p, "own"))
  /\ \A i \in Conns : WF_vars(Respond(i) \/ SetResult(i) \/ Closed(i))

-----------------------------------------------------------------------------
(* Properties *)

\* A provider that waits for an answer has a server that can hear it, however
\* earlier flows ended: is_running, the future and the server go together.
FlowHeard ==
  \A p \in Providers : flow[p].at = "waiting" /\ srv[p].fut = "pending" =>
    srv[p].open /\ srv[p].port \in Ports

\* Once there are tokens for a server every load finds tokens, whatever process
\* saves, fails or dies at whatever step.
TokensSurvive == [][\A p \in Providers : Load(p) # None => Load(p)' # None]_vars

\* An answer reaches the provider: the server it came by is stopped in the end.
AnswerReturned ==
  \A p \in Providers :
    flow[p].at = "waiting" /\ srv[p].fut # "pending" ~> flow[p].at \notin {"waiting", "stopping"}
=============================================================================
