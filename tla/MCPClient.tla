----------------------------- MODULE MCPClient -----------------------------
(* The MCP client of mcp/client.py with its loader, tool proxies, filters and  *)
(* disk cache, the factory that keeps it by a hash of its configuration, and   *)
(* the graph's life around it (cli/bootstrap/initializer.py): create, run,     *)
(* reload, clean up.  The session pool is what SessionPool promises, a session *)
(* a server at a time.  A coroutine runs from one await to the next.           *)
EXTENDS Naturals, FiniteSets, Sequences

CONSTANTS Servers,     \* names in the MCP configuration
          Tools,       \* names of tools
          Offers,      \* server -> tools it lists
          Callers,     \* tool calls that run side by side in the tool node
          Configs,     \* configurations: server -> Entry
          Agents,      \* agent -> sandbox bindings, a sequence of [servers, backend]
          None,        \* nothing; no sandbox
          MaxSessions  \* bound: sessions opened

Entry == [enabled : BOOLEAN, transport : {"stdio", "http"}, target : BOOLEAN,
          include : SUBSET Tools, exclude : SUBSET Tools,
          stateful : BOOLEAN, repair : BOOLEAN]

ASSUME ClientAssumption ==
  /\ Offers \in [Servers -> SUBSET Tools]
  /\ \A c \in Configs : c \in [Servers -> Entry]
  /\ None \notin Servers \cup Tools \cup Callers \cup Nat /\ Servers \cap Callers = {}
  /\ MaxSessions \in Nat

VARIABLES conf,    \* mcp.json, as the registry has it
          agent,   \* the agent selected
          phase,   \* of the graph: off, warming, loading, running, closing, failed
          client,  \* MCPFactory._client: its configuration, connections, tools and _live
          disk,    \* the schema cache: server -> None or [hash, tools]
          session, \* the pool: server -> open session, or 0
          opened,  \* sessions opened so far
          gone,    \* sessions that crashed or that a clean-up closed
          lock,    \* _server_locks
          proxy,   \* proxies of the client: [loaded, via, lock] for each server and tool
          task     \* the loads of servers and the calls of callers
vars == <<conf, agent, phase, client, disk, session, opened, gone, lock, proxy, task>>

Tasks == Servers \cup Callers
Absent == [known |-> FALSE, tools |-> {}, via |-> 0]  \* no entry in _live
Unloaded == [loaded |-> FALSE, via |-> 0, lock |-> None]
Bound(via) == [loaded |-> TRUE, via |-> via, lock |-> None]
Idle == [at |-> "idle", server |-> None, tool |-> None, again |-> FALSE, out |-> "none"]
NewClient(c, conn) ==
  [conf |-> c, conn |-> conn, ready |-> FALSE, tools |-> {}, live |-> [s \in Servers |-> Absent]]
NoClient == NewClient(None, [s \in {} |-> None])

-----------------------------------------------------------------------------
(* The factory *)

\* What the cache of a server's schemas and the client itself depend on.
ServerHashUnfiltered(e) == <<e.enabled, e.transport, e.target, e.repair, e.stateful>>  \* mutant
ServerHash(e) ==
  <<e.enabled, e.transport, e.target, e.include, e.exclude, e.repair, e.stateful>>
ConfigHash(c) == [s \in Servers |-> ServerHash(c[s])]

\* The first binding that matches and bypasses decides; else exactly one must match.
Resolve(s, bindings) ==
  LET match == {i \in DOMAIN bindings : s \in bindings[i].servers}
  IN IF bindings = <<>> \/ \E i \in match : bindings[i].backend = None
     THEN [backend |-> None, blocked |-> FALSE]
     ELSE IF Cardinality(match) = 1
     THEN [backend |-> bindings[CHOOSE i \in match : TRUE].backend, blocked |-> FALSE]
     ELSE [backend |-> None, blocked |-> TRUE]

\* The connections made for configuration c: server -> the sandbox it runs in.
Connectable(c, bindings) ==
  {s \in Servers : LET r == Resolve(s, bindings) IN
     /\ c[s].enabled /\ ~r.blocked /\ c[s].target
     /\ c[s].transport = "stdio" \/ r.backend = None}
Connections(c, bindings) ==
  [s \in Connectable(c, bindings) |-> Resolve(s, bindings).backend]

\* MCPRegistry.allowed; Contradictory entries make it raise ValueError.
Contradictory(e) == e.include # {} /\ e.exclude # {}
Allowed(e) == IF e.include # {} THEN e.include ELSE Tools \ e.exclude

\* MCPCache.load: schemas whose hash is the server's; an empty list is no cache.
Cached(c, s) ==
  IF disk[s] # None /\ disk[s].hash = ServerHash(c[s]) THEN disk[s].tools ELSE {}

\* A client of the same hash is kept, with its tools, whatever it was built for.
SameClient == client # NoClient /\ ConfigHash(client.conf) = ConfigHash(conf)
FactoryClient ==
  IF SameClient THEN client ELSE NewClient(conf, Connections(conf, Agents[agent]))

Init ==
  /\ conf \in Configs /\ agent \in DOMAIN Agents
  /\ phase = "off" /\ client = NoClient
  /\ disk \in [Servers -> {None}]
              \cup {[s \in Servers |-> [hash |-> ServerHash(c[s]),
                                        tools |-> Offers[s] \cap Allowed(c[s])]] : c \in Configs}
  /\ session = [s \in Servers |-> 0] /\ opened = 0 /\ gone = {}
  /\ lock = [s \in Servers |-> None]
  /\ proxy = [x \in Servers \X Tools |-> Unloaded]
  /\ task = [t \in Tasks |-> Idle]

-----------------------------------------------------------------------------
(* create_graph and tools() *)

\* A loader's first await: the pool for a stateful server, the list for another.
Entrance(s) == IF client.conf[s].stateful THEN "get" ELSE "list"
Load(t, s) == [task[t] EXCEPT !.at = Entrance(s), !.server = s, !.again = FALSE, !.out = "none"]

\* The cached servers' tools at once, and the stateful ones' sessions are warmed up.
Create ==
  /\ phase = "off"
  /\ client' = FactoryClient
  /\ proxy' = IF SameClient THEN proxy ELSE [x \in DOMAIN proxy |-> Unloaded]
  /\ LET conn == DOMAIN client'.conn
         cached == {s \in conn : Cached(conf, s) # {}}
     IN IF client'.ready THEN phase' = "running" /\ UNCHANGED task
        ELSE IF \E s \in cached : Contradictory(conf[s])
        THEN phase' = "failed" /\ UNCHANGED task
        ELSE /\ phase' = "warming"
             /\ task' = [t \in Tasks |->
                  IF t \in cached /\ conf[t].stateful
                  THEN [Idle EXCEPT !.at = "get", !.server = t, !.out = "warm"] ELSE Idle]
  /\ UNCHANGED <<conf, agent, disk, session, opened, gone, lock>>

\* The warm-ups are gathered; the other servers are then loaded side by side.
LoadPending ==
  /\ phase = "warming"
  /\ \A s \in Servers : task[s].at = "idle"
  /\ phase' = "loading"
  /\ task' = [t \in Tasks |-> IF t \in DOMAIN client.conn /\ Cached(client.conf, t) = {}
                              THEN Load(t, t) ELSE task[t]]
  /\ UNCHANGED <<conf, agent, client, disk, session, opened, gone, lock, proxy>>

\* The results are gathered: a ValueError is raised, other failures are logged.
Loaded ==
  /\ phase = "loading"
  /\ \A s \in Servers : task[s].at = "idle"
  /\ LET conn == DOMAIN client.conn
         fresh == {s \in conn : task[s].out = "loaded"}
         cached == {s \in conn : task[s].out \in {"none", "warm"}}
     IN IF \E s \in conn : task[s].out = "ValueError"
        THEN phase' = "failed" /\ UNCHANGED <<client, proxy>>
        ELSE /\ phase' = "running"
             /\ client' = [client EXCEPT !.ready = TRUE, !.tools =
                  (UNION {{s} \X (Cached(client.conf, s) \cap Allowed(client.conf[s])) : s \in cached})
                  \cup (UNION {{s} \X client.live[s].tools : s \in fresh})]
             /\ proxy' = [x \in Servers \X Tools |->
                  IF x[1] \in fresh /\ x[2] \in client.live[x[1]].tools
                  THEN Bound(client.live[x[1]].via)
                  ELSE Unloaded]
  /\ UNCHANGED <<conf, agent, disk, session, opened, gone, lock, task>>

-----------------------------------------------------------------------------
(* A load: get a session, list its tools; on an MCP error close, repair, again *)

\* The end of a task's load; the tools' session is via, 0 for a stateless server.
Listed(t, tools, via) ==
  LET s == task[t].server IN
  /\ client' = [client EXCEPT !.live[s] = [known |-> TRUE, tools |-> tools, via |-> via]]
  /\ IF t \in Servers
     THEN /\ task' = [task EXCEPT ![t].at = "idle", ![t].out = "loaded"]
          /\ disk' = IF tools = {} THEN disk
                     ELSE [disk EXCEPT ![s] = [hash |-> ServerHash(client.conf[s]), tools |-> tools]]
          /\ UNCHANGED <<lock, proxy>>
     ELSE /\ lock' = [lock EXCEPT ![s] = None]
          /\ IF task[t].tool \in tools
             THEN /\ task' = [task EXCEPT ![t].at = "invoke"]
                  /\ proxy' = [proxy EXCEPT ![<<s, task[t].tool>>] = Bound(via)]
             ELSE /\ task' = [task EXCEPT ![t] = [Idle EXCEPT !.out = "raised"]]
                  /\ proxy' = [proxy EXCEPT ![<<s, task[t].tool>>].lock = None]
          /\ UNCHANGED disk

\* An exception leaves the load: the locks are released, _live is not set.
Raised(t, error) ==
  LET s == task[t].server IN
  /\ task' = [task EXCEPT ![t] = [Idle EXCEPT !.out = error]]
  /\ IF t \in Servers THEN UNCHANGED <<lock, proxy>>
     ELSE /\ lock' = [lock EXCEPT ![s] = IF @ = t THEN None ELSE @]
          /\ proxy' = [proxy EXCEPT ![<<s, task[t].tool>>].lock = None]
  /\ UNCHANGED <<client, disk>>

\* _with_repair: a first MCP error with a repair command closes the session and
\* tries again, another failure is an empty answer, a second error is raised.
Failed(t, mcp) ==
  LET s == task[t].server IN
  IF task[t].out = "warm"
  THEN task' = [task EXCEPT ![t].at = "idle"] /\ UNCHANGED <<client, disk, lock, proxy>>
  ELSE IF task[t].again THEN Raised(t, "raised")
  ELSE IF mcp /\ client.conf[s].repair
  THEN /\ task' = [task EXCEPT ![t].at = "close", ![t].again = TRUE]
       /\ UNCHANGED <<client, disk, lock, proxy>>
  ELSE Listed(t, {}, 0)

\* The pool answers get: with the session there is, or a new one; or raises.
Got(t) ==
  LET s == task[t].server IN
  /\ task[t].at = "get"
  /\ \/ session[s] # 0 /\ UNCHANGED <<session, opened>>
     \/ /\ session[s] = 0 /\ opened < MaxSessions
        /\ opened' = opened + 1 /\ session' = [session EXCEPT ![s] = opened']
  /\ task' = [task EXCEPT ![t].at = IF task[t].out = "warm" THEN "idle" ELSE "list"]
  /\ UNCHANGED <<conf, agent, phase, client, disk, gone, lock, proxy>>

GetFails(t) ==
  /\ task[t].at = "get" /\ session[task[t].server] = 0
  /\ \E mcp \in BOOLEAN : Failed(t, mcp)
  /\ UNCHANGED <<conf, agent, phase, session, opened, gone>>

\* A list that fails, always if its session is gone.
List(t) ==
  LET s == task[t].server
      tools == Offers[s] \cap Allowed(client.conf[s])
  IN
  /\ task[t].at = "list"
  /\ \/ /\ client.conf[s].stateful => session[s] # 0
        /\ IF Offers[s] # {} /\ Contradictory(client.conf[s]) THEN Raised(t, "ValueError")
           ELSE Listed(t, tools, session[s])
     \/ \E mcp \in BOOLEAN : Failed(t, mcp)
  /\ UNCHANGED <<conf, agent, phase, session, opened, gone>>

\* close_session before the repair command; no session, no wait.
CloseForRepair(t) ==
  LET s == task[t].server IN
  /\ task[t].at = "close"
  /\ session' = [session EXCEPT ![s] = 0]
  /\ gone' = IF session[s] = 0 THEN gone ELSE gone \cup {session[s]}
  /\ task' = [task EXCEPT ![t].at = "repair"]
  /\ UNCHANGED <<conf, agent, phase, client, disk, opened, lock, proxy>>

Repaired(t) ==
  /\ task[t].at = "repair"
  /\ task' = [task EXCEPT ![t].at = Entrance(task[t].server)]
  /\ UNCHANGED <<conf, agent, phase, client, disk, session, opened, gone, lock, proxy>>

-----------------------------------------------------------------------------
(* A call of a tool: MCPTool._arun, _ensure and _invoke, and _load_live *)

\* From the proxy's lock on: the tool is in _live, or the server's lock is next.
LookedUp(p, s, n) ==
  IF client.live[s].known
  THEN IF n \in client.live[s].tools
       THEN /\ task' = [task EXCEPT ![p] = [Idle EXCEPT !.at = "invoke", !.server = s, !.tool = n]]
            /\ proxy' = [proxy EXCEPT ![<<s, n>>] = Bound(client.live[s].via)]
       ELSE /\ task' = [task EXCEPT ![p] = [Idle EXCEPT !.out = "raised"]]
            /\ proxy' = [proxy EXCEPT ![<<s, n>>].lock = None]
  ELSE /\ task' = [task EXCEPT ![p] = [Idle EXCEPT !.at = "server", !.server = s, !.tool = n]]
       /\ proxy' = [proxy EXCEPT ![<<s, n>>].lock = p]

Ensure(p, s, n) ==
  IF proxy[<<s, n>>].loaded
  THEN /\ task' = [task EXCEPT ![p] = [Idle EXCEPT !.at = "invoke", !.server = s, !.tool = n]]
       /\ UNCHANGED proxy
  ELSE IF proxy[<<s, n>>].lock = None THEN LookedUp(p, s, n)
  ELSE /\ task' = [task EXCEPT ![p] = [Idle EXCEPT !.at = "proxy", !.server = s, !.tool = n]]
       /\ UNCHANGED proxy

Call(p, s, n) ==
  /\ phase = "running" /\ <<s, n>> \in client.tools
  /\ task[p].at = "idle"
  /\ Ensure(p, s, n)
  /\ UNCHANGED <<conf, agent, phase, client, disk, session, opened, gone, lock>>

ProxyLocked(p) ==
  LET s == task[p].server  n == task[p].tool IN
  /\ task[p].at = "proxy" /\ proxy[<<s, n>>].lock = None
  /\ Ensure(p, s, n)
  /\ UNCHANGED <<conf, agent, phase, client, disk, session, opened, gone, lock>>

\* The server's lock, and the second look that one load serves all who waited.
NoServerLock(s) == TRUE  \* mutant: the lock is not the server's
ServerLockFree(s) == lock[s] = None
FirstLookOnly(s) == FALSE  \* mutant: the second look is left out
SecondLook(s) == client.live[s].known
ServerLocked(p) ==
  LET s == task[p].server  n == task[p].tool IN
  /\ task[p].at = "server" /\ ServerLockFree(s)
  /\ IF SecondLook(s) THEN LookedUp(p, s, n) /\ UNCHANGED lock
     ELSE /\ lock' = [lock EXCEPT ![s] = p]
          /\ task' = [task EXCEPT ![p] = Load(p, s)]
          /\ UNCHANGED proxy
  /\ UNCHANGED <<conf, agent, phase, client, disk, session, opened, gone>>

\* The tool answers, or raises as it does at its timeout or on a session that is gone.
Invoked(p) ==
  LET x == proxy[<<task[p].server, task[p].tool>>] IN
  /\ task[p].at = "invoke"
  /\ \E out \in {"returned", "raised"} :
       /\ out = "returned" => x.via = 0 \/ x.via \notin gone
       /\ task' = [task EXCEPT ![p] = [Idle EXCEPT !.out = out]]
  /\ UNCHANGED <<conf, agent, phase, client, disk, session, opened, gone, lock, proxy>>

\* Ctrl+C cancels the turn's calls, which release the locks they hold.
KeepsLocks == UNCHANGED <<lock, proxy>>  \* mutant: released when a call returns only
ReleaseLocks ==
  /\ lock' = [s \in Servers |-> None]
  /\ proxy' = [x \in DOMAIN proxy |-> [proxy[x] EXCEPT !.lock = None]]
Cancel ==
  /\ phase = "running"
  /\ \E p \in Callers : task[p].at # "idle"
  /\ task' = [t \in Tasks |-> IF t \in Callers THEN Idle ELSE task[t]]
  /\ ReleaseLocks
  /\ UNCHANGED <<conf, agent, phase, client, disk, session, opened, gone>>

Crash(s) ==
  /\ session[s] # 0
  /\ gone' = gone \cup {session[s]}
  /\ session' = [session EXCEPT ![s] = 0]
  /\ UNCHANGED <<conf, agent, phase, client, disk, opened, lock, proxy, task>>

-----------------------------------------------------------------------------
(* Reload: /mcp and the choice of an agent stop the session's loop *)

Reload ==
  /\ phase = "running" /\ \A t \in Callers : task[t].at = "idle"
  /\ phase' = "closing"
  /\ \/ \E S \in SUBSET Servers :
          /\ conf' = [s \in Servers |-> [conf[s] EXCEPT !.enabled = IF s \in S THEN ~@ ELSE @]]
          /\ UNCHANGED agent
     \/ agent' \in DOMAIN Agents /\ UNCHANGED conf
  /\ UNCHANGED <<client, disk, session, opened, gone, lock, proxy, task>>

\* close_all closes the sessions there are.
Closed == {session[s] : s \in Servers} \ {0}

\* The clean-up of get_graph; when it raises, so does start, and the program ends.
CleanUp ==
  /\ phase = "closing"
  /\ session' = [s \in Servers |-> 0]
  /\ gone' = gone \cup Closed
  /\ phase' \in {"off", "failed"}
  /\ task' = [t \in Tasks |-> Idle]
  /\ UNCHANGED <<conf, agent, client, disk, opened, lock, proxy>>

Answer(t) == Got(t) \/ GetFails(t) \/ List(t) \/ CloseForRepair(t) \/ Repaired(t)
Proceed(p) == ProxyLocked(p) \/ ServerLocked(p) \/ Invoked(p)

Next ==
  \/ Create \/ LoadPending \/ Loaded \/ Cancel \/ Reload \/ CleanUp
  \/ \E t \in Tasks : Answer(t)
  \/ \E p \in Callers : Proceed(p) \/ \E s \in Servers, n \in Tools : Call(p, s, n)
  \/ \E s \in Servers : Crash(s)

Spec == Init /\ [][Next]_vars

\* The event loop runs on, locks are handed over in order, servers answer.
FairSpec ==
  /\ Spec
  /\ \A t \in Tasks : WF_vars(Answer(t))
  /\ \A p \in Callers : SF_vars(Proceed(p))

-----------------------------------------------------------------------------
(* Properties *)

\* The pool's get and close are called by one task at a time for a server, as the
\* pool needs: warm-up, loading and hydration never meet there (client.py:119-199).
OneCallPerServer ==
  \A t, u \in Tasks :
    task[t].at \in {"get", "close"} /\ task[u].at \in {"get", "close"}
      /\ task[t].server = task[u].server => t = u

\* Tools of a server that was reached are those its filter allows, all of them and
\* no others, whatever configuration its cached schemas were saved under, unless its
\* load failed (client.py:149-179, factory.py:36-53).
ToolsComplete ==
  phase = "running" =>
    \A s \in DOMAIN client.conn :
      LET given == {n \in Tools : <<s, n>> \in client.tools}
          due == IF client.conf[s].include # {} THEN client.conf[s].include
                 ELSE Tools \ client.conf[s].exclude
      IN given = Offers[s] \cap due \/ (given = {} /\ client.live[s].tools = {})

\* A repair closes no session that a tool already in use is bound to (loader.py:70).
RepairSpares ==
  \A t \in Tasks : task[t].at = "close" /\ session[task[t].server] # 0 =>
    \A n \in Tools : LET x == proxy[<<task[t].server, n>>] IN
      x.loaded => x.via # session[task[t].server]

\* A tool call comes to an end, through the locks of its proxy and of its server,
\* if servers answer (tool.py:45, client.py:188).
CallsEnd == \A p \in Callers : task[p].at # "idle" ~> task[p].at = "idle"

=============================================================================
