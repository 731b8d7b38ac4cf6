--------------------------- MODULE MCPClientProofs ---------------------------
(* Proofs about the MCP client (MCPClient), for any servers and tools, any     *)
(* number of calls side by side and any configurations and bindings.           *)
EXTENDS MCPClient, TLAPS

Live == [known : BOOLEAN, tools : SUBSET Tools, via : Nat]
Proxy == [loaded : BOOLEAN, via : Nat, lock : Callers \cup {None}]
Task == [at : {"idle", "get", "list", "close", "repair", "proxy", "server", "invoke"},
         server : Servers \cup {None}, tool : Tools \cup {None}, again : BOOLEAN,
         out : {"none", "warm", "loaded", "returned", "raised", "ValueError"}]
IsClient(c) ==
  /\ c = [conf |-> c.conf, conn |-> c.conn, ready |-> c.ready, tools |-> c.tools, live |-> c.live]
  /\ DOMAIN c.conn \subseteq Servers /\ c.live \in [Servers -> Live]

Loading == {"get", "list", "close", "repair"}

Types ==
  /\ IsClient(client) /\ opened \in Nat /\ session \in [Servers -> Nat]
  /\ lock \in [Servers -> Callers \cup {None}]
  /\ proxy \in [Servers \X Tools -> Proxy] /\ task \in [Tasks -> Task]

\* A server's task loads that server before the graph runs, a warm-up first, ...
ServersLoad ==
  \A t \in Servers : task[t].at # "idle" =>
    /\ phase \in {"warming", "loading"} /\ task[t].server = t /\ task[t].at \in Loading
    /\ phase = "warming" => task[t].out = "warm"
    /\ task[t].out = "warm" => task[t].at = "get"
\* ... a caller's only while it runs, and holds the server's lock.
CallersLock ==
  \A p \in Callers : task[p].at # "idle" =>
    /\ phase = "running" /\ task[p].server \in Servers /\ task[p].tool \in Tools
    /\ task[p].at \in Loading => lock[task[p].server] = p /\ task[p].out # "warm"

\* What is loaded is not known yet, and what is known is not forgotten: a proxy
\* that is loaded has its tool from there.
LoadsUnknown ==
  \A t \in Tasks : task[t].at \in Loading /\ task[t].out # "warm" =>
    ~client.live[task[t].server].known
LoadedKnown ==
  /\ \A s \in Servers, n \in Tools : proxy[<<s, n>>].loaded => client.live[s].known
  /\ \A t \in Servers : task[t].out = "loaded" => client.live[t].known

\* A graph that has run had a client with its tools; before that nothing is known.
Phases ==
  /\ phase \in {"running", "closing"} => client.ready
  /\ phase = "warming" => \A s \in Servers : ~client.live[s].known
  /\ phase = "off" => /\ client.ready \/ client = NoClient
                      /\ \A t \in Servers : task[t].out # "loaded"

IInv == Types /\ ServersLoad /\ CallersLock /\ LoadsUnknown /\ LoadedKnown /\ Phases

-----------------------------------------------------------------------------
\* Only the live entry of a client changes while it is used.
LEMMA LiveChanges ==
  ASSUME NEW c, IsClient(c), NEW s \in Servers, NEW e \in Live
  PROVE  LET d == [c EXCEPT !.live[s] = e] IN
         /\ IsClient(d) /\ d.conn = c.conn /\ d.ready = c.ready /\ d.conf = c.conf /\ d.tools = c.tools
         /\ d.live = [c.live EXCEPT ![s] = e]
<1> DEFINE r(x) == [conf |-> c.conf, conn |-> c.conn, ready |-> c.ready, tools |-> c.tools, live |-> x]
           d == [c EXCEPT !.live[s] = e]
           n == [c.live EXCEPT ![s] = e]
<1>1. n \in [Servers -> Live]
  BY DEF IsClient
<1>2. c = r(c.live)
  BY DEF IsClient
<1>3. d = r(n)
  BY <1>2
<1> QED
  BY <1>1, <1>3 DEF IsClient

\* Warm-up, loading and hydration of a server never meet.
LEMMA Alone ==
  ASSUME IInv, NEW t \in Tasks, NEW u \in Tasks, task[t].at \in Loading,
         task[u].at \in Loading, task[t].server = task[u].server
  PROVE  t = u
<1>1. task[t].at # "idle" /\ task[u].at # "idle"
  BY DEF Loading
<1> QED
  BY <1>1 DEF IInv, ServersLoad, CallersLock, Tasks

\* A task goes on: the conditions under which one that changes, with its locks,
\* its proxy and the client's entry of its server, keeps the invariant.
LEMMA OneTask ==
  ASSUME IInv, NEW t \in Tasks, NEW r \in Task, task' = [task EXCEPT ![t] = r],
         phase # "off", UNCHANGED phase, Types', client'.ready = client.ready,
         \A s \in Servers : client.live[s].known => client'.live[s].known,
         phase = "warming" => UNCHANGED client,
         t \in Servers /\ r.at # "idle" =>
           /\ phase \in {"warming", "loading"} /\ r.server = t /\ r.at \in Loading
           /\ phase = "warming" => r.out = "warm"
           /\ r.out = "warm" => r.at = "get",
         t \in Servers /\ r.out = "loaded" => client'.live[t].known,
         t \in Callers /\ r.at # "idle" =>
           /\ phase = "running" /\ r.server \in Servers /\ r.tool \in Tools
           /\ r.at \in Loading => lock'[r.server] = t /\ r.out # "warm",
         r.at \in Loading /\ r.out # "warm" => ~client'.live[r.server].known,
         \A u \in Tasks \ {t} : task[u].at \in Loading /\ task[u].out # "warm" =>
           ~client'.live[task[u].server].known,
         \A u \in Callers \ {t} : task[u].at \in Loading => lock'[task[u].server] = u,
         \A s \in Servers, n \in Tools : proxy'[<<s, n>>].loaded => client'.live[s].known
  PROVE  IInv'
<1>1. task'[t] = r /\ \A u \in Tasks \ {t} : task'[u] = task[u]
  BY DEF IInv, Types
<1>2. ServersLoad'
  BY <1>1 DEF IInv, ServersLoad, Tasks
<1>3. CallersLock'
  BY <1>1 DEF IInv, CallersLock, Tasks
<1>4. LoadsUnknown'
  BY <1>1 DEF IInv, LoadsUnknown
<1>5. LoadedKnown'
  BY <1>1 DEF IInv, LoadedKnown, Tasks
<1>6. Phases'
  BY DEF IInv, Phases
<1> QED
  BY <1>2, <1>3, <1>4, <1>5, <1>6 DEF IInv

\* What is known of a task that is not idle.
LEMMA Busy ==
  ASSUME IInv, NEW t \in Tasks, task[t].at # "idle"
  PROVE  /\ phase # "off" /\ task[t] \in Task /\ task[t].server \in Servers
         /\ t \in Servers => task[t].server = t
         /\ t \in Callers => task[t].tool \in Tools
         /\ task[t].at \in Loading /\ task[t].out # "warm" => phase # "warming"
BY DEF IInv, Types, ServersLoad, CallersLock, Tasks

\* A load goes from one wait to the next, or ends as a warm-up does.
LEMMA LoadGoesOn ==
  ASSUME IInv, NEW t \in Tasks, task[t].at \in Loading, NEW r \in Task,
         task' = [task EXCEPT ![t] = r], r.server = task[t].server, r.tool = task[t].tool,
         r.out = task[t].out, r.at \in Loading \cup {"idle"},
         r.out = "warm" => r.at \in {"get", "idle"}, UNCHANGED <<phase, client, lock, proxy>>,
         session' \in [Servers -> Nat], opened' \in Nat
  PROVE  IInv'
<1>1. task[t].at # "idle"
  BY DEF Loading
<1>2. Types'
  BY DEF IInv, Types
<1>3. t \in Servers => phase \in {"warming", "loading"} /\ (phase = "warming" => r.out = "warm")
  BY <1>1 DEF IInv, ServersLoad
<1>4. t \in Callers => phase = "running" /\ lock[r.server] = t /\ r.out # "warm"
  BY <1>1 DEF IInv, CallersLock
<1>5. r.at \in Loading => r.at # "idle"
  BY DEF Loading
<1>6. \A u \in Callers : task[u].at \in Loading => lock[task[u].server] = u
  BY DEF IInv, CallersLock, Loading
<1>7. (t \in Servers /\ r.out # "loaded") \/ t \in Callers \/ client.live[t].known
  BY DEF IInv, LoadedKnown, Tasks
<1> QED
  BY <1>1, <1>2, <1>3, <1>4, <1>5, <1>6, <1>7, Busy, OneTask DEF IInv, LoadsUnknown, LoadedKnown

-----------------------------------------------------------------------------
(* The steps of a load *)

\* The entries of the pool.
LEMMA PoolTyped ==
  ASSUME IInv
  PROVE  /\ \A t \in Tasks : Got(t) => session' \in [Servers -> Nat] /\ opened' \in Nat
         /\ UNCHANGED <<session, opened>> => session' \in [Servers -> Nat] /\ opened' \in Nat
<1>0. session \in [Servers -> Nat] /\ opened \in Nat
  BY DEF IInv, Types
<1>1. opened + 1 \in Nat
  BY <1>0
<1>2. \A t \in Tasks : Got(t) => \/ UNCHANGED <<session, opened>>
                                 \/ /\ opened' = opened + 1
                                    /\ session' = [session EXCEPT ![task[t].server] = opened']
  BY DEF Got
<1>3. \A s : opened' = opened + 1 /\ session' = [session EXCEPT ![s] = opened'] =>
        session' \in [Servers -> Nat]
  BY <1>0, <1>1
<1> QED
  BY <1>0, <1>1, <1>2, <1>3

\* The pool answers.
LEMMA GotKeeps ==
  ASSUME IInv, NEW t \in Tasks, Got(t)
  PROVE  IInv'
<1> DEFINE to == IF task[t].out = "warm" THEN "idle" ELSE "list"
           r == [task[t] EXCEPT !.at = to]
<1>1. task[t] \in Task /\ task \in [Tasks -> Task]
  BY DEF IInv, Types
<1>2. /\ r \in Task /\ r.server = task[t].server /\ r.tool = task[t].tool /\ r.out = task[t].out
      /\ r.at = to
  BY <1>1 DEF Task
<1>3. task' = [task EXCEPT ![t] = r]
  BY <1>1 DEF Got
<1>4. to \in Loading \cup {"idle"} /\ (task[t].out = "warm" => to = "idle") /\ task[t].at \in Loading
  BY DEF Got, Loading
<1>5. UNCHANGED <<phase, client, lock, proxy>>
  BY DEF Got
<1> HIDE DEF r, to
<1> QED
  BY <1>2, <1>3, <1>4, <1>5, PoolTyped, LoadGoesOn

\* A session is closed for the repair, and the server repaired.
LEMMA RepairKeeps ==
  ASSUME IInv, NEW t \in Tasks, CloseForRepair(t) \/ Repaired(t)
  PROVE  IInv'
<1>0. task[t] \in Task /\ task \in [Tasks -> Task] /\ session \in [Servers -> Nat] /\ opened \in Nat
  BY DEF IInv, Types
<1>1. task[t].at \in Loading /\ task[t].at # "idle" /\ task[t].at # "get"
  BY DEF CloseForRepair, Repaired, Loading
<1>2. task[t].out # "warm"
  BY <1>1 DEF IInv, ServersLoad, CallersLock, Tasks
<1>3. PICK at \in Loading : task' = [task EXCEPT ![t].at = at]
  BY DEF CloseForRepair, Repaired, Loading, Entrance
<1> DEFINE r == [task[t] EXCEPT !.at = at]
<1>4. /\ r \in Task /\ r.server = task[t].server /\ r.tool = task[t].tool /\ r.out = task[t].out
      /\ r.at = at
  BY <1>0 DEF Task, Loading
<1>5. task' = [task EXCEPT ![t] = r]
  BY <1>0, <1>3
<1>6. session' \in [Servers -> Nat] /\ opened' \in Nat /\ UNCHANGED <<phase, client, lock, proxy>>
  BY <1>0 DEF CloseForRepair, Repaired
<1> HIDE DEF r
<1> QED
  BY <1>1, <1>2, <1>3, <1>4, <1>5, <1>6, LoadGoesOn

\* A proxy is locked or released, ...
LEMMA ProxyLocks ==
  ASSUME IInv, NEW s \in Servers, NEW n \in Tools, NEW l \in Callers \cup {None},
         proxy' = [proxy EXCEPT ![<<s, n>>].lock = l]
  PROVE  /\ proxy' \in [Servers \X Tools -> Proxy]
         /\ \A q \in Servers, m \in Tools : proxy'[<<q, m>>].loaded = proxy[<<q, m>>].loaded
<1>0. proxy \in [Servers \X Tools -> Proxy] /\ <<s, n>> \in Servers \X Tools
  BY DEF IInv, Types
<1> DEFINE x == [proxy[<<s, n>>] EXCEPT !.lock = l]
<1>1. proxy' = [proxy EXCEPT ![<<s, n>>] = x]
  BY <1>0
<1>2. x \in Proxy /\ x.loaded = proxy[<<s, n>>].loaded
  BY <1>0 DEF Proxy
<1> HIDE DEF x
<1> QED
  BY <1>0, <1>1, <1>2

\* ... or is loaded with a tool of a server that is known.
LEMMA ProxyLoads ==
  ASSUME IInv, NEW s \in Servers, NEW n \in Tools, NEW v \in Nat,
         proxy' = [proxy EXCEPT ![<<s, n>>] = Bound(v)]
  PROVE  /\ proxy' \in [Servers \X Tools -> Proxy]
         /\ \A q \in Servers, m \in Tools :
              proxy'[<<q, m>>].loaded => q = s \/ proxy[<<q, m>>].loaded
<1>1. Bound(v) \in Proxy
  BY DEF Bound, Proxy
<1> QED
  BY <1>1 DEF IInv, Types

\* An exception ends the load: the locks of a caller are released.
LEMMA RaisedKeeps ==
  ASSUME IInv, NEW t \in Tasks, task[t].at \in Loading, task[t].out # "warm",
         NEW error \in {"raised", "ValueError"}, Raised(t, error), UNCHANGED <<phase, session, opened>>
  PROVE  IInv'
<1> DEFINE s == task[t].server
           r == [Idle EXCEPT !.out = error]
<1>0. task[t].at # "idle"
  BY DEF Loading
<1>1. r \in Task /\ r.at = "idle" /\ r.out # "loaded"
  BY DEF Idle, Task
<1>2. s \in Servers /\ task' = [task EXCEPT ![t] = r] /\ client' = client
  BY <1>0, Busy DEF Raised
<1>3. lock' \in [Servers -> Callers \cup {None}]
  BY DEF Raised, IInv, Types
<1>4. proxy' \in [Servers \X Tools -> Proxy]
      /\ \A q \in Servers, m \in Tools : proxy'[<<q, m>>].loaded = proxy[<<q, m>>].loaded
  <2>1. CASE t \in Servers
    BY <2>1 DEF Raised, IInv, Types
  <2>2. CASE t \notin Servers
    <3>1. task[t].tool \in Tools
      BY <1>0, <2>2, Busy DEF Tasks
    <3>2. proxy' = [proxy EXCEPT ![<<s, task[t].tool>>].lock = None]
      BY <2>2 DEF Raised
    <3> QED
      BY <1>2, <3>1, <3>2, ProxyLocks
  <2> QED
    BY <2>1, <2>2
<1>5. Types'
  BY <1>1, <1>2, <1>3, <1>4 DEF IInv, Types
<1>6. \A u \in Callers \ {t} : task[u].at \in Loading => lock'[task[u].server] = u
  <2>1. \A u \in Callers : task[u].at \in Loading => task[u].server \in Servers /\ lock[task[u].server] = u
    BY DEF IInv, CallersLock, Loading
  <2> QED
    BY <1>2, <2>1 DEF Raised, IInv, Types
<1>7. phase # "off" /\ r.at \notin Loading
  BY <1>0, <1>1, Busy DEF Loading
<1>8. /\ \A u \in Tasks : task[u].at \in Loading /\ task[u].out # "warm" =>
           ~client.live[task[u].server].known
      /\ \A q \in Servers, n \in Tools : proxy'[<<q, n>>].loaded => client.live[q].known
  BY <1>4 DEF IInv, LoadsUnknown, LoadedKnown
<1> HIDE DEF r, s
<1> QED
  BY <1>1, <1>2, <1>5, <1>6, <1>7, <1>8, OneTask

\* The end of a load makes the server known, to nobody's surprise: no other task
\* loads it.
LEMMA ListedKeeps ==
  ASSUME IInv, NEW t \in Tasks, task[t].at \in Loading, task[t].out # "warm",
         NEW tools \in SUBSET Tools, NEW via \in Nat, Listed(t, tools, via),
         UNCHANGED <<phase, session, opened>>
  PROVE  IInv'
<1> DEFINE s == task[t].server
           n == task[t].tool
           e == [known |-> TRUE, tools |-> tools, via |-> via]
<1>0. task[t].at # "idle"
  BY DEF Loading
<1>1. task[t] \in Task /\ s \in Servers /\ phase \notin {"off", "warming"}
  BY <1>0, Busy
<1>2. e \in Live /\ e.known
  BY DEF Live
<1>3. client' = [client EXCEPT !.live[s] = e] /\ IsClient(client)
  BY DEF Listed, IInv, Types
<1> HIDE DEF e
<1>4. IsClient(client') /\ client'.ready = client.ready /\ client'.live = [client.live EXCEPT ![s] = e]
  BY <1>1, <1>2, <1>3, LiveChanges
<1>5. client'.live[s].known /\ \A q \in Servers \ {s} : client'.live[q] = client.live[q]
  BY <1>1, <1>2, <1>3, <1>4 DEF IsClient
<1>6. \A u \in Tasks \ {t} : task[u].at \in Loading => task[u].server \in Servers \ {s}
  BY <1>0, Alone, Busy DEF Loading
<1>7. \A u \in Tasks \ {t} : task[u].at \in Loading /\ task[u].out # "warm" =>
        ~client'.live[task[u].server].known
  BY <1>5, <1>6 DEF IInv, LoadsUnknown
<1>8. \A q \in Servers : client.live[q].known => client'.live[q].known
  BY <1>5
<1>9. \A q \in Servers, m \in Tools : q = s \/ proxy[<<q, m>>].loaded => client'.live[q].known
  BY <1>5, <1>8 DEF IInv, LoadedKnown
<1>10. CASE t \in Servers
  <2> DEFINE r == [task[t] EXCEPT !.at = "idle", !.out = "loaded"]
  <2>1. r \in Task /\ r.at = "idle" /\ r.out = "loaded"
    BY <1>1 DEF Task
  <2>2. task' = [task EXCEPT ![t] = r] /\ UNCHANGED <<lock, proxy>>
    BY <1>10 DEF Listed, IInv, Types
  <2>3. s = t /\ t \notin Callers
    BY <1>0, <1>10, Busy, ClientAssumption
  <2>4. Types'
    BY <1>4, <2>1, <2>2 DEF IInv, Types
  <2>5. \A u \in Callers : task[u].at \in Loading => lock'[task[u].server] = u
    BY <2>2 DEF IInv, CallersLock, Loading
  <2>6. r.at \notin Loading
    BY <2>1 DEF Loading
  <2> HIDE DEF r, s
  <2> QED
    BY <1>1, <1>4, <1>5, <1>7, <1>8, <1>9, <2>1, <2>2, <2>3, <2>4, <2>5, <2>6, OneTask
<1>11. CASE t \notin Servers
  <2>1. t \in Callers /\ n \in Tools /\ phase = "running"
    BY <1>0, <1>11, Busy DEF Tasks, IInv, CallersLock
  <2>2. lock' = [lock EXCEPT ![s] = None] /\ lock' \in [Servers -> Callers \cup {None}]
    BY <1>1, <1>11 DEF Listed, IInv, Types
  <2>3. \A u \in Callers \ {t} : task[u].at \in Loading => lock'[task[u].server] = u
    <3>1. \A u \in Callers : task[u].at \in Loading => lock[task[u].server] = u
      BY DEF IInv, CallersLock, Loading
    <3> QED
      BY <1>6, <2>1, <2>2, <3>1 DEF Tasks, IInv, Types
  <2>4. PICK r \in Task : /\ task' = [task EXCEPT ![t] = r] /\ r.at \in {"invoke", "idle"}
                          /\ r.at = "invoke" => r.server = s /\ r.tool = n
    <3>1. CASE n \in tools
      <4> DEFINE r == [task[t] EXCEPT !.at = "invoke"]
      <4>1. r \in Task /\ r.at = "invoke" /\ r.server = s /\ r.tool = n
        BY <1>1 DEF Task
      <4>2. task' = [task EXCEPT ![t] = r]
        BY <1>11, <3>1 DEF Listed, IInv, Types
      <4> QED
        BY <4>1, <4>2
    <3>2. CASE n \notin tools
      <4>1. [Idle EXCEPT !.out = "raised"] \in Task /\ [Idle EXCEPT !.out = "raised"].at = "idle"
        BY DEF Idle, Task
      <4> QED
        BY <1>11, <3>2, <4>1 DEF Listed
    <3> QED
      BY <3>1, <3>2
  <2>5. /\ proxy' \in [Servers \X Tools -> Proxy]
        /\ \A q \in Servers, m \in Tools :
             proxy'[<<q, m>>].loaded => q = s \/ proxy[<<q, m>>].loaded
    <3>1. CASE n \in tools
      <4>1. proxy' = [proxy EXCEPT ![<<s, n>>] = Bound(via)]
        BY <1>11, <3>1 DEF Listed
      <4> QED
        BY <1>1, <2>1, <4>1, ProxyLoads
    <3>2. CASE n \notin tools
      <4>1. proxy' = [proxy EXCEPT ![<<s, n>>].lock = None]
        BY <1>11, <3>2 DEF Listed
      <4> QED
        BY <1>1, <2>1, <4>1, ProxyLocks
    <3> QED
      BY <3>1, <3>2
  <2>6. Types'
    BY <1>4, <2>2, <2>4, <2>5 DEF IInv, Types
  <2>7. r.at \notin Loading
    BY <2>4 DEF Loading
  <2>8. r.at # "idle" => phase = "running" /\ r.server \in Servers /\ r.tool \in Tools
    BY <1>1, <2>1, <2>4
  <2>9. \A q \in Servers, m \in Tools : proxy'[<<q, m>>].loaded => client'.live[q].known
    BY <1>9, <2>5
  <2>10. task' = [task EXCEPT ![t] = r]
    BY <2>4
  <2> HIDE DEF s, n
  <2> QED
    BY <1>1, <1>4, <1>7, <1>8, <1>11, <2>3, <2>6, <2>7, <2>8, <2>9, <2>10, OneTask
<1> QED
  BY <1>10, <1>11

\* A failure ends a warm-up, is raised, is repaired once, or is an empty answer.
LEMMA FailedKeeps ==
  ASSUME IInv, NEW t \in Tasks, task[t].at \in {"get", "list"}, NEW mcp \in BOOLEAN,
         Failed(t, mcp), UNCHANGED <<phase, session, opened>>
  PROVE  IInv'
<1>0. /\ task[t].at \in Loading /\ task[t] \in Task /\ task \in [Tasks -> Task]
      /\ session' \in [Servers -> Nat] /\ opened' \in Nat
  BY DEF IInv, Types, Loading
<1>1. CASE task[t].out = "warm"
  <2> DEFINE r == [task[t] EXCEPT !.at = "idle"]
  <2>1. /\ r \in Task /\ r.server = task[t].server /\ r.tool = task[t].tool /\ r.out = task[t].out
        /\ r.at = "idle"
    BY <1>0 DEF Task
  <2>2. task' = [task EXCEPT ![t] = r] /\ UNCHANGED <<client, lock, proxy>>
    BY <1>0, <1>1 DEF Failed
  <2> HIDE DEF r
  <2> QED
    BY <1>0, <2>1, <2>2, LoadGoesOn
<1>2. CASE task[t].out # "warm" /\ task[t].again
  BY <1>0, <1>2, RaisedKeeps DEF Failed
<1>3. CASE task[t].out # "warm" /\ ~task[t].again /\ mcp /\ client.conf[task[t].server].repair
  <2> DEFINE r == [task[t] EXCEPT !.at = "close", !.again = TRUE]
  <2>1. /\ r \in Task /\ r.server = task[t].server /\ r.tool = task[t].tool /\ r.out = task[t].out
        /\ r.at \in Loading
    BY <1>0 DEF Task, Loading
  <2>2. task' = [task EXCEPT ![t] = r] /\ UNCHANGED <<client, lock, proxy>>
    BY <1>0, <1>3 DEF Failed
  <2> HIDE DEF r
  <2> QED
    BY <1>0, <1>3, <2>1, <2>2, LoadGoesOn
<1>4. CASE /\ task[t].out # "warm" /\ ~task[t].again
           /\ ~(mcp /\ client.conf[task[t].server].repair)
  <2>1. Listed(t, {}, 0)
    BY <1>4 DEF Failed
  <2> QED
    BY <1>0, <1>4, <2>1, ListedKeeps
<1> QED
  BY <1>1, <1>2, <1>3, <1>4

\* The answers to a load.
LEMMA AnswerKeeps ==
  ASSUME IInv, NEW t \in Tasks, Answer(t)
  PROVE  IInv'
<1>1. CASE GetFails(t)
  BY <1>1, FailedKeeps DEF GetFails
<1>2. CASE List(t)
  <2> DEFINE s == task[t].server
             tools == Offers[s] \cap Allowed(client.conf[s])
  <2>1. task[t].at \in Loading /\ task[t].at # "idle" /\ task[t].at # "get"
    BY <1>2 DEF List, Loading
  <2>2. task[t].out # "warm"
    BY <2>1 DEF IInv, ServersLoad, CallersLock, Tasks
  <2>3. s \in Servers
    BY <2>1, Busy
  <2>4. tools \in SUBSET Tools /\ session[s] \in Nat
    BY <2>3, ClientAssumption DEF IInv, Types
  <2>5. UNCHANGED <<phase, session, opened>>
    BY <1>2 DEF List
  <2>6. CASE Raised(t, "ValueError")
    BY <2>1, <2>2, <2>5, <2>6, RaisedKeeps
  <2>7. CASE Listed(t, tools, session[s])
    BY <2>1, <2>2, <2>4, <2>5, <2>7, ListedKeeps
  <2>8. CASE \E mcp \in BOOLEAN : Failed(t, mcp)
    BY <1>2, <2>5, <2>8, FailedKeeps DEF List
  <2> QED
    BY <1>2, <2>6, <2>7, <2>8 DEF List
<1> QED
  BY <1>1, <1>2, GotKeeps, RepairKeeps DEF Answer

-----------------------------------------------------------------------------
(* The steps of a call *)

\* A caller goes on without loading, or begins to under the server's lock.
LEMMA CallGoesOn ==
  ASSUME IInv, NEW p \in Callers, phase = "running", NEW s \in Servers, NEW n \in Tools,
         NEW at \in {"idle", "get", "list", "proxy", "server", "invoke"}, NEW r \in Task,
         task' = [task EXCEPT ![p] = r], r.at = at, at # "idle" => r.server = s /\ r.tool = n,
         at \in {"get", "list"} => /\ lock[s] = None /\ lock' = [lock EXCEPT ![s] = p]
                                   /\ ~client.live[s].known /\ r.out # "warm",
         at \notin {"get", "list"} => UNCHANGED lock,
         proxy' \in [Servers \X Tools -> Proxy],
         \A q \in Servers, m \in Tools : proxy'[<<q, m>>].loaded => client.live[q].known,
         UNCHANGED <<phase, client, session, opened>>
  PROVE  IInv'
<1>1. p \in Tasks /\ p \notin Servers
  BY ClientAssumption DEF Tasks
<1>2. lock' \in [Servers -> Callers \cup {None}] /\ (at \in {"get", "list"} => lock'[s] = p)
  BY DEF IInv, Types
<1>3. Types'
  BY <1>1, <1>2 DEF IInv, Types
<1>4. \A u \in Callers \ {p} : task[u].at \in Loading => lock'[task[u].server] = u
  <2>1. \A u \in Callers : task[u].at \in Loading => task[u].server \in Servers /\ lock[task[u].server] = u
    BY DEF IInv, CallersLock, Loading
  <2> QED
    BY <2>1, ClientAssumption DEF IInv, Types
<1>5. \A u \in Tasks : task[u].at \in Loading /\ task[u].out # "warm" =>
        ~client.live[task[u].server].known
  BY DEF IInv, LoadsUnknown
<1>6. r.at # "idle" => /\ r.server \in Servers /\ r.tool \in Tools
                       /\ r.at \in Loading => /\ lock'[r.server] = p /\ r.out # "warm"
                                              /\ ~client.live[r.server].known
  BY <1>2 DEF Loading
<1>7. r.at \in Loading /\ r.out # "warm" => ~client.live[r.server].known
  BY <1>6 DEF Loading
<1> QED
  BY <1>1, <1>3, <1>4, <1>5, <1>6, <1>7, OneTask

\* A look at what is known: the tool is bound to the proxy, or is not there, or the
\* server's lock is next.
LEMMA LookedUpKeeps ==
  ASSUME IInv, NEW p \in Callers, phase = "running", NEW s \in Servers, NEW n \in Tools,
         LookedUp(p, s, n), UNCHANGED <<phase, client, session, opened, lock>>
  PROVE  IInv'
<1> DEFINE R(at) == [Idle EXCEPT !.at = at, !.server = s, !.tool = n]
<1>0. \A at \in {"invoke", "server"} :
        R(at) \in Task /\ R(at).at = at /\ R(at).server = s /\ R(at).tool = n
  BY DEF Idle, Task
<1>1. \A q \in Servers, m \in Tools : proxy[<<q, m>>].loaded => client.live[q].known
  BY DEF IInv, LoadedKnown
<1>2. CASE client.live[s].known /\ n \in client.live[s].tools
  <2>1. task' = [task EXCEPT ![p] = R("invoke")]
    BY <1>2 DEF LookedUp
  <2>2. client.live[s].via \in Nat
    BY DEF IInv, Types, IsClient, Live
  <2>3. proxy' = [proxy EXCEPT ![<<s, n>>] = Bound(client.live[s].via)]
    BY <1>2 DEF LookedUp
  <2>4. /\ proxy' \in [Servers \X Tools -> Proxy]
        /\ \A q \in Servers, m \in Tools : proxy'[<<q, m>>].loaded => client.live[q].known
    BY <1>1, <1>2, <2>2, <2>3, ProxyLoads
  <2> HIDE DEF R
  <2> QED
    BY <1>0, <2>1, <2>4, CallGoesOn
<1>3. CASE client.live[s].known /\ n \notin client.live[s].tools
  <2> DEFINE r == [Idle EXCEPT !.out = "raised"]
  <2>1. r \in Task /\ r.at = "idle"
    BY DEF Idle, Task
  <2>2. task' = [task EXCEPT ![p] = r]
    BY <1>3 DEF LookedUp
  <2>3. proxy' = [proxy EXCEPT ![<<s, n>>].lock = None]
    BY <1>3 DEF LookedUp
  <2>4. /\ proxy' \in [Servers \X Tools -> Proxy]
        /\ \A q \in Servers, m \in Tools : proxy'[<<q, m>>].loaded => client.live[q].known
    BY <1>1, <2>3, ProxyLocks
  <2> HIDE DEF r
  <2> QED
    BY <2>1, <2>2, <2>4, CallGoesOn
<1>4. CASE ~client.live[s].known
  <2>1. task' = [task EXCEPT ![p] = R("server")]
    BY <1>4 DEF LookedUp
  <2>2. proxy' = [proxy EXCEPT ![<<s, n>>].lock = p]
    BY <1>4 DEF LookedUp
  <2>3. /\ proxy' \in [Servers \X Tools -> Proxy]
        /\ \A q \in Servers, m \in Tools : proxy'[<<q, m>>].loaded => client.live[q].known
    BY <1>1, <2>2, ProxyLocks
  <2> HIDE DEF R
  <2> QED
    BY <1>0, <2>1, <2>3, CallGoesOn
<1> QED
  BY <1>2, <1>3, <1>4

\* A loaded proxy is used at once, a locked one is waited for.
LEMMA EnsureKeeps ==
  ASSUME IInv, NEW p \in Callers, phase = "running", NEW s \in Servers, NEW n \in Tools,
         Ensure(p, s, n), UNCHANGED <<phase, client, session, opened, lock>>
  PROVE  IInv'
<1> DEFINE R(at) == [Idle EXCEPT !.at = at, !.server = s, !.tool = n]
<1>0. \A at \in {"invoke", "proxy"} :
        R(at) \in Task /\ R(at).at = at /\ R(at).server = s /\ R(at).tool = n
  BY DEF Idle, Task
<1>1. \A q \in Servers, m \in Tools : proxy[<<q, m>>].loaded => client.live[q].known
  BY DEF IInv, LoadedKnown
<1>2. CASE UNCHANGED proxy
  <2>1. proxy' \in [Servers \X Tools -> Proxy]
    BY <1>2 DEF IInv, Types
  <2>2. LookedUp(p, s, n) \/ \E at \in {"invoke", "proxy"} : task' = [task EXCEPT ![p] = R(at)]
    BY DEF Ensure
  <2>3. CASE LookedUp(p, s, n)
    BY <2>3, LookedUpKeeps
  <2>4. CASE \E at \in {"invoke", "proxy"} : task' = [task EXCEPT ![p] = R(at)]
    <3>1. PICK at \in {"invoke", "proxy"} : task' = [task EXCEPT ![p] = R(at)]
      BY <2>4
    <3> HIDE DEF R
    <3> QED
      BY <1>0, <1>1, <1>2, <2>1, <3>1, CallGoesOn
  <2> QED
    BY <2>2, <2>3, <2>4
<1>3. CASE LookedUp(p, s, n)
  BY <1>3, LookedUpKeeps
<1> QED
  BY <1>2, <1>3 DEF Ensure

\* The steps of a caller.
LEMMA CallerKeeps ==
  ASSUME IInv, NEW p \in Callers,
         Proceed(p) \/ \E s \in Servers, n \in Tools : Call(p, s, n)
  PROVE  IInv'
<1> DEFINE s == task[p].server
           n == task[p].tool
<1>0. p \in Tasks /\ \A q \in Servers, m \in Tools : proxy[<<q, m>>].loaded => client.live[q].known
  BY DEF IInv, LoadedKnown, Tasks
<1>1. ASSUME NEW q \in Servers, NEW m \in Tools, Call(p, q, m)
      PROVE  IInv'
  BY <1>1, EnsureKeeps DEF Call
<1>2. task[p].at # "idle" => phase = "running" /\ s \in Servers /\ n \in Tools
  BY DEF IInv, CallersLock
<1>3. CASE ProxyLocked(p)
  BY <1>2, <1>3, EnsureKeeps DEF ProxyLocked
<1>4. CASE ServerLocked(p)
  <2>1. CASE SecondLook(s)
    BY <1>2, <1>4, <2>1, LookedUpKeeps DEF ServerLocked
  <2>2. CASE ~SecondLook(s)
    <3> DEFINE at == IF client.conf[s].stateful THEN "get" ELSE "list"
               r == [task[p] EXCEPT !.at = at, !.server = s, !.again = FALSE, !.out = "none"]
    <3>1. task' = [task EXCEPT ![p] = r] /\ lock' = [lock EXCEPT ![s] = p]
          /\ UNCHANGED <<phase, client, session, opened, proxy>> /\ lock[s] = None
      BY <1>4, <2>2 DEF ServerLocked, Load, Entrance, ServerLockFree
    <3>2. task[p] \in Task /\ phase = "running" /\ s \in Servers /\ n \in Tools
      BY <1>0, <1>2, <1>4 DEF ServerLocked, IInv, Types
    <3>3. r \in Task /\ r.at = at /\ r.server = s /\ r.tool = n /\ r.out = "none"
      BY <3>2 DEF Task
    <3>4. at \in {"get", "list"} /\ ~client.live[s].known
      BY <2>2 DEF SecondLook
    <3>5. proxy' \in [Servers \X Tools -> Proxy]
      BY <3>1 DEF IInv, Types
    <3> HIDE DEF at, r, s, n
    <3> QED
      BY <1>0, <3>1, <3>2, <3>3, <3>4, <3>5, CallGoesOn
  <2> QED
    BY <2>1, <2>2
<1>5. CASE Invoked(p)
  <2>1. PICK out \in {"returned", "raised"} : task' = [task EXCEPT ![p] = [Idle EXCEPT !.out = out]]
    BY <1>5 DEF Invoked
  <2> DEFINE r == [Idle EXCEPT !.out = out]
  <2>2. r \in Task /\ r.at = "idle"
    BY DEF Idle, Task
  <2>3. UNCHANGED <<phase, client, session, opened, lock, proxy>> /\ proxy' \in [Servers \X Tools -> Proxy]
    BY <1>5 DEF Invoked, IInv, Types
  <2>4. phase = "running" /\ s \in Servers /\ n \in Tools
    BY <1>2, <1>5 DEF Invoked
  <2>5. task' = [task EXCEPT ![p] = r]
    BY <2>1
  <2> HIDE DEF r, s, n
  <2> QED
    BY <1>0, <2>2, <2>3, <2>4, <2>5, CallGoesOn
<1> QED
  BY <1>1, <1>3, <1>4, <1>5 DEF Proceed

\* Cancelled calls hold no locks and load nothing.
LEMMA CancelKeeps ==
  ASSUME IInv, Cancel
  PROVE  IInv'
<1>0. phase = "running" /\ UNCHANGED <<phase, client, session, opened>> /\ Idle \in Task
  BY DEF Cancel, Idle, Task
<1>1. \A t \in Tasks : task'[t] = IF t \in Callers THEN Idle ELSE task[t]
  BY DEF Cancel
<1>2. \A t \in Servers : task'[t] = task[t] /\ task[t].at = "idle" /\ t \in Tasks
  BY <1>0, <1>1, ClientAssumption DEF IInv, ServersLoad, Tasks
<1>3. \A t \in Tasks : task'[t].at = "idle"
  BY <1>1, <1>2 DEF Tasks, Idle
<1>4. \A q \in Servers, m \in Tools : proxy'[<<q, m>>].loaded = proxy[<<q, m>>].loaded
  BY DEF Cancel, ReleaseLocks, IInv, Types, Proxy
<1>5. Types'
  <2>1. task' \in [Tasks -> Task]
    BY <1>0 DEF Cancel, IInv, Types
  <2>2. proxy' \in [Servers \X Tools -> Proxy]
    BY DEF Cancel, ReleaseLocks, IInv, Types, Proxy
  <2>3. lock' \in [Servers -> Callers \cup {None}]
    BY DEF Cancel, ReleaseLocks
  <2> QED
    BY <1>0, <2>1, <2>2, <2>3 DEF IInv, Types
<1>6. ServersLoad' /\ CallersLock' /\ LoadsUnknown'
  BY <1>3 DEF ServersLoad, CallersLock, LoadsUnknown, Loading, Tasks
<1>7. LoadedKnown'
  BY <1>0, <1>2, <1>4 DEF IInv, LoadedKnown
<1>8. Phases'
  BY <1>0 DEF IInv, Phases
<1> QED
  BY <1>5, <1>6, <1>7, <1>8 DEF IInv

-----------------------------------------------------------------------------
(* The graph's life *)

\* While no task does anything the locks do not matter.
LEMMA Quiet ==
  ASSUME IInv, Types', LoadedKnown', Phases', \A t \in Tasks : task'[t].at = "idle"
  PROVE  IInv'
<1>1. ServersLoad' /\ CallersLock' /\ LoadsUnknown'
  BY DEF ServersLoad, CallersLock, LoadsUnknown, Loading, Tasks
<1> QED
  BY <1>1 DEF IInv

LEMMA AllIdle ==
  ASSUME IInv, phase \notin {"warming", "loading", "running"}
  PROVE  \A t \in Tasks : task[t].at = "idle"
BY DEF IInv, ServersLoad, CallersLock, Tasks

\* A clean-up ends with a client that had its tools, and no task.
LEMMA LifeKeeps ==
  ASSUME IInv, Reload \/ CleanUp \/ \E s \in Servers : Crash(s)
  PROVE  IInv'
<1>0. UNCHANGED <<client, opened, lock, proxy>> /\ Idle \in Task
  BY DEF Reload, CleanUp, Crash, Idle, Task
<1>1. CASE Reload
  <2>1. Types' /\ LoadedKnown' /\ Phases'
    BY <1>0, <1>1 DEF Reload, IInv, Types, LoadedKnown, Phases
  <2>2. \A t \in Tasks : task'[t].at = "idle"
    BY <1>1 DEF Reload, IInv, ServersLoad, Tasks
  <2> QED
    BY <2>1, <2>2, Quiet
<1>2. CASE CleanUp
  <2>0. Idle.at = "idle" /\ Idle.out = "none"
    BY DEF Idle
  <2>1. task' = [t \in Tasks |-> Idle] /\ session' = [s \in Servers |-> 0]
        /\ phase = "closing" /\ phase' \in {"off", "failed"}
    BY <1>2 DEF CleanUp
  <2>2. \A t \in Servers : task'[t].out = "none"
    BY <2>0, <2>1 DEF Tasks
  <2>3. Types'
    BY <1>0, <2>1 DEF IInv, Types
  <2>4. LoadedKnown'
    BY <1>0, <2>2 DEF IInv, LoadedKnown
  <2>5. Phases'
    BY <1>0, <2>1, <2>2 DEF IInv, Phases
  <2>6. \A t \in Tasks : task'[t].at = "idle"
    BY <2>0, <2>1
  <2> QED
    BY <2>3, <2>4, <2>5, <2>6, Quiet
<1>3. ASSUME NEW s \in Servers, Crash(s)
      PROVE  IInv'
  <2>1. UNCHANGED <<phase, task>> /\ session' \in [Servers -> Nat]
    BY <1>3 DEF Crash, IInv, Types
  <2> QED
    BY <1>0, <2>1 DEF IInv, Types, ServersLoad, CallersLock, LoadsUnknown, LoadedKnown, Phases
<1> QED
  BY <1>1, <1>2, <1>3

\* The client of a graph is the last one, with what it knows, or a new one that
\* knows nothing.
LEMMA FactoryKeeps ==
  ASSUME IInv
  PROVE  /\ IsClient(FactoryClient)
         /\ SameClient => FactoryClient = client
         /\ ~SameClient => /\ ~FactoryClient.ready
                           /\ \A s \in Servers : ~FactoryClient.live[s].known
<1>1. CASE SameClient
  BY <1>1 DEF FactoryClient, IInv, Types
<1>2. CASE ~SameClient
  <2> DEFINE conn == Connections(conf, Agents[agent])
             new == NewClient(conf, conn)
  <2>1. DOMAIN conn \subseteq Servers
    BY DEF Connections, Connectable
  <2> HIDE DEF conn
  <2>2. new = [conf |-> conf, conn |-> conn, ready |-> FALSE, tools |-> {},
               live |-> [s \in Servers |-> Absent]]
    BY DEF NewClient
  <2>3. Absent \in Live /\ ~Absent.known
    BY DEF Absent, Live
  <2>4. FactoryClient = new
    BY <1>2 DEF FactoryClient, conn
  <2> HIDE DEF new
  <2> QED
    BY <1>2, <2>1, <2>2, <2>3, <2>4 DEF IsClient
<1> QED
  BY <1>1, <1>2

LEMMA CreateKeeps ==
  ASSUME IInv, Create
  PROVE  IInv'
<1>0. /\ phase = "off" /\ client' = FactoryClient /\ UNCHANGED <<session, opened, lock>>
      /\ proxy' = IF SameClient THEN proxy ELSE [x \in DOMAIN proxy |-> Unloaded]
      /\ Idle \in Task /\ Unloaded \in Proxy /\ ~Unloaded.loaded
  BY DEF Create, Idle, Task, Unloaded, Proxy
<1>1. /\ proxy' \in [Servers \X Tools -> Proxy]
      /\ \A s \in Servers, n \in Tools : proxy'[<<s, n>>].loaded => SameClient /\ proxy[<<s, n>>].loaded
  BY <1>0 DEF IInv, Types
<1>2. \A s \in Servers, n \in Tools : proxy'[<<s, n>>].loaded => client'.live[s].known
  BY <1>0, <1>1, FactoryKeeps DEF IInv, LoadedKnown
<1>3. \A t \in Tasks : task[t].at = "idle"
  BY <1>0, AllIdle
<1>4. \A t \in Servers : task[t].out # "loaded"
  BY <1>0 DEF IInv, Phases
<1>5. CASE phase' \in {"running", "failed"} /\ UNCHANGED task /\ (phase' = "running" => client'.ready)
  <2>1. Types'
    BY <1>0, <1>1, <1>5, FactoryKeeps DEF IInv, Types
  <2>2. LoadedKnown'
    BY <1>2, <1>4, <1>5 DEF LoadedKnown
  <2>3. Phases'
    BY <1>5 DEF Phases
  <2> QED
    BY <1>3, <1>5, <2>1, <2>2, <2>3, Quiet
<1>6. ASSUME NEW cached \in SUBSET DOMAIN client'.conn, phase' = "warming", ~client'.ready,
             task' = [t \in Tasks |->
                        IF t \in cached /\ conf[t].stateful
                        THEN [Idle EXCEPT !.at = "get", !.server = t, !.out = "warm"] ELSE Idle]
      PROVE  IInv'
  <2> DEFINE W(t) == [Idle EXCEPT !.at = "get", !.server = t, !.out = "warm"]
  <2>1. cached \subseteq Servers
    BY <1>0, <1>6, FactoryKeeps DEF IsClient
  <2>2. \A t \in Servers : W(t) \in Task /\ W(t).at = "get" /\ W(t).server = t /\ W(t).out = "warm"
    BY DEF Idle, Task
  <2>3. Idle.at = "idle" /\ Idle.out = "none"
    BY DEF Idle
  <2>4. \A t \in Tasks : task'[t] = Idle \/ (t \in Servers /\ task'[t] = W(t))
    BY <1>6, <2>1
  <2> HIDE DEF W
  <2>5. task' \in [Tasks -> Task]
    <3>1. \A t \in Tasks : task'[t] \in Task
      BY <1>0, <2>2, <2>4
    <3> QED
      BY <1>6, <3>1
  <2>6. Types'
    BY <1>0, <1>1, <2>5, FactoryKeeps DEF IInv, Types
  <2>7. ServersLoad'
    BY <1>6, <2>2, <2>3, <2>4 DEF ServersLoad, Loading, Tasks
  <2>8. CallersLock'
    BY <2>3, <2>4, ClientAssumption DEF CallersLock, Tasks
  <2>9. LoadsUnknown'
    BY <2>2, <2>3, <2>4 DEF LoadsUnknown, Loading
  <2>10. LoadedKnown'
    BY <1>2, <2>2, <2>3, <2>4 DEF LoadedKnown, Tasks
  <2>11. Phases'
    <3>1. SameClient => client.ready
      BY <1>0 DEF IInv, Phases, SameClient
    <3> QED
      BY <1>0, <1>6, <3>1, FactoryKeeps DEF Phases
  <2> QED
    BY <2>6, <2>7, <2>8, <2>9, <2>10, <2>11 DEF IInv
<1> QED
  <2> DEFINE cached == {s \in DOMAIN client'.conn : Cached(conf, s) # {}}
  <2>1. \/ client'.ready /\ phase' = "running" /\ UNCHANGED task
        \/ phase' = "failed" /\ UNCHANGED task
        \/ /\ ~client'.ready /\ phase' = "warming"
           /\ task' = [t \in Tasks |->
                        IF t \in cached /\ conf[t].stateful
                        THEN [Idle EXCEPT !.at = "get", !.server = t, !.out = "warm"] ELSE Idle]
    BY DEF Create
  <2>2. cached \in SUBSET DOMAIN client'.conn
    OBVIOUS
  <2> HIDE DEF cached
  <2> QED
    BY <1>5, <1>6, <2>1, <2>2

\* The servers that are not cached are loaded, none of them known.
LEMMA PendingKeeps ==
  ASSUME IInv, LoadPending
  PROVE  IInv'
<1> DEFINE R(t) == [task[t] EXCEPT !.at = Entrance(t), !.server = t, !.again = FALSE, !.out = "none"]
<1>0. /\ phase = "warming" /\ phase' = "loading" /\ UNCHANGED <<client, session, opened, lock, proxy>>
      /\ task \in [Tasks -> Task] /\ DOMAIN client.conn \subseteq Servers
  BY DEF LoadPending, IInv, Types, IsClient
<1>1. \A t \in Tasks : task[t].at = "idle"
  BY <1>0 DEF LoadPending, IInv, CallersLock, Tasks
<1>2. task' = [t \in Tasks |-> IF t \in DOMAIN client.conn /\ Cached(client.conf, t) = {}
                              THEN R(t) ELSE task[t]]
  BY DEF LoadPending, Load
<1>3. \A t \in Servers : /\ R(t) \in Task /\ R(t).at \in {"get", "list"} /\ R(t).server = t
                         /\ R(t).out = "none"
  <2>1. \A t \in Servers : task[t] \in Task /\ Entrance(t) \in {"get", "list"}
    BY <1>0 DEF Tasks, Entrance
  <2> QED
    BY <2>1 DEF Task
<1>4. \A t \in Tasks : task'[t] = task[t] \/ (t \in Servers /\ task'[t] = R(t))
  BY <1>0, <1>2
<1> HIDE DEF R
<1>5. task' \in [Tasks -> Task]
  <2>1. \A t \in Tasks : task'[t] \in Task
    BY <1>0, <1>3, <1>4
  <2> QED
    BY <1>2, <2>1
<1>6. Types'
  BY <1>0, <1>5 DEF IInv, Types
<1>7. ServersLoad'
  BY <1>0, <1>1, <1>3, <1>4 DEF ServersLoad, Loading, Tasks
<1>8. CallersLock'
  BY <1>1, <1>4, ClientAssumption DEF CallersLock, Tasks
<1>9. LoadsUnknown'
  <2>1. \A s \in Servers : ~client.live[s].known
    BY <1>0 DEF IInv, Phases
  <2> QED
    BY <1>0, <1>1, <1>3, <1>4, <2>1 DEF LoadsUnknown, Loading
<1>10. LoadedKnown'
  BY <1>0, <1>3, <1>4 DEF IInv, LoadedKnown, Tasks
<1>11. Phases'
  BY <1>0 DEF Phases
<1> QED
  BY <1>6, <1>7, <1>8, <1>9, <1>10, <1>11 DEF IInv

\* The proxies of servers that were loaded are bound, and these are known.
LEMMA LoadedKeeps ==
  ASSUME IInv, Loaded
  PROVE  IInv'
<1>0. /\ phase = "loading" /\ phase' \in {"running", "failed"}
      /\ UNCHANGED <<session, opened, lock, task>>
      /\ IsClient(client) /\ proxy \in [Servers \X Tools -> Proxy]
  BY DEF Loaded, IInv, Types
<1>1. \A t \in Tasks : task[t].at = "idle"
  BY <1>0 DEF Loaded, IInv, CallersLock, Tasks
<1>2. /\ IsClient(client') /\ client'.live = client.live
      /\ phase' = "running" => client'.ready
  <2>1. CASE UNCHANGED client /\ phase' = "failed"
    BY <1>0, <2>1
  <2>2. ASSUME NEW X, client' = [client EXCEPT !.ready = TRUE, !.tools = X]
        PROVE  IsClient(client') /\ client'.live = client.live /\ client'.ready
    BY <1>0, <2>2 DEF IsClient
  <2> QED
    BY <2>1, <2>2 DEF Loaded
<1>3. /\ proxy' \in [Servers \X Tools -> Proxy]
      /\ \A s \in Servers, n \in Tools : proxy'[<<s, n>>].loaded => client.live[s].known
  <2>1. CASE UNCHANGED proxy
    BY <1>0, <2>1 DEF IInv, LoadedKnown
  <2>2. ASSUME NEW fresh, \A s \in fresh : s \in Servers => client.live[s].known,
               proxy' = [x \in Servers \X Tools |->
                  IF x[1] \in fresh /\ x[2] \in client.live[x[1]].tools
                  THEN Bound(client.live[x[1]].via) ELSE Unloaded]
        PROVE  /\ proxy' \in [Servers \X Tools -> Proxy]
               /\ \A s \in Servers, n \in Tools : proxy'[<<s, n>>].loaded => client.live[s].known
    <3>1. Unloaded \in Proxy /\ ~Unloaded.loaded
      BY DEF Unloaded, Proxy
    <3>2. \A s \in Servers : Bound(client.live[s].via) \in Proxy
      BY <1>0 DEF IsClient, Live, Bound, Proxy
    <3>3. \A s \in Servers, n \in Tools :
            proxy'[<<s, n>>] = IF s \in fresh /\ n \in client.live[s].tools
                               THEN Bound(client.live[s].via) ELSE Unloaded
      BY <2>2
    <3>4. \A s \in Servers, n \in Tools : proxy'[<<s, n>>].loaded => client.live[s].known
      BY <2>2, <3>1, <3>3
    <3>5. proxy' \in [Servers \X Tools -> Proxy]
      BY <2>2, <3>1, <3>2
    <3> QED
      BY <3>4, <3>5
  <2> DEFINE fresh == {s \in DOMAIN client.conn : task[s].out = "loaded"}
  <2>3. \A s \in fresh : s \in Servers => client.live[s].known
    BY DEF IInv, LoadedKnown
  <2>4. \/ UNCHANGED proxy
        \/ proxy' = [x \in Servers \X Tools |->
                       IF x[1] \in fresh /\ x[2] \in client.live[x[1]].tools
                       THEN Bound(client.live[x[1]].via) ELSE Unloaded]
    BY DEF Loaded
  <2> HIDE DEF fresh
  <2> QED
    BY <2>1, <2>2, <2>3, <2>4
<1>4. Types'
  BY <1>0, <1>2, <1>3 DEF IInv, Types
<1>5. LoadedKnown'
  BY <1>0, <1>2, <1>3 DEF IInv, LoadedKnown
<1>6. Phases'
  BY <1>0, <1>2 DEF Phases
<1> QED
  BY <1>0, <1>1, <1>4, <1>5, <1>6, Quiet

-----------------------------------------------------------------------------
LEMMA InitInv == Init => IInv
<1> SUFFICES ASSUME Init PROVE IInv
  OBVIOUS
<1>1. /\ Idle \in Task /\ Idle.at = "idle" /\ Idle.out = "none" /\ Unloaded \in Proxy
      /\ ~Unloaded.loaded /\ Absent \in Live
  BY DEF Idle, Task, Unloaded, Proxy, Absent, Live
<1>2. IsClient(NoClient)
  BY <1>1 DEF IsClient, NoClient, NewClient
<1>3. Types
  BY <1>1, <1>2 DEF Init, Types
<1>4. ServersLoad /\ CallersLock /\ LoadsUnknown /\ LoadedKnown
  BY <1>1 DEF Init, ServersLoad, CallersLock, LoadsUnknown, LoadedKnown, Loading, Tasks
<1>5. Phases
  BY <1>1 DEF Init, Phases, Tasks
<1> QED
  BY <1>3, <1>4, <1>5 DEF IInv

LEMMA NextInv == IInv /\ [Next]_vars => IInv'
<1> SUFFICES ASSUME IInv, [Next]_vars PROVE IInv'
  OBVIOUS
<1>1. CASE UNCHANGED vars
  BY <1>1 DEF vars, IInv, Types, ServersLoad, CallersLock, LoadsUnknown, LoadedKnown, Phases
<1> QED
  BY <1>1, CreateKeeps, PendingKeeps, LoadedKeeps, CancelKeeps, LifeKeeps, AnswerKeeps, CallerKeeps
  DEF Next

\* The pool is asked for a session of a server, or told to close it, by one task
\* at a time, whatever is warmed up, loaded, repaired or called beside it.
THEOREM OneCallAtATime == Spec => []OneCallPerServer
<1>1. IInv => OneCallPerServer
  BY Alone DEF OneCallPerServer, Loading
<1> QED
  BY InitInv, NextInv, <1>1, PTL DEF Spec

\* The session a repair closes is none a loaded tool uses: as long as a server is
\* loaded, no proxy of it is.
THEOREM RepairsSpareTools == Spec => []RepairSpares
<1>1. ASSUME IInv, NEW t \in Tasks, task[t].at = "close", NEW n \in Tools
      PROVE  ~proxy[<<task[t].server, n>>].loaded
  <2>1. task[t].server \in Servers
    BY <1>1, Busy
  <2>2. task[t].out # "warm"
    BY <1>1 DEF IInv, ServersLoad, CallersLock, Tasks, Loading
  <2> QED
    BY <1>1, <2>1, <2>2 DEF IInv, LoadsUnknown, LoadedKnown, Loading
<1>2. IInv => RepairSpares
  BY <1>1 DEF RepairSpares
<1> QED
  BY InitInv, NextInv, <1>2, PTL DEF Spec

-----------------------------------------------------------------------------
(* The tools of a server *)

\* The tools the client gives of a server, and those it offers and the filter allows.
Given(s) == {n \in Tools : <<s, n>> \in client.tools}
Due(s) == Offers[s] \cap Allowed(client.conf[s])

\* What is saved is what the filter in its hash allows.
Saved ==
  /\ disk = [s \in Servers |-> disk[s]]
  /\ \A s \in Servers : disk[s] # None =>
       LET include == disk[s].hash[4]  exclude == disk[s].hash[5]
       IN disk[s].tools = Offers[s] \cap (IF include # {} THEN include ELSE Tools \ exclude)
\* A server that was reached has all its tools or, when it failed, none.
Reached ==
  \A s \in Servers : \/ client.live[s].tools = {}
                     \/ client.live[s].known /\ client.live[s].tools = Due(s)
\* The client is ready when all loads are over; until then what is known was loaded.
Unready ==
  /\ phase \in {"warming", "loading"} => ~client.ready
  /\ phase = "loading" => \A s \in Servers : task[s].out # "loaded" => ~client.live[s].known
\* The tool of a call is one the client gave.
Called ==
  \A p \in Callers : task[p].at # "idle" => <<task[p].server, task[p].tool>> \in client.tools
Complete ==
  client.ready =>
    \A s \in DOMAIN client.conn :
      Given(s) = Due(s) \/ (Given(s) = {} /\ client.live[s].tools = {})

TInv == Saved /\ Reached /\ Unready /\ Called /\ Complete

\* A step that learns nothing: calls go on with tools that were given.
LEMMA NothingLearned ==
  ASSUME TInv, UNCHANGED <<client, disk>>, Unready', Called'
  PROVE  TInv'
BY DEF TInv, Saved, Reached, Complete, Given, Due

\* Such a step of one task.
LEMMA OneGoesOn ==
  ASSUME IInv, TInv, NEW t \in Tasks, t \in Servers => task[t].at \in Loading, NEW r,
         task' = [task EXCEPT ![t] = r], UNCHANGED <<client, disk, phase>>,
         t \in Callers /\ r.at # "idle" => <<r.server, r.tool>> \in client.tools
  PROVE  TInv'
<1>1. task'[t] = r /\ \A u \in Tasks \ {t} : task'[u] = task[u]
  BY DEF IInv, Types
<1>2. Called'
  BY <1>1 DEF TInv, Called, Tasks
<1>3. Unready'
  <2>1. t \in Servers /\ phase = "loading" => ~client.live[t].known
    <3>1. t \in Servers => task[t].at # "idle" /\ task[t].server = t
      BY DEF Loading, IInv, ServersLoad
    <3> QED
      BY <3>1 DEF TInv, Unready, IInv, LoadsUnknown
  <2> QED
    BY <1>1, <2>1 DEF TInv, Unready, Tasks
<1> QED
  BY <1>2, <1>3, NothingLearned

\* A load's task keeps its server and tool until it ends.
LEMMA MovesOn ==
  ASSUME IInv, TInv, NEW t \in Tasks, task[t].at \in Loading, NEW r,
         task' = [task EXCEPT ![t] = r], UNCHANGED <<client, disk, phase>>,
         r.at = "idle" \/ (r.server = task[t].server /\ r.tool = task[t].tool)
  PROVE  TInv'
<1>1. t \in Callers => <<task[t].server, task[t].tool>> \in client.tools
  BY DEF TInv, Called, Loading
<1> QED
  BY <1>1, OneGoesOn

LEMMA RaisedTools ==
  ASSUME IInv, TInv, NEW t \in Tasks, task[t].at \in Loading, NEW error, Raised(t, error),
         UNCHANGED phase
  PROVE  TInv'
<1> DEFINE r == [Idle EXCEPT !.out = error]
<1>1. r.at = "idle"
  BY DEF Idle
<1>2. task' = [task EXCEPT ![t] = r] /\ UNCHANGED <<client, disk>>
  BY DEF Raised
<1> HIDE DEF r
<1> QED
  BY <1>1, <1>2, MovesOn

\* A server that answers is known with the tools due, or none; a caller gets here by
\* a tool that was given, so all of its server's were.
LEMMA ListedTools ==
  ASSUME IInv, TInv, NEW t \in Tasks, task[t].at \in Loading, task[t].out # "warm",
         NEW tools \in SUBSET Tools, tools = {} \/ tools = Due(task[t].server),
         NEW via \in Nat, Listed(t, tools, via), UNCHANGED phase
  PROVE  TInv'
<1> DEFINE s == task[t].server
           e == [known |-> TRUE, tools |-> tools, via |-> via]
<1>0. task[t].at # "idle"
  BY DEF Loading
<1>1. task[t] \in Task /\ s \in Servers /\ (t \in Servers => s = t)
  BY <1>0, Busy
<1>2. e \in Live /\ e.known /\ e.tools = tools
  BY DEF Live
<1>3. client' = [client EXCEPT !.live[s] = e] /\ IsClient(client)
  BY DEF Listed, IInv, Types
<1> HIDE DEF e
<1>4. /\ client'.conn = client.conn /\ client'.ready = client.ready /\ client'.conf = client.conf
      /\ client'.tools = client.tools /\ client'.live = [client.live EXCEPT ![s] = e]
  BY <1>1, <1>2, <1>3, LiveChanges
<1>5. client'.live[s] = e /\ \A q \in Servers \ {s} : client'.live[q] = client.live[q]
  BY <1>1, <1>3, <1>4 DEF IsClient
<1>6. \A q : Due(q)' = Due(q) /\ Given(q)' = Given(q)
  BY <1>4 DEF Due, Given
<1>7. Reached'
  BY <1>2, <1>5, <1>6 DEF TInv, Reached
<1>8. Saved'
  <2>1. CASE UNCHANGED disk
    BY <2>1 DEF TInv, Saved
  <2>2. CASE /\ tools # {}
             /\ disk' = [disk EXCEPT ![s] = [hash |-> ServerHash(client.conf[s]), tools |-> tools]]
    <3> DEFINE h == ServerHash(client.conf[s])
    <3>1. /\ disk'[s] = [hash |-> h, tools |-> tools] /\ disk' = [q \in Servers |-> disk'[q]]
          /\ \A q \in Servers \ {s} : disk'[q] = disk[q]
      BY <1>1, <2>2 DEF TInv, Saved
    <3>2. disk'[s].hash = h /\ disk'[s].tools = Due(s)
      BY <2>2, <3>1
    <3>3. h[4] = client.conf[s].include /\ h[5] = client.conf[s].exclude
      BY DEF ServerHash
    <3> QED
      BY <3>1, <3>2, <3>3 DEF TInv, Saved, Due, Allowed
  <2> QED
    BY <2>1, <2>2 DEF Listed
<1>9. CASE t \in Servers
  <2>1. phase \in {"warming", "loading"}
    BY <1>0, <1>9 DEF IInv, ServersLoad
  <2> DEFINE r == [task[t] EXCEPT !.at = "idle", !.out = "loaded"]
  <2>2. task' = [task EXCEPT ![t] = r] /\ r.out = "loaded"
    BY <1>1, <1>9 DEF Listed, IInv, Types, Task
  <2>3. task'[t].out = "loaded" /\ \A u \in Tasks \ {t} : task'[u] = task[u]
    BY <2>2 DEF IInv, Types
  <2>4. Unready'
    BY <1>1, <1>4, <1>5, <1>9, <2>3 DEF TInv, Unready, Tasks
  <2>5. Called'
    BY <1>4, <1>9, <2>3, ClientAssumption DEF TInv, Called, Tasks
  <2>6. Complete'
    BY <1>4, <2>1 DEF TInv, Unready, Complete
  <2> QED
    BY <1>7, <1>8, <2>4, <2>5, <2>6 DEF TInv
<1>10. CASE t \in Callers
  <2>1. /\ phase = "running" /\ task[t].tool \in Tools
        /\ <<s, task[t].tool>> \in client.tools /\ t \notin Servers
    BY <1>0, <1>10, ClientAssumption DEF IInv, CallersLock, TInv, Called
  <2>2. Given(s) # {}
    BY <2>1 DEF Given
  <2>3. Complete'
    BY <1>3, <1>4, <1>5, <1>6, <2>2 DEF TInv, Complete, IsClient
  <2>4. Unready'
    BY <2>1 DEF Unready
  <2>5. \A u \in Tasks \ {t} : task'[u] = task[u]
    BY <2>1 DEF Listed, IInv, Types
  <2>6. \/ task'[t].at = "idle"
        \/ task'[t].server = s /\ task'[t].tool = task[t].tool
    <3> DEFINE r == [task[t] EXCEPT !.at = "invoke"]
               i == [Idle EXCEPT !.out = "raised"]
    <3>1. (r.server = s /\ r.tool = task[t].tool) /\ i.at = "idle"
      BY <1>1 DEF Task, Idle
    <3>2. task'[t] = r \/ task'[t] = i
      BY <2>1 DEF Listed, IInv, Types
    <3> HIDE DEF r, i
    <3> QED
      BY <3>1, <3>2
  <2>7. Called'
    BY <1>4, <2>1, <2>5, <2>6 DEF TInv, Called, Tasks
  <2> QED
    BY <1>7, <1>8, <2>3, <2>4, <2>7 DEF TInv
<1> QED
  BY <1>9, <1>10 DEF Tasks

LEMMA FailedTools ==
  ASSUME IInv, TInv, NEW t \in Tasks, task[t].at \in {"get", "list"}, NEW mcp \in BOOLEAN,
         Failed(t, mcp), UNCHANGED phase
  PROVE  TInv'
<1>0. task[t].at \in Loading /\ task[t] \in Task
  BY DEF IInv, Types, Loading
<1>1. CASE task[t].out = "warm"
  <2> DEFINE r == [task[t] EXCEPT !.at = "idle"]
  <2>1. r.at = "idle"
    BY <1>0 DEF Task
  <2>2. task' = [task EXCEPT ![t] = r] /\ UNCHANGED <<client, disk>>
    BY <1>1 DEF Failed, IInv, Types
  <2> HIDE DEF r
  <2> QED
    BY <1>0, <2>1, <2>2, MovesOn
<1>2. CASE task[t].out # "warm" /\ task[t].again
  BY <1>0, <1>2, RaisedTools DEF Failed
<1>3. CASE task[t].out # "warm" /\ ~task[t].again /\ mcp /\ client.conf[task[t].server].repair
  <2> DEFINE r == [task[t] EXCEPT !.at = "close", !.again = TRUE]
  <2>1. r.server = task[t].server /\ r.tool = task[t].tool
    BY <1>0 DEF Task
  <2>2. task' = [task EXCEPT ![t] = r] /\ UNCHANGED <<client, disk>>
    BY <1>3 DEF Failed, IInv, Types
  <2> HIDE DEF r
  <2> QED
    BY <1>0, <2>1, <2>2, MovesOn
<1>4. CASE /\ task[t].out # "warm" /\ ~task[t].again
           /\ ~(mcp /\ client.conf[task[t].server].repair)
  <2>1. Listed(t, {}, 0)
    BY <1>4 DEF Failed
  <2> QED
    BY <1>0, <1>4, <2>1, ListedTools
<1> QED
  BY <1>1, <1>2, <1>3, <1>4

LEMMA AnswerTools ==
  ASSUME IInv, TInv, NEW t \in Tasks, Answer(t)
  PROVE  TInv'
<1> DEFINE M(at) == [task[t] EXCEPT !.at = at]
<1>0. task[t] \in Task /\ task \in [Tasks -> Task]
  BY DEF IInv, Types
<1>1. \A at : M(at).server = task[t].server /\ M(at).tool = task[t].tool
  BY <1>0 DEF Task
<1>2. CASE \E at : /\ task[t].at \in Loading /\ task' = [task EXCEPT ![t] = M(at)]
                   /\ UNCHANGED <<client, disk, phase>>
  <2>1. PICK at : /\ task[t].at \in Loading /\ task' = [task EXCEPT ![t] = M(at)]
                  /\ UNCHANGED <<client, disk, phase>>
    BY <1>2
  <2> HIDE DEF M
  <2> QED
    BY <1>1, <2>1, MovesOn
<1>3. CASE GetFails(t)
  BY <1>3, FailedTools DEF GetFails
<1>4. CASE List(t)
  <2> DEFINE s == task[t].server
             tools == Offers[s] \cap Allowed(client.conf[s])
  <2>1. task[t].at \in Loading /\ task[t].at # "idle" /\ task[t].at # "get"
    BY <1>4 DEF List, Loading
  <2>2. task[t].out # "warm"
    BY <2>1 DEF IInv, ServersLoad, CallersLock, Tasks
  <2>3. s \in Servers
    BY <2>1, Busy
  <2>4. tools \in SUBSET Tools /\ session[s] \in Nat /\ tools = Due(s)
    BY <2>3, ClientAssumption DEF IInv, Types, Due
  <2>5. UNCHANGED phase
    BY <1>4 DEF List
  <2>6. CASE Raised(t, "ValueError")
    BY <2>1, <2>5, <2>6, RaisedTools
  <2>7. CASE Listed(t, tools, session[s])
    BY <2>1, <2>2, <2>4, <2>5, <2>7, ListedTools
  <2>8. CASE \E mcp \in BOOLEAN : Failed(t, mcp)
    BY <1>4, <2>5, <2>8, FailedTools DEF List
  <2> QED
    BY <1>4, <2>6, <2>7, <2>8 DEF List
<1>5. CASE Got(t) \/ CloseForRepair(t) \/ Repaired(t)
  <2>1. task[t].at \in Loading /\ UNCHANGED <<client, disk, phase>>
    BY <1>5 DEF Got, CloseForRepair, Repaired, Loading
  <2>2. \E at : task' = [task EXCEPT ![t] = M(at)]
    BY <1>0, <1>5 DEF Got, CloseForRepair, Repaired
  <2> QED
    BY <1>2, <2>1, <2>2
<1> QED
  BY <1>3, <1>4, <1>5 DEF Answer

\* A caller goes on with a tool that was given, or ends.
LEMMA EnsureTools ==
  ASSUME IInv, TInv, NEW p \in Callers, NEW s \in Servers, NEW n \in Tools,
         <<s, n>> \in client.tools, Ensure(p, s, n) \/ LookedUp(p, s, n),
         UNCHANGED <<client, disk, phase>>
  PROVE  TInv'
<1> DEFINE R(at) == [Idle EXCEPT !.at = at, !.server = s, !.tool = n]
           i == [Idle EXCEPT !.out = "raised"]
<1>1. i.at = "idle" /\ \A at : R(at).server = s /\ R(at).tool = n
  BY DEF Idle
<1>2. \/ task' = [task EXCEPT ![p] = i]
      \/ \E at \in {"invoke", "server", "proxy"} : task' = [task EXCEPT ![p] = R(at)]
  BY DEF Ensure, LookedUp
<1>3. p \in Tasks /\ p \notin Servers
  BY ClientAssumption DEF Tasks
<1> HIDE DEF R, i
<1> QED
  BY <1>1, <1>2, <1>3, OneGoesOn

LEMMA CallerTools ==
  ASSUME IInv, TInv, NEW p \in Callers,
         Proceed(p) \/ \E s \in Servers, n \in Tools : Call(p, s, n)
  PROVE  TInv'
<1> DEFINE s == task[p].server
           n == task[p].tool
<1>0. p \in Tasks /\ p \notin Servers /\ task[p] \in Task
  BY ClientAssumption DEF IInv, Types, Tasks
<1>1. ASSUME NEW q \in Servers, NEW m \in Tools, Call(p, q, m)
      PROVE  TInv'
  BY <1>1, EnsureTools DEF Call
<1>2. task[p].at # "idle" => s \in Servers /\ n \in Tools /\ <<s, n>> \in client.tools
  BY DEF IInv, CallersLock, TInv, Called
<1>3. CASE ProxyLocked(p)
  BY <1>2, <1>3, EnsureTools DEF ProxyLocked
<1>4. CASE ServerLocked(p)
  <2>1. CASE LookedUp(p, s, n)
    BY <1>2, <1>4, <2>1, EnsureTools DEF ServerLocked
  <2>2. CASE task' = [task EXCEPT ![p] = Load(p, s)]
    <3>1. Load(p, s).server = s /\ Load(p, s).tool = n
      BY <1>0 DEF Load, Task
    <3>2. <<s, n>> \in client.tools /\ UNCHANGED <<client, disk, phase>>
      BY <1>2, <1>4 DEF ServerLocked
    <3> QED
      BY <1>0, <2>2, <3>1, <3>2, OneGoesOn
  <2> QED
    BY <1>4, <2>1, <2>2 DEF ServerLocked
<1>5. CASE Invoked(p)
  <2>1. PICK out : task' = [task EXCEPT ![p] = [Idle EXCEPT !.out = out]]
    BY <1>5 DEF Invoked
  <2>2. [Idle EXCEPT !.out = out].at = "idle" /\ UNCHANGED <<client, disk, phase>>
    BY <1>5 DEF Idle, Invoked
  <2> QED
    BY <1>0, <2>1, <2>2, OneGoesOn
<1> QED
  BY <1>1, <1>3, <1>4, <1>5 DEF Proceed

\* Where no task is left but those of servers, the calls are over.
LEMMA LifeTools ==
  ASSUME IInv, TInv, Cancel \/ Reload \/ CleanUp \/ LoadPending \/ \E s \in Servers : Crash(s)
  PROVE  TInv'
<1>0. UNCHANGED <<client, disk>> /\ Idle.at = "idle" /\ task \in [Tasks -> Task]
  BY DEF Cancel, Reload, CleanUp, LoadPending, Crash, Idle, IInv, Types
<1>1. Called'
  <2>1. \A p \in Callers : task'[p].at = "idle" \/ task'[p] = task[p]
    <3>1. CASE Cancel
      BY <1>0, <3>1 DEF Cancel, Tasks
    <3>2. CASE CleanUp
      BY <1>0, <3>2 DEF CleanUp, Tasks
    <3>3. CASE LoadPending
      <4>1. \A p \in Callers : p \notin DOMAIN client.conn
        BY ClientAssumption DEF IInv, Types, IsClient
      <4> QED
        BY <3>3, <4>1 DEF LoadPending, Tasks
    <3>4. CASE Reload \/ \E s \in Servers : Crash(s)
      BY <3>4 DEF Reload, Crash
    <3> QED
      BY <3>1, <3>2, <3>3, <3>4
  <2> QED
    BY <1>0, <2>1 DEF TInv, Called
<1>2. Unready'
  <2>1. CASE Cancel \/ Reload \/ CleanUp
    BY <2>1 DEF Cancel, Reload, CleanUp, Unready
  <2>2. CASE LoadPending
    BY <1>0, <2>2 DEF LoadPending, TInv, Unready, IInv, Phases
  <2>3. CASE \E s \in Servers : Crash(s)
    BY <1>0, <2>3 DEF Crash, TInv, Unready
  <2> QED
    BY <2>1, <2>2, <2>3
<1> QED
  BY <1>0, <1>1, <1>2, NothingLearned

\* A client is the last one or has nothing yet.
LEMMA CreateTools ==
  ASSUME IInv, TInv, Create
  PROVE  TInv'
<1>0. phase = "off" /\ client' = FactoryClient /\ UNCHANGED disk
  BY DEF Create
<1>1. Called'
  <2>1. \A t \in Tasks : task[t].at = "idle"
    BY <1>0, AllIdle
  <2>2. \A p \in Callers : p \notin DOMAIN client'.conn
    BY <1>0, FactoryKeeps, ClientAssumption DEF IsClient
  <2>3. Idle.at = "idle"
    BY DEF Idle
  <2>4. \A p \in Callers : task'[p].at = "idle"
    BY <2>1, <2>2, <2>3 DEF Create, Tasks
  <2> QED
    BY <2>4 DEF Called
<1>2. Unready'
  BY DEF Create, Unready
<1>3. CASE SameClient
  BY <1>0, <1>1, <1>2, <1>3, FactoryKeeps, NothingLearned
<1>4. CASE ~SameClient
  <2>1. client'.live = [s \in Servers |-> Absent] /\ ~client'.ready
    BY <1>0, <1>4 DEF FactoryClient, NewClient
  <2>2. \A s \in Servers : client'.live[s].tools = {}
    BY <2>1 DEF Absent
  <2>3. Reached' /\ Complete'
    BY <2>1, <2>2 DEF Reached, Complete
  <2>4. Saved'
    BY <1>0 DEF TInv, Saved
  <2> QED
    BY <1>1, <1>2, <2>3, <2>4 DEF TInv
<1> QED
  BY <1>3, <1>4

\* What is gathered: the schemas saved for a server that was not loaded, the tools
\* listed by one that was, nothing of one whose load was raised.
LEMMA LoadedTools ==
  ASSUME IInv, TInv, Loaded
  PROVE  TInv'
<1>0. /\ phase = "loading" /\ phase' \in {"running", "failed"} /\ UNCHANGED <<disk, task>>
      /\ IsClient(client)
  BY DEF Loaded, IInv, Types
<1>1. CASE UNCHANGED client
  <2>1. Unready'
    BY <1>0 DEF Unready
  <2>2. Called'
    BY <1>0, <1>1 DEF TInv, Called
  <2> QED
    BY <1>0, <1>1, <2>1, <2>2, NothingLearned
<1>2. CASE client' # client
  <2> DEFINE conn == DOMAIN client.conn
             fresh == {s \in conn : task[s].out = "loaded"}
             cached == {s \in conn : task[s].out \in {"none", "warm"}}
             saved(s) == Cached(client.conf, s) \cap Allowed(client.conf[s])
             X == (UNION {{s} \X saved(s) : s \in cached})
                  \cup (UNION {{s} \X client.live[s].tools : s \in fresh})
  <2>1. client' = [client EXCEPT !.ready = TRUE, !.tools = X]
    BY <1>2 DEF Loaded
  <2>2. \A s, n : <<s, n>> \in X <=>
          (s \in cached /\ n \in saved(s)) \/ (s \in fresh /\ n \in client.live[s].tools)
    <3> DEFINE P(q) == {q} \X saved(q)
               Q(q) == {q} \X client.live[q].tools
               Y == UNION {P(q) : q \in cached}
               Z == UNION {Q(q) : q \in fresh}
    <3>0. X = Y \cup Z
      BY Zenon
    <3> HIDE DEF saved, cached, fresh
    <3>1. ASSUME NEW s, NEW n
          PROVE  <<s, n>> \in Y <=> s \in cached /\ n \in saved(s)
      <4>1. \A q : <<s, n>> \in P(q) <=> s = q /\ n \in saved(q)
        OBVIOUS
      <4>2. <<s, n>> \in Y <=> \E q \in cached : <<s, n>> \in P(q)
        BY SMT
      <4> HIDE DEF P, Y
      <4> QED
        BY <4>1, <4>2, Zenon
    <3>2. ASSUME NEW s, NEW n
          PROVE  <<s, n>> \in Z <=> s \in fresh /\ n \in client.live[s].tools
      <4>1. \A q : <<s, n>> \in Q(q) <=> s = q /\ n \in client.live[q].tools
        OBVIOUS
      <4>2. <<s, n>> \in Z <=> \E q \in fresh : <<s, n>> \in Q(q)
        BY SMT
      <4> HIDE DEF Q, Z
      <4> QED
        BY <4>1, <4>2, Zenon
    <3> HIDE DEF X, Y, Z
    <3> QED
      BY <3>0, <3>1, <3>2
  <2> HIDE DEF X
  <2>3. /\ client'.conf = client.conf /\ client'.conn = client.conn /\ client'.live = client.live
        /\ client'.tools = X
    BY <1>0, <2>1 DEF IsClient
  <2>4. \A s : Due(s)' = Due(s)
    BY <2>3 DEF Due
  <2>5. ASSUME NEW s \in conn
        PROVE  Given(s)' = Due(s) \/ (Given(s)' = {} /\ client.live[s].tools = {})
    <3>1. /\ s \in Servers /\ Due(s) \subseteq Tools /\ client.live[s].tools \subseteq Tools
          /\ Given(s)' = {n \in Tools : <<s, n>> \in X}
      BY <1>0, <2>3, ClientAssumption DEF IsClient, Live, Due, Given
    <3>2. CASE s \in fresh
      <4>1. Given(s)' = client.live[s].tools
        BY <2>2, <3>1, <3>2
      <4> QED
        BY <3>1, <4>1 DEF TInv, Reached
    <3>3. CASE s \notin fresh
      <4>1. client.live[s].tools = {}
        BY <1>0, <3>1, <3>3 DEF TInv, Unready, Reached
      <4>2. CASE s \in cached /\ Cached(client.conf, s) # {}
        <5> DEFINE h == ServerHash(client.conf[s])
        <5>1. disk[s] # None /\ disk[s].hash = h /\ Cached(client.conf, s) = disk[s].tools
          BY <4>2 DEF Cached
        <5>2. h[4] = client.conf[s].include /\ h[5] = client.conf[s].exclude
          BY DEF ServerHash
        <5> HIDE DEF h
        <5>3. Cached(client.conf, s) = Due(s) /\ saved(s) = Due(s)
          BY <3>1, <5>1, <5>2 DEF TInv, Saved, Due, Allowed
        <5> HIDE DEF saved, cached, fresh
        <5>4. \A n : <<s, n>> \in X <=> n \in saved(s)
          BY <2>2, <3>3, <4>2, Zenon
        <5> QED
          BY <3>1, <5>3, <5>4
      <4>3. CASE ~(s \in cached /\ Cached(client.conf, s) # {})
        <5>1. ~(\E n : s \in cached /\ n \in saved(s))
          BY <4>3
        <5> QED
          BY <2>2, <3>1, <3>3, <4>1, <5>1
      <4> QED
        BY <4>2, <4>3
    <3> QED
      BY <3>2, <3>3
  <2>6. Complete'
    BY <2>3, <2>4, <2>5 DEF Complete
  <2>7. Reached'
    BY <2>3, <2>4 DEF TInv, Reached
  <2>8. Unready' /\ Saved'
    BY <1>0 DEF TInv, Unready, Saved
  <2>9. Called'
    BY <1>0 DEF Called, Loaded, IInv, CallersLock
  <2> QED
    BY <2>6, <2>7, <2>8, <2>9 DEF TInv
<1> QED
  BY <1>1, <1>2

LEMMA InitTools == Init => TInv
<1> SUFFICES ASSUME Init PROVE TInv
  OBVIOUS
<1>1. Idle.at = "idle" /\ Absent.tools = {} /\ NoClient.ready = FALSE
      /\ NoClient.live = [s \in Servers |-> Absent]
  BY DEF Idle, Absent, NoClient, NewClient
<1>2. Reached /\ Unready /\ Called /\ Complete
  BY <1>1 DEF Init, Reached, Unready, Called, Complete, Tasks
<1>3. Saved
  <2>1. CASE disk \in [Servers -> {None}]
    BY <2>1 DEF Saved
  <2>2. CASE \E c \in Configs : disk = [s \in Servers |->
                [hash |-> ServerHash(c[s]), tools |-> Offers[s] \cap Allowed(c[s])]]
    <3>1. PICK c \in Configs : disk = [s \in Servers |->
                [hash |-> ServerHash(c[s]), tools |-> Offers[s] \cap Allowed(c[s])]]
      BY <2>2
    <3>2. \A s \in Servers : /\ disk[s].hash = ServerHash(c[s])
                            /\ disk[s].tools = Offers[s] \cap Allowed(c[s])
      BY <3>1
    <3>3. \A s : ServerHash(c[s])[4] = c[s].include /\ ServerHash(c[s])[5] = c[s].exclude
      BY DEF ServerHash
    <3> QED
      BY <3>1, <3>2, <3>3 DEF Saved, Allowed
  <2> QED
    BY <2>1, <2>2 DEF Init
<1> QED
  BY <1>2, <1>3 DEF TInv

LEMMA NextTools == IInv /\ TInv /\ [Next]_vars => TInv'
<1> SUFFICES ASSUME IInv, TInv, [Next]_vars PROVE TInv'
  OBVIOUS
<1>1. CASE UNCHANGED vars
  BY <1>1 DEF vars, TInv, Saved, Reached, Unready, Called, Complete, Given, Due
<1> QED
  BY <1>1, CreateTools, LoadedTools, LifeTools, AnswerTools, CallerTools DEF Next

\* A client that is ready gives of each server it connects to all the tools offered
\* that the filter allows and no others, or none when the load failed: also with a
\* cache saved under another configuration, with calls that load servers again.
THEOREM ToolsAreComplete == Spec => []ToolsComplete
<1>1. IInv /\ TInv => ToolsComplete
  BY DEF TInv, Complete, IInv, Phases, ToolsComplete, Given, Due, Allowed
<1> QED
  BY InitInv, NextInv, InitTools, NextTools, <1>1, PTL DEF Spec
=============================================================================
