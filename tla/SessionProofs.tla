---------------------------- MODULE SessionProofs ----------------------------
(* The sessions of a process, for any agents, models, servers and templates and *)
(* any number of sessions: whom Ctrl+C reaches, what graph a message is sent   *)
(* to, and what the next process loads.                                        *)
EXTENDS Session, TLAPS, FiniteSetTheorems, WellFoundedInduction

IsAgent(x) == x = [llm |-> x.llm, default |-> x.default, old |-> x.old, subs |-> x.subs]
IsDisk(d) ==
  /\ d = [dir |-> d.dir, file |-> d.file, llms |-> d.llms, agents |-> d.agents,
          subs |-> d.subs, servers |-> d.servers]
  /\ d.agents = [a \in DOMAIN d.agents |-> d.agents[a]]
  /\ d.subs = [s \in DOMAIN d.subs |-> d.subs[s]]
  /\ d.servers = [v \in DOMAIN d.servers |-> d.servers[v]]
  /\ \A a \in DOMAIN d.agents : IsAgent(d.agents[a])

\* Nothing of the templates is missing.
Complete(d) ==
  /\ d.dir /\ Template.llms \subseteq d.llms
  /\ DOMAIN Template.agents \subseteq DOMAIN d.agents
  /\ DOMAIN Template.subs \subseteq DOMAIN d.subs
  /\ DOMAIN Template.servers \subseteq DOMAIN d.servers

\* What a load checks of it, beside the defaults.
Aliases(d) == d.file \cup d.llms
Distinct(d) == d.file \cap d.llms = {}
SubsValid(d) == DOMAIN d.subs # {} /\ \A s \in DOMAIN d.subs : d.subs[s] \in Aliases(d)
AgentsValid(d) ==
  \A a \in DOMAIN d.agents :
    d.agents[a].llm \in Aliases(d) /\ d.agents[a].subs \subseteq DOMAIN d.subs
Valid(d) == Distinct(d) /\ SubsValid(d) /\ AgentsValid(d)

\* What has been loaded is what the directory holds; agents keep the models that
\* their subagents had.
IsCache(c) == c = [llms |-> c.llms, subs |-> c.subs, agents |-> c.agents, mcp |-> c.mcp]
AgentsRead(d, agents) ==
  /\ Valid(d) /\ DOMAIN agents = DOMAIN d.agents
  /\ \A a \in DOMAIN d.agents :
       agents[a].llm = d.agents[a].llm /\ DOMAIN agents[a].subs = d.agents[a].subs
CacheSound(d, c) ==
  /\ c.llms # None => Distinct(d) /\ c.llms = Aliases(d)
  /\ c.subs # None => Distinct(d) /\ SubsValid(d) /\ c.subs = d.subs
  /\ c.agents # None => AgentsRead(d, c.agents)
  /\ c.mcp # None => DOMAIN c.mcp = DOMAIN d.servers

IsState(r) ==
  r = [disk |-> r.disk, cache |-> r.cache, ok |-> r.ok] /\ IsDisk(r.disk) /\ IsCache(r.cache)
Sound(r) == IsState(r) /\ Complete(r.disk) /\ CacheSound(r.disk, r.cache)

\* The handler installed is the session's own, and each was put over an earlier one.
Places == {"off", "start", "build", "open", "prompt", "stream", "mark", "close"}
Numbers == 0..MaxSessions
Sessions == [n : Numbers, reload : BOOLEAN, registered : BOOLEAN, raised : BOOLEAN]
Handlers ==
  /\ at \in Places
  /\ sig \in [installed : Numbers, previous : [1..MaxSessions -> Numbers]]
  /\ sess \in Sessions
  /\ \A n \in 1..MaxSessions : sig.previous[n] < n
  /\ at # "off" => sess.n # 0
  /\ at = "start" => sig.installed < sess.n
  /\ at \notin {"off", "start"} => sig.installed = sess.n
  /\ sess.reload => sess.n < MaxSessions

\* What a process has loaded is sound, and the servers in it are those on disk
\* unless a save has failed.
IsContext(c) ==
  c = [agent |-> c.agent, model |-> c.model, bash |-> c.bash, stream |-> c.stream,
       once |-> c.once, resume |-> c.resume]
Config ==
  /\ IsDisk(disk) /\ IsCache(cache) /\ IsContext(ctx) /\ faults \in Nat
  /\ at # "off" =>
       /\ Complete(disk) /\ CacheSound(disk, cache)
       /\ faults = 0 /\ cache.mcp # None => Enabled(cache.mcp) = Enabled(disk.servers)
  /\ todo \subseteq DOMAIN disk.agents /\ (at # "mark" => todo = {})

\* A graph that is used was built from the context.
Used == {"open", "prompt", "stream"}
GraphOf(g, d) ==
  /\ g.agent = ctx.agent /\ g.model = ctx.model
  /\ faults = 0 => g.servers = Enabled(d.servers)
Graph == at \in Used => GraphOf(graph, disk)

\* The directory is valid and the agent chosen alone is marked, in the files
\* that have been written.
Chosen ==
  /\ Valid(disk) /\ ctx.agent \in DOMAIN disk.agents
  /\ disk.agents[ctx.agent].llm = ctx.model
  /\ \A x \in DOMAIN disk.agents \ todo : disk.agents[x].default <=> x = ctx.agent
Switch == faults = 0 /\ at # "off" /\ (switched \/ at = "mark") => Chosen

SInv == Config /\ Graph /\ Switch
IInv == Handlers /\ SInv

USE SessionAssumption, TemplateAssumption

-----------------------------------------------------------------------------
(* Completing the directory *)

LEMMA PartialIs ==
  ASSUME NEW S, NEW T, NEW f \in Partial(S, T)
  PROVE  f = [x \in DOMAIN f |-> f[x]] /\ \A x \in DOMAIN f : f[x] \in T
  BY DEF Partial

LEMMA TemplateIsDisk == IsDisk(Template) /\ Complete(Template)
  <1>1. Template \in Disk
    BY TemplateAssumption
  <1>2. /\ Template.agents \in Partial(Agents, Agent)
        /\ Template.subs \in Partial(Subs, Models)
        /\ Template.servers \in Partial(Servers, BOOLEAN)
    BY <1>1 DEF Disk
  <1>3. Template = [dir |-> Template.dir, file |-> Template.file, llms |-> Template.llms,
                    agents |-> Template.agents, subs |-> Template.subs,
                    servers |-> Template.servers]
    BY <1>1 DEF Disk
  <1>4. \A x \in Agent : IsAgent(x)
    BY DEF Agent, IsAgent
  <1>5. IsDisk(Template)
    BY <1>2, <1>3, <1>4, PartialIs DEF IsDisk
  <1>6. QED
    BY <1>5, TemplateAssumption DEF Complete

\* h is f with what g has beside it.
Extends(h, f, g) ==
  /\ h = [x \in DOMAIN h |-> h[x]] /\ DOMAIN h = DOMAIN f \cup DOMAIN g
  /\ \A x \in DOMAIN h : IF x \in DOMAIN f THEN h[x] = f[x] ELSE h[x] = g[x]
  /\ DOMAIN g \subseteq DOMAIN f => h = f

LEMMA CompletedExtends ==
  ASSUME NEW f, NEW g, f = [x \in DOMAIN f |-> f[x]], g = [x \in DOMAIN g |-> g[x]]
  PROVE  Extends(Completed(f, g), f, g)
  BY DEF Completed, Extends

LEMMA EnsuredIs ==
  ASSUME NEW d, IsDisk(d)
  PROVE  /\ IsDisk(Ensured(d)) /\ Complete(Ensured(d))
         /\ Complete(d) => Ensured(d) = d
  <1>1. CASE ~d.dir
    BY <1>1, TemplateIsDisk DEF Ensured, Complete
  <1>2. CASE d.dir
    <2> DEFINE l == d.llms \cup Template.llms
               a == Completed(d.agents, Template.agents)
               s == Completed(d.subs, Template.subs)
               v == Completed(d.servers, Template.servers)
    <2>1. Ensured(d) = [d EXCEPT !.llms = l, !.agents = a, !.subs = s, !.servers = v]
      BY <1>2 DEF Ensured
    <2>2. Extends(a, d.agents, Template.agents)
      <3>1. /\ d.agents = [x \in DOMAIN d.agents |-> d.agents[x]]
            /\ Template.agents = [x \in DOMAIN Template.agents |-> Template.agents[x]]
        BY TemplateIsDisk DEF IsDisk
      <3>2. QED
        BY ONLY <3>1, CompletedExtends
    <2>3. Extends(s, d.subs, Template.subs)
      <3>1. /\ d.subs = [x \in DOMAIN d.subs |-> d.subs[x]]
            /\ Template.subs = [x \in DOMAIN Template.subs |-> Template.subs[x]]
        BY TemplateIsDisk DEF IsDisk
      <3>2. QED
        BY ONLY <3>1, CompletedExtends
    <2>4. Extends(v, d.servers, Template.servers)
      <3>1. /\ d.servers = [x \in DOMAIN d.servers |-> d.servers[x]]
            /\ Template.servers = [x \in DOMAIN Template.servers |-> Template.servers[x]]
        BY TemplateIsDisk DEF IsDisk
      <3>2. QED
        BY ONLY <3>1, CompletedExtends
    <2>5. \A x \in DOMAIN a : IsAgent(a[x])
      BY <2>2, TemplateIsDisk DEF IsDisk, Extends
    <2>6. Template.llms \subseteq d.llms => l = d.llms
      OBVIOUS
    <2>7. Template.llms \subseteq l
      OBVIOUS
    <2> HIDE DEF l, a, s, v
    <2>8. Ensured(d) = [dir |-> TRUE, file |-> d.file, llms |-> l, agents |-> a,
                        subs |-> s, servers |-> v]
      BY <1>2, <2>1 DEF IsDisk
    <2>9. QED
      BY <2>2, <2>3, <2>4, <2>5, <2>6, <2>7, <2>8, <1>2 DEF IsDisk, Complete, Extends
  <1>3. QED
    BY <1>1, <1>2

\* A directory with the same files, of which some agents have been brought up to date.
SameDisk(d, e) ==
  /\ e.dir = d.dir /\ e.file = d.file /\ e.llms = d.llms /\ e.subs = d.subs /\ e.servers = d.servers
  /\ DOMAIN e.agents = DOMAIN d.agents
  /\ \A a \in DOMAIN d.agents :
       /\ e.agents[a].llm = d.agents[a].llm /\ e.agents[a].subs = d.agents[a].subs
       /\ e.agents[a].default = d.agents[a].default

LEMMA SameDiskAsGood ==
  ASSUME NEW d, NEW e, SameDisk(d, e)
  PROVE  /\ Complete(d) => Complete(e)
         /\ Valid(d) <=> Valid(e)
         /\ \A c : CacheSound(d, c) => CacheSound(e, c)
         /\ Marked(e) = Marked(d) /\ (DefaultsValid(d) <=> DefaultsValid(e))
  <1>1. Complete(d) => Complete(e)
    BY DEF SameDisk, Complete
  <1>2. Distinct(d) <=> Distinct(e)
    BY DEF SameDisk, Distinct
  <1>3. Aliases(e) = Aliases(d)
    BY DEF SameDisk, Aliases
  <1>4. SubsValid(d) <=> SubsValid(e)
    BY <1>3 DEF SameDisk, SubsValid
  <1>5. AgentsValid(d) <=> AgentsValid(e)
    BY <1>3 DEF SameDisk, AgentsValid
  <1>6. \A as : AgentsRead(d, as) => AgentsRead(e, as)
    BY <1>2, <1>4, <1>5 DEF SameDisk, AgentsRead, Valid
  <1>7. \A c : CacheSound(d, c) => CacheSound(e, c)
    BY <1>2, <1>3, <1>4, <1>6 DEF SameDisk, CacheSound
  <1>8. Marked(e) = Marked(d)
    BY DEF SameDisk, Marked
  <1>9. QED
    BY <1>1, <1>2, <1>4, <1>5, <1>7, <1>8 DEF Valid, DefaultsValid, SameDisk

-----------------------------------------------------------------------------
(* Loading *)

State(d, c, ok) == [disk |-> d, cache |-> c, ok |-> ok]
Loaded(l, s, a, m) == [llms |-> l, subs |-> s, agents |-> a, mcp |-> m]

LEMMA StateRecords ==
  ASSUME NEW r, IsState(r), NEW x
  PROVE  /\ r = State(r.disk, r.cache, r.ok)
         /\ [r EXCEPT !.disk = x] = State(x, r.cache, r.ok)
         /\ [r EXCEPT !.cache = x] = State(r.disk, x, r.ok)
         /\ [r EXCEPT !.ok = x] = State(r.disk, r.cache, x)
  BY DEF IsState, State

LEMMA StateCache ==
  ASSUME NEW d, NEW c, NEW ok, NEW x
  PROVE  [State(d, c, ok) EXCEPT !.cache = x] = State(d, x, ok)
  BY DEF State

LEMMA CacheRecords ==
  ASSUME NEW c, IsCache(c), NEW x
  PROVE  /\ c = Loaded(c.llms, c.subs, c.agents, c.mcp)
         /\ [c EXCEPT !.llms = x] = Loaded(x, c.subs, c.agents, c.mcp)
         /\ [c EXCEPT !.subs = x] = Loaded(c.llms, x, c.agents, c.mcp)
         /\ [c EXCEPT !.agents = x] = Loaded(c.llms, c.subs, x, c.mcp)
         /\ [c EXCEPT !.mcp = x] = Loaded(c.llms, c.subs, c.agents, x)
  BY DEF IsCache, Loaded

DiskRecord(d, agents, subs, servers) ==
  [dir |-> d.dir, file |-> d.file, llms |-> d.llms, agents |-> agents,
   subs |-> subs, servers |-> servers]
LEMMA DiskRecords ==
  ASSUME NEW d, IsDisk(d), NEW x
  PROVE  /\ [d EXCEPT !.agents = x] = DiskRecord(d, x, d.subs, d.servers)
         /\ [d EXCEPT !.subs = x] = DiskRecord(d, d.agents, x, d.servers)
         /\ [d EXCEPT !.servers = x] = DiskRecord(d, d.agents, d.subs, x)
  <1>1. d = DiskRecord(d, d.agents, d.subs, d.servers)
    BY DEF IsDisk, DiskRecord
  <1>2. QED
    BY ONLY <1>1 DEF DiskRecord

AgentRecord(llm, default, old, subs) ==
  [llm |-> llm, default |-> default, old |-> old, subs |-> subs]
LEMMA AgentRecords ==
  ASSUME NEW a, IsAgent(a), NEW x
  PROVE  /\ [a EXCEPT !.llm = x] = AgentRecord(x, a.default, a.old, a.subs)
         /\ [a EXCEPT !.default = x] = AgentRecord(a.llm, x, a.old, a.subs)
         /\ [a EXCEPT !.old = x] = AgentRecord(a.llm, a.default, x, a.subs)
  BY DEF IsAgent, AgentRecord

LEMMA EnsureIs ==
  ASSUME NEW r, IsState(r)
  PROVE  /\ Ensure(r) = State(Ensured(r.disk), r.cache, r.ok)
         /\ IsState(Ensure(r)) /\ Complete(Ensure(r).disk)
         /\ Complete(r.disk) => Ensure(r) = r
  <1>1. Ensure(r) = State(Ensured(r.disk), r.cache, r.ok)
    BY DEF Ensure, State, IsState
  <1>2. IsDisk(r.disk) /\ IsCache(r.cache) /\ r = State(r.disk, r.cache, r.ok)
    BY DEF IsState, State
  <1>3. QED
    BY <1>1, <1>2, EnsuredIs DEF State, IsState

LEMMA Fails ==
  ASSUME NEW p, Sound(p)
  PROVE  LET q == [p EXCEPT !.ok = FALSE] IN
         Sound(q) /\ q.disk = p.disk /\ q.cache = p.cache /\ ~q.ok
  <1> DEFINE q == [p EXCEPT !.ok = FALSE]
  <1>1. q = State(p.disk, p.cache, FALSE)
    BY StateRecords DEF Sound
  <1> HIDE DEF q
  <1>2. q.disk = p.disk /\ q.cache = p.cache /\ ~q.ok /\ q = State(q.disk, q.cache, q.ok)
    BY <1>1 DEF State
  <1>3. Sound(q)
    BY <1>2 DEF Sound, IsState, State
  <1>4. QED
    BY <1>2, <1>3 DEF q

LEMMA Keeps ==
  ASSUME NEW p, Sound(p), NEW c, IsCache(c), CacheSound(p.disk, c)
  PROVE  LET q == [p EXCEPT !.cache = c] IN
         Sound(q) /\ q.disk = p.disk /\ q.cache = c /\ q.ok = p.ok
  <1> DEFINE q == [p EXCEPT !.cache = c]
  <1>1. q = State(p.disk, c, p.ok)
    BY StateRecords DEF Sound
  <1> HIDE DEF q
  <1>2. q.disk = p.disk /\ q.cache = c /\ q.ok = p.ok /\ q = State(q.disk, q.cache, q.ok)
    BY <1>1 DEF State
  <1>3. Sound(q)
    BY <1>2 DEF Sound, IsState, State
  <1>4. QED
    BY <1>2, <1>3 DEF q

LEMMA LoadLlmsIs ==
  ASSUME NEW r, Sound(r)
  PROVE  LET q == LoadLlms(r) IN
         /\ Sound(q) /\ q.disk = r.disk
         /\ q.cache = Loaded(q.cache.llms, r.cache.subs, r.cache.agents, r.cache.mcp)
         /\ q.ok => Distinct(r.disk) /\ q.cache.llms = Aliases(r.disk)
         /\ q.ok <=> r.ok /\ (r.cache.llms # None \/ Distinct(r.disk))
  <1>1. Ensure(r) = r
    BY EnsureIs DEF Sound
  <1>2. CASE ~r.ok \/ r.cache.llms # None
    BY <1>2 DEF LoadLlms, Sound, IsState, IsCache, CacheSound, Loaded
  <1>3. CASE r.ok /\ r.cache.llms = None /\ ~Distinct(r.disk)
    <2>1. LoadLlms(r) = [r EXCEPT !.ok = FALSE]
      BY <1>1, <1>3 DEF LoadLlms, ReadLlms, Distinct
    <2>2. r.cache = Loaded(r.cache.llms, r.cache.subs, r.cache.agents, r.cache.mcp)
      BY CacheRecords DEF Sound, IsState
    <2>3. QED
      BY <1>3, <2>1, <2>2, Fails
  <1>4. CASE r.ok /\ r.cache.llms = None /\ Distinct(r.disk)
    <2> DEFINE c == Loaded(Aliases(r.disk), r.cache.subs, r.cache.agents, r.cache.mcp)
    <2>1. [r.cache EXCEPT !.llms = Aliases(r.disk)] = c
      BY CacheRecords DEF Sound, IsState
    <2>2. LoadLlms(r) = [r EXCEPT !.cache = [r.cache EXCEPT !.llms = Aliases(r.disk)]]
      BY <1>1, <1>4 DEF LoadLlms, ReadLlms, Distinct, Aliases
    <2>3. IsCache(c) /\ CacheSound(r.disk, c)
      BY <1>4 DEF Sound, IsCache, CacheSound, Loaded
    <2>4. c.llms = Aliases(r.disk) /\ c = Loaded(c.llms, r.cache.subs, r.cache.agents, r.cache.mcp)
      BY DEF Loaded
    <2> HIDE DEF c
    <2>5. QED
      BY <1>4, <2>1, <2>2, <2>3, <2>4, Keeps
  <1>5. QED
    BY <1>2, <1>3, <1>4

LEMMA LoadSubsIs ==
  ASSUME NEW r, Sound(r)
  PROVE  LET q == LoadSubs(r) IN
         /\ Sound(q) /\ q.disk = r.disk
         /\ q.cache = Loaded(q.cache.llms, q.cache.subs, r.cache.agents, r.cache.mcp)
         /\ q.ok => Distinct(r.disk) /\ SubsValid(r.disk) /\ q.cache.subs = r.disk.subs
         /\ q.ok /\ r.cache.llms = Aliases(r.disk) => q.cache.llms = Aliases(r.disk)
         /\ r.ok /\ Distinct(r.disk) /\ SubsValid(r.disk) => q.ok
  <1> DEFINE p == LoadLlms(r)
  <1>1. LoadLlms(Ensure(r)) = p
    BY EnsureIs DEF Sound
  <1>2. /\ Sound(p) /\ p.disk = r.disk
        /\ p.cache = Loaded(p.cache.llms, r.cache.subs, r.cache.agents, r.cache.mcp)
        /\ p.ok => Distinct(r.disk) /\ p.cache.llms = Aliases(r.disk)
        /\ p.ok <=> r.ok /\ (r.cache.llms # None \/ Distinct(r.disk))
    BY LoadLlmsIs
  <1> HIDE DEF p
  <1>3. CASE ~r.ok \/ r.cache.subs # None
    <2>1. r.cache = Loaded(r.cache.llms, r.cache.subs, r.cache.agents, r.cache.mcp)
      BY CacheRecords DEF Sound, IsState
    <2>2. LoadSubs(r) = r
      BY <1>3 DEF LoadSubs
    <2>3. QED
      BY <1>3, <2>1, <2>2 DEF Sound, CacheSound
  <1>4. CASE r.ok /\ r.cache.subs = None /\ ~(p.ok /\ SubsValid(r.disk))
    <2>1. LoadSubs(r) = [p EXCEPT !.ok = FALSE]
      BY <1>1, <1>2, <1>4 DEF LoadSubs, ReadSubs, SubsValid
    <2>2. p.cache = Loaded(p.cache.llms, p.cache.subs, r.cache.agents, r.cache.mcp)
      BY <1>2 DEF Loaded
    <2>3. QED
      BY <1>2, <1>4, <2>1, <2>2, Fails
  <1>5. CASE r.ok /\ r.cache.subs = None /\ p.ok /\ SubsValid(r.disk)
    <2> DEFINE c == Loaded(p.cache.llms, r.disk.subs, r.cache.agents, r.cache.mcp)
    <2>1. [p.cache EXCEPT !.subs = r.disk.subs] = c
      <3>1. /\ IsCache(p.cache)
            /\ p.cache.agents = r.cache.agents /\ p.cache.mcp = r.cache.mcp
        BY <1>2 DEF Sound, IsState, Loaded
      <3>2. [p.cache EXCEPT !.subs = r.disk.subs] =
              Loaded(p.cache.llms, r.disk.subs, p.cache.agents, p.cache.mcp)
        BY <3>1, CacheRecords
      <3>3. QED
        BY <3>1, <3>2
    <2>2. LoadSubs(r) = [p EXCEPT !.cache = [p.cache EXCEPT !.subs = r.disk.subs]]
      BY <1>1, <1>2, <1>5 DEF LoadSubs, ReadSubs, SubsValid
    <2>3. IsCache(c)
      BY DEF IsCache, Loaded
    <2>4. CacheSound(p.disk, c)
      BY <1>2, <1>5 DEF Sound, CacheSound, Loaded
    <2>5. /\ c.llms = p.cache.llms /\ c.subs = r.disk.subs
          /\ c = Loaded(c.llms, c.subs, r.cache.agents, r.cache.mcp)
      BY DEF Loaded
    <2> HIDE DEF c
    <2>6. QED
      BY <1>2, <1>5, <2>1, <2>2, <2>3, <2>4, <2>5, Keeps
  <1>6. QED
    BY <1>3, <1>4, <1>5

LEMMA MigrateAgentsIs ==
  ASSUME NEW r, Sound(r)
  PROVE  LET m == MigrateAgents(r) IN
         Sound(m) /\ SameDisk(r.disk, m.disk) /\ m.cache = r.cache /\ m.ok = r.ok
  <1> DEFINE as == MigrateItems(r.disk.agents)
             e == [r.disk EXCEPT !.agents = as]
  <1>1. MigrateAgents(r) = [r EXCEPT !.disk = e]
    BY DEF MigrateAgents
  <1>2. ASSUME NEW a \in DOMAIN r.disk.agents
        PROVE  /\ IsAgent(as[a]) /\ as[a].llm = r.disk.agents[a].llm
               /\ as[a].subs = r.disk.agents[a].subs /\ as[a].default = r.disk.agents[a].default
    <2>1. IsAgent(r.disk.agents[a])
      BY DEF Sound, IsState, IsDisk
    <2>2. ASSUME NEW x, IsAgent(x)
          PROVE  /\ IsAgent(Migrate(x)) /\ Migrate(x).llm = x.llm
                 /\ Migrate(x).subs = x.subs /\ Migrate(x).default = x.default
      <3>1. Migrate(x) = AgentRecord(x.llm, x.default, FALSE, x.subs)
        BY <2>2, AgentRecords DEF Migrate
      <3>2. QED
        BY <3>1 DEF IsAgent, AgentRecord
    <2>3. as[a] = IF r.disk.agents[a].old THEN Migrate(r.disk.agents[a]) ELSE r.disk.agents[a]
      BY DEF MigrateItems
    <2>4. QED
      BY <2>1, <2>2, <2>3
  <1>3. DOMAIN as = DOMAIN r.disk.agents /\ as = [a \in DOMAIN as |-> as[a]]
    BY DEF MigrateItems
  <1> HIDE DEF as
  <1>4. e = DiskRecord(r.disk, as, r.disk.subs, r.disk.servers)
    BY DiskRecords DEF Sound, IsState
  <1> HIDE DEF e
  <1>5. IsDisk(e) /\ SameDisk(r.disk, e)
    BY <1>2, <1>3, <1>4 DEF IsDisk, SameDisk, Sound, IsState, DiskRecord
  <1>6. [r EXCEPT !.disk = e] = State(e, r.cache, r.ok)
    BY StateRecords DEF Sound
  <1>7. Complete(e) /\ CacheSound(e, r.cache)
    BY <1>5, SameDiskAsGood DEF Sound
  <1>8. QED
    BY <1>1, <1>5, <1>6, <1>7 DEF Sound, IsState, State

LEMMA ReadAgentsIs ==
  ASSUME NEW r, Sound(r), r.ok, Distinct(r.disk), SubsValid(r.disk),
         r.cache.llms = Aliases(r.disk), r.cache.subs = r.disk.subs
  PROVE  LET q == ReadAgents(r) IN
         /\ Sound(q) /\ SameDisk(r.disk, q.disk) /\ q.cache.mcp = r.cache.mcp
         /\ q.cache.llms = r.cache.llms
         /\ q.ok => AgentsRead(q.disk, q.cache.agents)
         /\ Valid(r.disk) /\ DOMAIN r.disk.agents # {} /\ DefaultsValid(r.disk) =>
              /\ q.ok
              /\ \A a \in DOMAIN r.disk.agents :
                   q.cache.agents[a].default = r.disk.agents[a].default
  <1> DEFINE m == MigrateAgents(r)
  <1>1. Sound(m) /\ SameDisk(r.disk, m.disk) /\ m.cache = r.cache /\ m.ok = r.ok
    BY MigrateAgentsIs
  <1>2. Valid(m.disk) <=> Valid(r.disk)
    BY <1>1, SameDiskAsGood
  <1>3. DefaultsValid(m.disk) <=> DefaultsValid(r.disk)
    BY <1>1, SameDiskAsGood
  <1>4. Valid(r.disk) <=> \A a \in DOMAIN m.disk.agents : Resolvable(m, a)
    <2>1. Valid(r.disk) <=> AgentsValid(m.disk)
      BY <1>2, <1>1, SameDiskAsGood DEF Valid, SameDisk, AgentsValid, Aliases
    <2>2. m.cache.llms = Aliases(m.disk) /\ m.cache.subs = m.disk.subs
      BY <1>1 DEF SameDisk, Aliases
    <2>3. QED
      BY <2>1, <2>2 DEF AgentsValid, Resolvable
  <1>5. DOMAIN m.disk.agents = DOMAIN r.disk.agents
    BY <1>1 DEF SameDisk
  <1>6. ReadAgents(r) =
          IF DOMAIN m.disk.agents = {} \/ ~DefaultsValid(m.disk)
             \/ \E a \in DOMAIN m.disk.agents : ~Resolvable(m, a)
          THEN [m EXCEPT !.ok = FALSE]
          ELSE [m EXCEPT !.cache.agents = [a \in DOMAIN m.disk.agents |-> Resolve(m, a)]]
    BY DEF ReadAgents
  <1> DEFINE as == [a \in DOMAIN m.disk.agents |-> Resolve(m, a)]
             good == DOMAIN r.disk.agents # {} /\ DefaultsValid(r.disk) /\ Valid(r.disk)
  <1>7. \A a \in DOMAIN m.disk.agents :
          /\ as[a].llm = m.disk.agents[a].llm /\ as[a].default = m.disk.agents[a].default
          /\ DOMAIN as[a].subs = m.disk.agents[a].subs
    BY DEF Resolve
  <1>8. DOMAIN as = DOMAIN m.disk.agents
    OBVIOUS
  <1>9. ReadAgents(r) = IF good THEN [m EXCEPT !.cache = [m.cache EXCEPT !.agents = as]]
                        ELSE [m EXCEPT !.ok = FALSE]
    BY <1>3, <1>4, <1>5, <1>6
  <1> HIDE DEF m, as, good
  <1>10. CASE good
    <2> DEFINE c == Loaded(m.cache.llms, m.cache.subs, as, m.cache.mcp)
    <2>1. [m.cache EXCEPT !.agents = as] = c
      BY <1>1, CacheRecords DEF Sound, IsState
    <2>2. AgentsRead(m.disk, as)
      BY <1>2, <1>7, <1>8, <1>10 DEF AgentsRead, good
    <2>3. IsCache(c) /\ CacheSound(m.disk, c)
      BY <1>1, <2>2 DEF Sound, IsCache, CacheSound, Loaded
    <2>4. c.agents = as /\ c.llms = m.cache.llms /\ c.mcp = m.cache.mcp
      BY DEF Loaded
    <2> HIDE DEF c
    <2>5. LET q == ReadAgents(r) IN Sound(q) /\ q.disk = m.disk /\ q.cache = c /\ q.ok = m.ok
      <3>1. ReadAgents(r) = [m EXCEPT !.cache = c]
        BY <1>9, <1>10, <2>1
      <3>2. LET q == [m EXCEPT !.cache = c] IN
            Sound(q) /\ q.disk = m.disk /\ q.cache = c /\ q.ok = m.ok
        BY <1>1, <2>3, Keeps
      <3>3. QED
        BY <3>1, <3>2
    <2>6. \A a \in DOMAIN r.disk.agents : as[a].default = r.disk.agents[a].default
      BY <1>1, <1>7 DEF SameDisk
    <2>7. QED
      BY <1>1, <2>2, <2>4, <2>5, <2>6 DEF good
  <1>11. CASE ~good
    <2>1. LET q == ReadAgents(r) IN Sound(q) /\ q.disk = m.disk /\ q.cache = m.cache /\ ~q.ok
      BY <1>1, <1>9, <1>11, Fails
    <2>2. QED
      BY <1>1, <1>11, <2>1 DEF good
  <1>12. QED
    BY <1>10, <1>11

LEMMA LoadAgentsIs ==
  ASSUME NEW r, Sound(r)
  PROVE  LET q == LoadAgents(r) IN
         /\ Sound(q) /\ SameDisk(r.disk, q.disk) /\ q.cache.mcp = r.cache.mcp
         /\ q.ok => r.ok /\ AgentsRead(q.disk, q.cache.agents)
         /\ /\ r.ok /\ r.cache.agents = None
            /\ Valid(r.disk) /\ DOMAIN r.disk.agents # {} /\ DefaultsValid(r.disk)
            => /\ q.ok
               /\ \A a \in DOMAIN r.disk.agents :
                    q.cache.agents[a].default = r.disk.agents[a].default
  <1>1. SameDisk(r.disk, r.disk)
    BY DEF SameDisk
  <1>2. CASE ~r.ok \/ r.cache.agents # None
    <2>1. LoadAgents(r) = r
      BY <1>2 DEF LoadAgents
    <2>2. r.cache.agents # None => AgentsRead(r.disk, r.cache.agents)
      BY DEF Sound, CacheSound
    <2>3. QED
      BY <1>1, <1>2, <2>1, <2>2
  <1>3. CASE r.ok /\ r.cache.agents = None
    <2> DEFINE p == LoadLlms(r)
               s == LoadSubs(p)
    <2>1. LoadAgents(r) = ReadAgents(s)
      BY <1>3, EnsureIs DEF LoadAgents, Sound
    <2>2. /\ Sound(p) /\ p.disk = r.disk /\ p.cache.mcp = r.cache.mcp
          /\ p.ok => Distinct(r.disk) /\ p.cache.llms = Aliases(r.disk)
          /\ Distinct(r.disk) => p.ok
      <3>1. p.cache = Loaded(p.cache.llms, r.cache.subs, r.cache.agents, r.cache.mcp)
        BY LoadLlmsIs
      <3>2. QED
        BY <3>1, <1>3, LoadLlmsIs DEF Loaded
    <2> HIDE DEF p
    <2>3. /\ Sound(s) /\ s.disk = r.disk /\ s.cache.mcp = r.cache.mcp
          /\ s.ok => Distinct(r.disk) /\ SubsValid(r.disk) /\ s.cache.subs = r.disk.subs
          /\ s.ok => s.cache.llms = Aliases(r.disk)
          /\ p.ok /\ Distinct(r.disk) /\ SubsValid(r.disk) => s.ok
      <3>1. /\ Sound(s) /\ s.disk = p.disk
            /\ s.cache = Loaded(s.cache.llms, s.cache.subs, p.cache.agents, p.cache.mcp)
            /\ s.ok => Distinct(p.disk) /\ SubsValid(p.disk) /\ s.cache.subs = p.disk.subs
            /\ s.ok /\ p.cache.llms = Aliases(p.disk) => s.cache.llms = Aliases(p.disk)
            /\ p.ok /\ Distinct(p.disk) /\ SubsValid(p.disk) => s.ok
        BY <2>2, LoadSubsIs
      <3>2. s.ok => p.ok
        BY DEF LoadSubs, ReadSubs
      <3>3. QED
        BY <2>2, <3>1, <3>2 DEF Loaded
    <2> HIDE DEF s
    <2>4. CASE ~s.ok
      <3>1. LoadAgents(r) = s
        BY <2>1, <2>4 DEF ReadAgents
      <3>2. ~Valid(r.disk)
        BY <2>2, <2>3, <2>4 DEF Valid
      <3>3. QED
        BY <1>1, <2>3, <2>4, <3>1, <3>2
    <2>5. CASE s.ok
      <3>1. LET q == ReadAgents(s) IN
            /\ Sound(q) /\ SameDisk(s.disk, q.disk) /\ q.cache.mcp = s.cache.mcp
            /\ q.cache.llms = s.cache.llms
            /\ q.ok => AgentsRead(q.disk, q.cache.agents)
            /\ Valid(s.disk) /\ DOMAIN s.disk.agents # {} /\ DefaultsValid(s.disk) =>
                 /\ q.ok
                 /\ \A a \in DOMAIN s.disk.agents :
                      q.cache.agents[a].default = s.disk.agents[a].default
        BY <2>3, <2>5, ReadAgentsIs
      <3>2. QED
        BY <1>3, <2>1, <2>3, <3>1
    <2>6. QED
      BY <2>4, <2>5
  <1>4. QED
    BY <1>2, <1>3

LEMMA LoadMcpIs ==
  ASSUME NEW r, Sound(r), r.ok
  PROVE  LET q == LoadMcp(r) IN
         /\ Sound(q) /\ q.ok /\ q.disk = r.disk /\ DOMAIN q.cache.mcp = DOMAIN r.disk.servers
         /\ q.cache.mcp = IF r.cache.mcp # None THEN r.cache.mcp ELSE r.disk.servers
         /\ q.cache = Loaded(r.cache.llms, r.cache.subs, r.cache.agents, q.cache.mcp)
  <1>1. IsCache(r.cache) /\ CacheSound(r.disk, r.cache)
    BY DEF Sound, IsState
  <1>2. CASE r.cache.mcp # None
    <2>1. LoadMcp(r) = r
      BY <1>2 DEF LoadMcp
    <2>2. r.cache = Loaded(r.cache.llms, r.cache.subs, r.cache.agents, r.cache.mcp)
      BY <1>1, CacheRecords
    <2>3. QED
      BY <1>1, <1>2, <2>1, <2>2 DEF CacheSound
  <1>3. CASE r.cache.mcp = None
    <2> DEFINE c == Loaded(r.cache.llms, r.cache.subs, r.cache.agents, r.disk.servers)
    <2>1. LoadMcp(r) = [r EXCEPT !.cache = [r.cache EXCEPT !.mcp = r.disk.servers]]
      BY <1>3, EnsureIs DEF LoadMcp, Sound
    <2>2. [r.cache EXCEPT !.mcp = r.disk.servers] = c
      BY <1>1, CacheRecords
    <2>3. IsCache(c) /\ CacheSound(r.disk, c)
      BY <1>1 DEF IsCache, CacheSound, Loaded
    <2>4. c.mcp = r.disk.servers /\ c = Loaded(r.cache.llms, r.cache.subs, r.cache.agents, c.mcp)
      BY DEF Loaded
    <2> HIDE DEF c
    <2>5. LET q == [r EXCEPT !.cache = c] IN
          Sound(q) /\ q.disk = r.disk /\ q.cache = c /\ q.ok = r.ok
      BY <2>3, Keeps
    <2>6. QED
      BY <1>3, <2>1, <2>2, <2>4, <2>5
  <1>4. QED
    BY <1>2, <1>3

-----------------------------------------------------------------------------
(* The handlers of SIGINT *)

LEMMA Least ==
  ASSUME NEW T \in SUBSET Nat, T # {}
  PROVE  \E m \in T : \A k \in T : m <= k
<1> DEFINE Before == OpToRel(<, Nat)
<1>1. IsWellFoundedOn(Before, Nat)
  BY NatLessThanWellFounded
<1>2. \A x, y \in Nat : y < x => <<y, x>> \in Before
  BY DEF OpToRel
<1> HIDE DEF Before
<1>3. PICK m \in T : \A y \in T : ~ (<<y, m>> \in Before)
  BY <1>1, WFMin
<1>4. ASSUME NEW k \in T PROVE m <= k
  <2>1. ~(k < m)
    BY <1>2, <1>3
  <2> QED BY <2>1
<1> QED
  BY <1>4

IsChain(f, M, prev, Stop) ==
  f = [x \in 0..M |-> IF x = 0 \/ x \in Stop THEN x ELSE f[prev[x]]]
LEMMA ChainDefined ==
  ASSUME NEW M \in Nat, NEW prev, NEW Stop,
         \A x \in 1..M : prev[x] \in 0..M /\ prev[x] < x
  PROVE  \E f : IsChain(f, M, prev, Stop)
<1> DEFINE Good(n, f) == IsChain(f, n, prev, Stop)
           T == {n \in Nat : n <= M /\ ~\E f : Good(n, f)}
<1> USE DEF IsChain
<1>1. T = {}
  <2> SUFFICES ASSUME T # {} PROVE FALSE
    OBVIOUS
  <2>1. PICK n \in T : \A k \in T : n <= k
    BY Least
  <2>2. CASE n = 0
    <3> DEFINE f == [x \in 0..0 |-> 0]
    <3>1. Good(0, f)
      OBVIOUS
    <3>2. QED
      BY <2>1, <2>2, <3>1
  <2>3. CASE n # 0
    <3>1. n \in Nat /\ n - 1 \in Nat /\ n - 1 < n /\ n <= M /\ n-1 <= M
      BY <2>3
    <3>2. n - 1 \notin T
      <4> HIDE DEF T
      <4>1. QED
        BY <2>1, <3>1
    <3>3. PICK g : Good(n - 1, g)
      BY <3>1, <3>2
    <3> DEFINE top == IF n \in Stop THEN n ELSE g[prev[n]]
               f == [x \in 0..n |-> IF x = n THEN top ELSE g[x]]
    <3>4. prev[n] \in 0..(n-1)
      BY <3>1, <2>3
    <3>5. ASSUME NEW x \in 0..n
          PROVE  f[x] = IF x = 0 \/ x \in Stop THEN x ELSE f[prev[x]]
      <4>1. CASE x = n
        BY <4>1, <3>4, <3>1, <2>3
      <4>2. CASE x # n
        <5>1. x \in 0..(n-1)
          BY <4>2, <3>1
        <5>2. g[x] = IF x = 0 \/ x \in Stop THEN x ELSE g[prev[x]]
          BY <5>1, <3>3
        <5>3. x # 0 => prev[x] \in 0..(n-1)
          BY <5>1, <3>1
        <5>4. QED
          BY <4>2, <5>2, <5>3, <5>1, <3>1
      <4>3. QED BY <4>1, <4>2
    <3>6. Good(n, f)
      BY <3>5
    <3>7. QED
      BY <2>1, <3>6
  <2>4. QED
    BY <2>2, <2>3
<1>2. M \notin T
  BY <1>1
<1>3. QED
  BY <1>2
  
LEMMA ReceiverStep ==
  ASSUME NEW h \in 0..MaxSessions, MaxSessions \in Nat,
         \A x \in 1..MaxSessions : sig.previous[x] \in 0..MaxSessions /\ sig.previous[x] < x
  PROVE  Receiver(h) = IF h = 0 \/ (Streaming /\ h = sess.n) THEN h ELSE Receiver(sig.previous[h])
<1> DEFINE Is(f) == f = [x \in 0..MaxSessions |->
              IF x = 0 \/ (Streaming /\ x = sess.n) THEN x ELSE f[sig.previous[x]]]
           Up == CHOOSE f : Is(f)
           Stop == {x \in 0..MaxSessions : Streaming /\ x = sess.n}
<1>1. PICK f : IsChain(f, MaxSessions, sig.previous, Stop)
  <2> HIDE DEF Stop
  <2>1. QED
    BY ChainDefined
<1>3. Is(f)
  BY <1>1 DEF IsChain
<1> HIDE DEF Is
<1>4. Is(Up)
  BY <1>3
<1>5. \A x : Receiver(x) = Up[x]
  BY DEF Receiver, Is
<1> HIDE DEF Up
<1> USE DEF Is
<1>6. QED
  BY <1>4, <1>5

\* ... and outside a streamed turn no session's handler takes the signal.
LEMMA NobodyReceives ==
  ASSUME Handlers, ~Streaming, NEW h \in Numbers
  PROVE  Receiver(h) = 0
<1> DEFINE T == {x \in Numbers : Receiver(x) # 0}
<1>1. SUFFICES ASSUME T # {} PROVE FALSE
  OBVIOUS
<1>2. T \in SUBSET Nat
  BY DEF Numbers
<1>3. PICK x \in T : \A y \in T : x <= y
  BY <1>1, <1>2, Least
<1>4. Receiver(x) = IF x = 0 THEN x ELSE Receiver(sig.previous[x])
  BY ReceiverStep DEF Handlers, Numbers
<1>5. x # 0
  BY <1>3, <1>4
<1>6. sig.previous[x] \in Numbers /\ sig.previous[x] < x
  BY <1>5 DEF Handlers, Numbers
<1>7. Receiver(sig.previous[x]) = 0
  <2>1. sig.previous[x] \notin T
    <3> HIDE DEF T
    <3>1. QED
      BY <1>2, <1>3, <1>6 DEF Numbers
  <2>2. QED
    BY <2>1, <1>6
<1>8. QED
  BY <1>3, <1>4, <1>5, <1>7

LEMMA NewSession ==
  ASSUME NEW n \in Numbers
  PROVE  LET s == [NoSession EXCEPT !.n = n] IN s \in Sessions /\ s.n = n /\ ~s.reload
  <1>1. NoSession \in Sessions /\ ~NoSession.reload
    BY DEF NoSession, Sessions, Numbers
  <1>2. QED
    BY <1>1 DEF Sessions

LEMMA InitHandlers == Init => Handlers
  BY DEF Init, Handlers, NoSignals, NoSession, Places, Numbers, Sessions

LEMMA NextHandlers == Handlers /\ [Next]_vars => Handlers'
  <1> SUFFICES ASSUME Handlers, [Next]_vars PROVE Handlers'
    OBVIOUS
  <1> USE DEF Numbers, Places, Sessions
  <1>1. CASE Run
    <2>1. /\ at = "off" /\ sig' = NoSignals
          /\ \/ at' = at /\ sess' = sess
             \/ at' = "start" /\ sess' = [NoSession EXCEPT !.n = 1]
      BY <1>1 DEF Run
    <2>2. \/ at' = at /\ sess' = sess
          \/ at' = "start" /\ sess' \in Sessions /\ sess'.n = 1 /\ ~sess'.reload
      BY <2>1, NewSession, 1 \in Numbers
    <2>3. /\ sig' \in [installed : Numbers, previous : [1..MaxSessions -> Numbers]]
          /\ sig'.installed = 0 /\ \A n \in 1..MaxSessions : sig'.previous[n] < n
      BY <2>1 DEF NoSignals
    <2>4. QED
      BY <2>1, <2>2, <2>3 DEF Handlers
  <1>2. CASE Start
    BY <1>2 DEF Start, Register, Handlers
  <1>3. CASE Close
    <2>1. at = "close" /\ sess.n \in 1..MaxSessions /\ sig.installed = sess.n
      BY <1>3 DEF Close, Handlers
    <2>2. /\ sig' \in [installed : Numbers, previous : [1..MaxSessions -> Numbers]]
          /\ sig'.previous = sig.previous /\ sig'.installed <= sess.n
      BY <1>3, <2>1 DEF Close, Restored, Handlers
    <2>3. CASE sess.reload /\ ~sess.raised
      <3>1. at' = "start" /\ sess' = [NoSession EXCEPT !.n = sess.n + 1]
        BY <1>3, <2>3 DEF Close
      <3>2. sess.n + 1 \in Numbers
        BY <2>1, <2>3 DEF Handlers
      <3>3. sess' \in Sessions /\ sess'.n = sess.n + 1 /\ ~sess'.reload
        BY <3>1, <3>2, NewSession
      <3>4. QED
        BY <2>1, <2>2, <3>1, <3>3 DEF Handlers
    <2>4. CASE ~(sess.reload /\ ~sess.raised)
      <3>1. at' = "off" /\ sess' = NoSession
        BY <1>3, <2>4 DEF Close
      <3>2. QED
        BY <2>2, <3>1 DEF Handlers, NoSession
    <2>5. QED
      BY <2>3, <2>4
  \* The others leave the handlers, and the number of the session, alone.
  <1>4. ASSUME at # "start", at = "off" <=> at' = "off", at' \in Places, at' # "start",
               sig' = sig, sess' \in Sessions,
               sess'.n = sess.n, sess'.reload => sess.reload \/ sess.n < MaxSessions
        PROVE  Handlers'
    BY <1>4 DEF Handlers
  <1>5. CASE ConfigCommand
    BY <1>5 DEF ConfigCommand, Handlers
  <1>6. CASE Build
    <2>1. sess' = sess \/ sess' = [sess EXCEPT !.raised = TRUE]
      BY <1>6 DEF Build
    <2>2. at = "build" /\ at' \in {"close", "open"} /\ sig' = sig
      BY <1>6 DEF Build
    <2>3. QED
      BY <2>1, <2>2, <1>4 DEF Handlers
  <1>7. CASE Open
    BY <1>7, <1>4 DEF Open, Handlers
  <1>8. CASE Signal
    <2>1. sess' = sess \/ sess' = [sess EXCEPT !.raised = TRUE]
      BY <1>8 DEF Signal
    <2>2. at \in {"build", "open", "stream", "mark"} /\ at' \in {"close", "prompt"} /\ sig' = sig
      BY <1>8 DEF Signal
    <2>3. QED
      BY <2>1, <2>2, <1>4 DEF Handlers
  <1>9. CASE CtrlC \/ TypeText \/ ToggleBash \/ Submit \/ Exit
    BY <1>9, <1>4 DEF CtrlC, TypeText, ToggleBash, Submit, Exit, AtPrompt, Same, Handlers
  <1>10. CASE HideTimer
    BY <1>10 DEF HideTimer, Handlers
  <1>11. CASE TurnOver \/ Mark \/ MarkDone
    BY <1>11, <1>4 DEF TurnOver, Mark, MarkDone, Handlers
  <1>12. CASE SwitchAgent
    BY <1>12, <1>4 DEF SwitchAgent, UpdateContext, Command, AtPrompt, Handlers
  <1>13. CASE SwitchModel
    BY <1>13, <1>4 DEF SwitchModel, UpdateContext, Command, AtPrompt, Handlers
  <1>14. CASE SwitchSubModel
    BY <1>14, <1>4 DEF SwitchSubModel, Ran, Command, AtPrompt, Handlers
  <1>15. CASE ToggleServers
    BY <1>15, <1>4 DEF ToggleServers, Ran, Command, AtPrompt, Handlers
  <1>16. CASE EditMemory
    BY <1>16, <1>4 DEF EditMemory, Ran, Command, AtPrompt, Handlers
  <1>17. CASE UNCHANGED vars
    BY <1>17 DEF vars, Handlers
  <1>18. QED
    BY <1>1, <1>2, <1>3, <1>5, <1>6, <1>7, <1>8, <1>9, <1>10, <1>11, <1>12, <1>13, <1>14,
       <1>15, <1>16, <1>17 DEF Next

LEMMA HandlersReach == Handlers => InterruptReaches
  <1> SUFFICES ASSUME Handlers, Streaming PROVE Receiver(sig.installed) = sess.n
    BY DEF InterruptReaches
  <1>1. sig.installed = sess.n /\ sess.n \in Numbers /\ sess.n # 0
    BY DEF Handlers, Streaming
  <1>2. QED
    BY <1>1, ReceiverStep DEF Handlers, Numbers

\* Ctrl+C during a streamed turn reaches the handler of the session that streams,
\* however many sessions came before it (session.py:216-279).
THEOREM InterruptsReach == Spec => []InterruptReaches
  <1>1. QED
    BY InitHandlers, NextHandlers, HandlersReach, PTL DEF Spec

-----------------------------------------------------------------------------
(* The updates *)

\* A directory in which agents have other models, or are marked otherwise.
AgentsSet(d, e) ==
  /\ IsDisk(e)
  /\ e.dir = d.dir /\ e.file = d.file /\ e.llms = d.llms /\ e.subs = d.subs /\ e.servers = d.servers
  /\ DOMAIN e.agents = DOMAIN d.agents
  /\ \A x \in DOMAIN d.agents : e.agents[x].subs = d.agents[x].subs

\* It is valid when the models are there, and what was loaded of it, but the
\* agents, is what it holds.
LEMMA AgentsSetAsGood ==
  ASSUME NEW d, NEW e, AgentsSet(d, e)
  PROVE  /\ Complete(d) => Complete(e)
         /\ Valid(d) /\ (\A x \in DOMAIN d.agents : e.agents[x].llm \in Aliases(d)) => Valid(e)
         /\ \A c : CacheSound(d, c) /\ c.agents = None => CacheSound(e, c)
         /\ \A c : CacheSound(d, c) /\ (\A x \in DOMAIN d.agents : e.agents[x].llm = d.agents[x].llm)
                   => CacheSound(e, c)
  <1>1. Complete(d) => Complete(e)
    BY DEF AgentsSet, Complete
  <1>2. /\ Distinct(d) <=> Distinct(e)
        /\ Aliases(e) = Aliases(d)
    BY DEF AgentsSet, Distinct, Aliases
  <1>3. SubsValid(d) <=> SubsValid(e)
    BY <1>2 DEF AgentsSet, SubsValid
  <1>4. Valid(d) /\ (\A x \in DOMAIN d.agents : e.agents[x].llm \in Aliases(d)) => Valid(e)
    BY <1>2, <1>3 DEF AgentsSet, Valid, AgentsValid
  <1>5. ASSUME NEW c, CacheSound(d, c), c.agents = None PROVE CacheSound(e, c)
    BY <1>2, <1>3, <1>5 DEF AgentsSet, CacheSound
  <1>6. ASSUME NEW c, CacheSound(d, c),
               \A x \in DOMAIN d.agents : e.agents[x].llm = d.agents[x].llm
        PROVE  CacheSound(e, c)
    <2>1. ASSUME c.agents # None PROVE AgentsRead(e, c.agents)
      <3>1. AgentsRead(d, c.agents)
        BY <1>6, <2>1 DEF CacheSound
      <3>2. Valid(e)
        BY <1>4, <1>6, <3>1 DEF AgentsRead, Valid, AgentsValid
      <3>3. QED
        BY <1>6, <3>1, <3>2 DEF AgentsRead, AgentsSet
    <2>2. QED
      BY <1>2, <1>3, <1>6, <2>1 DEF CacheSound, AgentsSet
  <1>7. QED
    BY <1>1, <1>4, <1>5, <1>6

LEMMA SetLlmIs ==
  ASSUME NEW r, IsState(r), NEW a, NEW m
  PROVE  LET q == SetLlm(r, a, m) IN
         /\ IsState(q) /\ q.ok = r.ok
         /\ AgentsSet(r.disk, q.disk)
         /\ \A x \in DOMAIN r.disk.agents :
              /\ q.disk.agents[x].llm = IF x = a THEN m ELSE r.disk.agents[x].llm
              /\ q.disk.agents[x].default = r.disk.agents[x].default
         /\ q.cache = Loaded(r.cache.llms, r.cache.subs, None, r.cache.mcp)
  <1> DEFINE as == [x \in DOMAIN r.disk.agents |->
                      IF x = a THEN [r.disk.agents[x] EXCEPT !.llm = m] ELSE r.disk.agents[x]]
             d == [r.disk EXCEPT !.agents = as]
             c == [r.cache EXCEPT !.agents = None]
  <1>1. SetLlm(r, a, m) = [[r EXCEPT !.disk = d] EXCEPT !.cache = c]
    BY DEF SetLlm, IsState
  <1>2. ASSUME NEW x \in DOMAIN r.disk.agents
        PROVE  /\ IsAgent(as[x]) /\ as[x].llm = IF x = a THEN m ELSE r.disk.agents[x].llm
               /\ as[x].subs = r.disk.agents[x].subs /\ as[x].default = r.disk.agents[x].default
    <2>1. IsAgent(r.disk.agents[x])
      BY DEF IsState, IsDisk
    <2>2. ASSUME NEW y, IsAgent(y)
          PROVE  LET z == [y EXCEPT !.llm = m] IN
                 IsAgent(z) /\ z.llm = m /\ z.subs = y.subs /\ z.default = y.default
      <3>1. [y EXCEPT !.llm = m] = AgentRecord(m, y.default, y.old, y.subs)
        BY <2>2, AgentRecords
      <3>2. QED
        BY <3>1 DEF IsAgent, AgentRecord
    <2>3. as[x] = IF x = a THEN [r.disk.agents[x] EXCEPT !.llm = m] ELSE r.disk.agents[x]
      OBVIOUS
    <2>4. QED
      BY <2>1, <2>2, <2>3
  <1>3. DOMAIN as = DOMAIN r.disk.agents /\ as = [x \in DOMAIN as |-> as[x]]
    OBVIOUS
  <1> HIDE DEF as
  <1>4. d = DiskRecord(r.disk, as, r.disk.subs, r.disk.servers)
    BY DiskRecords DEF IsState
  <1>5. c = Loaded(r.cache.llms, r.cache.subs, None, r.cache.mcp)
    BY CacheRecords DEF IsState
  <1> HIDE DEF d, c
  <1>6. IsDisk(d) /\ AgentsSet(r.disk, d) /\ d.agents = as
    BY <1>2, <1>3, <1>4 DEF IsDisk, AgentsSet, IsState, DiskRecord
  <1>7. [[r EXCEPT !.disk = d] EXCEPT !.cache = c] = State(d, c, r.ok)
    <2> DEFINE e == [r EXCEPT !.disk = d]
    <2>1. e = State(d, r.cache, r.ok)
      BY StateRecords
    <2> HIDE DEF e
    <2>2. [e EXCEPT !.cache = c] = State(d, c, r.ok)
      BY <2>1, StateCache
    <2>3. QED
      BY <2>2 DEF e
  <1>8. IsCache(c)
    BY <1>5 DEF IsCache, Loaded
  <1>9. QED
    BY <1>1, <1>2, <1>5, <1>6, <1>7, <1>8 DEF IsState, State

LEMMA SetSubLlmIs ==
  ASSUME NEW r, Sound(r), NEW s, NEW m, m \in Aliases(r.disk)
  PROVE  LET q == SetSubLlm(r, s, m)  d == q.disk IN
         /\ Sound(q)
         /\ d.file = r.disk.file /\ d.llms = r.disk.llms /\ d.agents = r.disk.agents
         /\ d.servers = r.disk.servers /\ DOMAIN d.subs = DOMAIN r.disk.subs
         /\ q.cache.mcp = r.cache.mcp
         /\ Valid(r.disk) => Valid(d)
  <1> DEFINE ss == [x \in DOMAIN r.disk.subs |-> IF x = s THEN m ELSE r.disk.subs[x]]
             d == [r.disk EXCEPT !.subs = ss]
             c == [r.cache EXCEPT !.subs = None]
  <1>1. SetSubLlm(r, s, m) = [[r EXCEPT !.disk = d] EXCEPT !.cache = c]
    BY DEF SetSubLlm, Sound, IsState
  <1>2. DOMAIN ss = DOMAIN r.disk.subs /\ ss = [x \in DOMAIN ss |-> ss[x]]
    OBVIOUS
  <1>3. (\A x \in DOMAIN r.disk.subs : r.disk.subs[x] \in Aliases(r.disk)) =>
          \A x \in DOMAIN ss : ss[x] \in Aliases(r.disk)
    OBVIOUS
  <1> HIDE DEF ss
  <1>4. d = DiskRecord(r.disk, r.disk.agents, ss, r.disk.servers)
    BY DiskRecords DEF Sound, IsState
  <1>5. c = Loaded(r.cache.llms, None, r.cache.agents, r.cache.mcp)
    BY CacheRecords DEF Sound, IsState
  <1> HIDE DEF d, c
  <1>6. IsDisk(d) /\ Complete(d)
    BY <1>2, <1>4 DEF IsDisk, Complete, Sound, IsState, DiskRecord
  <1>7. /\ Aliases(d) = Aliases(r.disk) /\ (Distinct(r.disk) => Distinct(d))
        /\ SubsValid(r.disk) => SubsValid(d)
        /\ Valid(r.disk) => Valid(d)
    <2>1. Aliases(d) = Aliases(r.disk) /\ (Distinct(r.disk) => Distinct(d))
      BY <1>4 DEF DiskRecord, Aliases, Distinct
    <2>2. SubsValid(r.disk) => SubsValid(d)
      BY <1>2, <1>3, <1>4, <2>1 DEF DiskRecord, SubsValid
    <2>3. AgentsValid(r.disk) => AgentsValid(d)
      BY <1>2, <1>4, <2>1 DEF DiskRecord, AgentsValid
    <2>4. QED
      BY <2>1, <2>2, <2>3 DEF Valid
  <1>8. IsCache(c) /\ CacheSound(d, c)
    <2>1. IsCache(c)
      BY <1>5 DEF IsCache, Loaded
    <2>2. \A as : AgentsRead(r.disk, as) => AgentsRead(d, as)
      BY <1>4, <1>7 DEF AgentsRead, DiskRecord
    <2>3. QED
      BY <2>1, <2>2, <1>4, <1>5, <1>7 DEF CacheSound, Sound, Loaded, DiskRecord
  <1>9. [[r EXCEPT !.disk = d] EXCEPT !.cache = c] = State(d, c, r.ok)
    <2> DEFINE e == [r EXCEPT !.disk = d]
    <2>1. e = State(d, r.cache, r.ok)
      BY StateRecords DEF Sound
    <2> HIDE DEF e
    <2>2. [e EXCEPT !.cache = c] = State(d, c, r.ok)
      BY <2>1, StateCache
    <2>3. QED
      BY <2>2 DEF e
  <1>10. QED
    BY <1>1, <1>2, <1>4, <1>5, <1>6, <1>7, <1>8, <1>9 DEF Sound, IsState, State, DiskRecord, Loaded

-----------------------------------------------------------------------------
(* The steps of a process *)

LEMMA InitSInv == Init => SInv
  <1> SUFFICES ASSUME Init PROVE SInv
    OBVIOUS
  <1>1. IsDisk(disk)
    <2>1. CASE disk = [Template EXCEPT !.dir = FALSE]
      <3>1. ASSUME NEW d, IsDisk(d), NEW b PROVE IsDisk([d EXCEPT !.dir = b])
        <4>1. [d EXCEPT !.dir = b] =
                [dir |-> b, file |-> d.file, llms |-> d.llms, agents |-> d.agents,
                 subs |-> d.subs, servers |-> d.servers]
          BY <3>1 DEF IsDisk
        <4>2. QED
          BY <3>1, <4>1 DEF IsDisk
      <3>2. QED
        BY <2>1, <3>1, TemplateIsDisk
    <2>2. CASE disk \in UserDisk
      <3> DEFINE Edited(f, v, ags) ==
            [Template EXCEPT !.file = f, !.servers = v,
                             !.agents = Completed(ags, Template.agents)]
          Files == {{Default}, Models \ Template.llms}
          Own == [Agents \ DOMAIN Template.agents ->
                    {[llm |-> m, default |-> FALSE, old |-> FALSE, subs |-> {}] :
                       m \in Models \ Template.file}]
      <3>0. UserDisk = {Edited(f, v, ags) : f \in Files, v \in [Servers -> BOOLEAN], ags \in Own}
        BY DEF UserDisk
      <3> HIDE DEF Edited, Files, Own
      <3>1. PICK f \in Files, v \in [Servers -> BOOLEAN], ags \in Own : disk = Edited(f, v, ags)
        BY <2>2, <3>0
      <3> DEFINE as == Completed(ags, Template.agents)
      <3>2. ags = [a \in DOMAIN ags |-> ags[a]] /\ \A a \in DOMAIN ags : IsAgent(ags[a])
        BY DEF Own, IsAgent
      <3>3. Extends(as, ags, Template.agents)
        BY <3>2, CompletedExtends, TemplateIsDisk DEF IsDisk
      <3>4. \A a \in DOMAIN as : IsAgent(as[a])
        BY <3>2, <3>3, TemplateIsDisk DEF Extends, IsDisk
      <3> HIDE DEF as
      <3>5. disk = [dir |-> Template.dir, file |-> f, llms |-> Template.llms, agents |-> as,
                    subs |-> Template.subs, servers |-> v]
        BY <3>1, TemplateIsDisk DEF IsDisk, as, Edited
      <3>6. as = [a \in DOMAIN as |-> as[a]]
        BY <3>3 DEF Extends
      <3>7. v = [x \in DOMAIN v |-> v[x]]
        OBVIOUS
      <3>8. Template.subs = [x \in DOMAIN Template.subs |-> Template.subs[x]]
        BY TemplateIsDisk DEF IsDisk
      <3>9. QED
        BY ONLY <3>4, <3>5, <3>6, <3>7, <3>8 DEF IsDisk
    <2>3. QED
      BY <2>1, <2>2 DEF Init
  <1>2. QED
    BY <1>1 DEF Init, SInv, Config, Graph, Switch, NoCache, NoContext, IsCache, IsContext, Used

\* The state an operation starts from.
LEMMA RIsSound ==
  ASSUME Config, at # "off"
  PROVE  Sound(R) /\ R.disk = disk /\ R.cache = cache /\ R.ok
  BY DEF Config, R, Sound, IsState

\* A step that loads something, at most, and leaves the agent chosen alone.
LEMMA GoesOn ==
  ASSUME SInv, at \notin {"off", "mark"}, at' \notin {"off", "mark"},
         NEW r, Sound(r), SameDisk(disk, r.disk), Kept(r),
         faults = 0 /\ r.cache.mcp # None => Enabled(r.cache.mcp) = Enabled(disk.servers),
         UNCHANGED <<todo, switched, faults>>,
         IsContext(ctx'), ctx'.agent = ctx.agent, ctx'.model = ctx.model,
         at' \in Used => GraphOf(graph', disk)
  PROVE  SInv'
  <1>1. disk' = r.disk /\ cache' = r.cache /\ disk'.servers = disk.servers
    BY DEF Kept, SameDisk
  <1>2. Config'
    <2>1. DOMAIN disk'.agents = DOMAIN disk.agents
      BY <1>1 DEF SameDisk
    <2>2. QED
      BY <1>1, <2>1 DEF SInv, Config, Sound, IsState
  <1>3. Graph'
    BY <1>1 DEF Graph, GraphOf
  <1>4. Switch'
    <2>1. Valid(disk) => Valid(disk')
      BY <1>1, SameDiskAsGood
    <2>2. QED
      BY <1>1, <2>1 DEF SInv, Switch, Chosen, SameDisk
  <1>5. QED
    BY <1>2, <1>3, <1>4 DEF SInv

\* ... or loads nothing.
LEMMA GoesOnAlone ==
  ASSUME SInv, at \notin {"off", "mark"}, at' \notin {"off", "mark"},
         UNCHANGED <<disk, cache, todo, switched, faults>>,
         IsContext(ctx'), ctx'.agent = ctx.agent, ctx'.model = ctx.model,
         at' \in Used => at \in Used /\ graph' = graph
  PROVE  SInv'
  <1>1. Sound(R) /\ R.disk = disk /\ R.cache = cache
    BY RIsSound DEF SInv
  <1>2. SameDisk(disk, R.disk)
    BY <1>1 DEF SameDisk
  <1>3. Kept(R)
    BY <1>1 DEF Kept
  <1>4. faults = 0 /\ R.cache.mcp # None => Enabled(R.cache.mcp) = Enabled(disk.servers)
    BY <1>1 DEF SInv, Config
  <1>5. at' \in Used => GraphOf(graph', disk)
    BY DEF SInv, Graph
  <1>6. QED
    BY <1>1, <1>2, <1>3, <1>4, <1>5, GoesOn

ContextRecord(agent, model, bash, stream, once, resume) ==
  [agent |-> agent, model |-> model, bash |-> bash, stream |-> stream,
   once |-> once, resume |-> resume]
LEMMA ContextRecords ==
  ASSUME NEW c, IsContext(c), NEW x
  PROVE  /\ [c EXCEPT !.bash = x] = ContextRecord(c.agent, c.model, x, c.stream, c.once, c.resume)
         /\ [c EXCEPT !.resume = x] = ContextRecord(c.agent, c.model, c.bash, c.stream, c.once, x)
         /\ [c EXCEPT !.agent = x] = ContextRecord(x, c.model, c.bash, c.stream, c.once, c.resume)
         /\ [c EXCEPT !.model = x] = ContextRecord(c.agent, x, c.bash, c.stream, c.once, c.resume)
  BY DEF IsContext, ContextRecord

LEMMA ContextIs ==
  \A a, m, b, s, o, z :
    LET d == ContextRecord(a, m, b, s, o, z) IN IsContext(d) /\ d.agent = a /\ d.model = m
  BY DEF IsContext, ContextRecord

LEMMA ContextsChange ==
  ASSUME NEW c, IsContext(c), NEW x
  PROVE  /\ LET d == [c EXCEPT !.bash = x] IN IsContext(d) /\ d.agent = c.agent /\ d.model = c.model
         /\ LET d == [c EXCEPT !.resume = x] IN IsContext(d) /\ d.agent = c.agent /\ d.model = c.model
  <1>1. LET d == [c EXCEPT !.bash = x] IN IsContext(d) /\ d.agent = c.agent /\ d.model = c.model
    <2>1. [c EXCEPT !.bash = x] = ContextRecord(c.agent, c.model, x, c.stream, c.once, c.resume)
      BY ContextRecords
    <2>2. QED
      BY <2>1, ContextIs
  <1>2. LET d == [c EXCEPT !.resume = x] IN IsContext(d) /\ d.agent = c.agent /\ d.model = c.model
    <2>1. [c EXCEPT !.resume = x] = ContextRecord(c.agent, c.model, c.bash, c.stream, c.once, x)
      BY ContextRecords
    <2>2. QED
      BY <2>1, ContextIs
  <1>3. QED
    BY <1>1, <1>2

LEMMA ContextSwitches ==
  ASSUME IsContext(ctx), NEW x, NEW y, ctx' = [ctx EXCEPT !.agent = x, !.model = y]
  PROVE  IsContext(ctx') /\ ctx'.agent = x /\ ctx'.model = y
  <1> DEFINE e == [ctx EXCEPT !.agent = x]
             z == ContextRecord(x, y, e.bash, e.stream, e.once, e.resume)
  <1>1. e = ContextRecord(x, ctx.model, ctx.bash, ctx.stream, ctx.once, ctx.resume)
    BY ContextRecords
  <1>2. ctx' = [e EXCEPT !.model = y]
    OBVIOUS
  <1> HIDE DEF e
  <1>3. IsContext(e) /\ e.agent = x
    BY <1>1, ContextIs
  <1>4. [e EXCEPT !.model = y] = z
    BY <1>3, ContextRecords
  <1>5. IsContext(z) /\ z.agent = x /\ z.model = y
    BY ContextIs
  <1> HIDE DEF z
  <1>6. ctx' = z
    BY <1>2, <1>4
  <1>7. QED
    BY <1>5, <1>6

\* The first load of a process completes the directory.
LEMMA FirstLoad ==
  ASSUME Config
  PROVE  LET r == [R EXCEPT !.cache = NoCache] IN
         /\ Sound(Ensure(r)) /\ Ensure(r).cache = NoCache /\ Ensure(r).ok
         /\ LoadAgents(r) = LoadAgents(Ensure(r))
         /\ IsState(r) /\ r.disk = disk /\ r.cache = NoCache /\ r.ok
  <1> DEFINE r == [R EXCEPT !.cache = NoCache]
             e == Ensure(r)
  <1>1. IsState(r) /\ r.disk = disk /\ r.cache = NoCache /\ r.ok
    <2>1. IsState(R) /\ R.ok /\ R.disk = disk
      BY DEF Config, R, IsState
    <2>2. r = State(disk, NoCache, R.ok)
      BY <2>1, StateRecords
    <2>3. IsCache(NoCache)
      BY DEF IsCache, NoCache
    <2>4. QED
      BY <2>1, <2>2, <2>3 DEF State, IsState
  <1> HIDE DEF r
  <1>2. e = State(Ensured(r.disk), NoCache, r.ok) /\ IsState(e) /\ Complete(e.disk)
    BY <1>1, EnsureIs
  <1>3. Sound(e) /\ e.cache = NoCache /\ e.ok
    <2>1. e.cache = NoCache /\ e.ok
      BY <1>1, <1>2 DEF State
    <2>2. QED
      BY <1>2, <2>1 DEF Sound, CacheSound, NoCache
  <1>4. LoadAgents(r) = LoadAgents(e)
    <2>1. r.cache.agents = None /\ e.cache.agents = None
      BY <1>1, <1>3 DEF NoCache
    <2>2. Ensure(e) = e
      BY <1>2, EnsureIs
    <2>3. QED
      BY <1>1, <1>3, <2>1, <2>2 DEF LoadAgents
  <1>5. QED
    BY <1>1, <1>3, <1>4 DEF r

\* The chat command.
LEMMA RunKeeps ==
  ASSUME IInv, Run
  PROVE  SInv'
  <1> DEFINE r == LoadAgents([R EXCEPT !.cache = NoCache])
  <1>1. Sound(r) /\ r.cache.mcp = None
    <2> DEFINE e == Ensure([R EXCEPT !.cache = NoCache])
    <2>1. Sound(e) /\ e.cache = NoCache /\ r = LoadAgents(e)
      BY FirstLoad DEF IInv, SInv
    <2> HIDE DEF e, r
    <2>2. QED
      BY <2>1, LoadAgentsIs DEF NoCache
  <1>2. /\ at = "off" /\ Kept(r) /\ switched' = FALSE /\ UNCHANGED <<todo, faults>>
        /\ \/ at' = at /\ ctx' = ctx
           \/ at' = "start" /\ IsContext(ctx')
    <2>1. /\ at = "off" /\ switched' = FALSE /\ UNCHANGED <<todo, faults>>
      BY DEF Run
    <2>2. \E agent \in Agents \cup {None}, model \in Models \cup {None},
             resume, once, stream \in BOOLEAN :
            /\ Kept(r)
            /\ \/ at' = at /\ ctx' = ctx
               \/ /\ at' = "start"
                  /\ \E a, m : ctx' = [agent |-> a, model |-> m, bash |-> FALSE,
                                       stream |-> stream, once |-> once, resume |-> resume]
      BY DEF Run
    <2>3. QED
      BY <2>1, <2>2 DEF IsContext
  <1> HIDE DEF r
  <1>3. disk' = r.disk /\ cache' = r.cache /\ todo' = {}
    BY <1>2 DEF Kept, IInv, SInv, Config
  <1>4. Config'
    BY <1>1, <1>2, <1>3 DEF Config, IInv, SInv, Sound, IsState
  <1>5. QED
    BY <1>2, <1>4 DEF SInv, Graph, Switch, Used

\* The config command.
LEMMA ConfigCommandKeeps ==
  ASSUME IInv, ConfigCommand
  PROVE  SInv'
  <1> DEFINE e == Ensure([R EXCEPT !.cache = NoCache])
             r == LoadAgents(e)
  <1>1. Sound(r)
    <2>1. Sound(e)
      BY FirstLoad DEF IInv, SInv
    <2> HIDE DEF e
    <2>2. QED
      BY <2>1, LoadAgentsIs
  <1>2. /\ at = "off" /\ at' = "off" /\ UNCHANGED <<ctx, todo, faults>>
        /\ Kept(r) \/ \E a : Kept(Reconfigured(r, a))
    BY DEF ConfigCommand
  <1> HIDE DEF e, r
  <1>3. ASSUME NEW a
        PROVE  IsState(Reconfigured(r, a))
    <2> DEFINE d == [r.disk EXCEPT !.file = {Default}]
               s == [r EXCEPT !.disk = d]
               q == SetLlm(s, a, Default)
    <2>1. d = [dir |-> r.disk.dir, file |-> {Default}, llms |-> r.disk.llms,
               agents |-> r.disk.agents, subs |-> r.disk.subs, servers |-> r.disk.servers]
      <3>1. r.disk = DiskRecord(r.disk, r.disk.agents, r.disk.subs, r.disk.servers)
        BY <1>1 DEF Sound, IsState, IsDisk, DiskRecord
      <3>2. QED
        BY ONLY <3>1 DEF DiskRecord
    <2>2. IsDisk(d)
      BY <1>1, <2>1 DEF Sound, IsState, IsDisk
    <2> HIDE DEF d
    <2>3. IsState(s)
      <3>1. s = State(d, r.cache, r.ok)
        BY <1>1, StateRecords DEF Sound
      <3>2. QED
        BY <1>1, <2>2, <3>1 DEF State, IsState, Sound
    <2>4. Reconfigured(r, a) = [q EXCEPT !.cache = NoCache]
      BY DEF Reconfigured, d
    <2> HIDE DEF s
    <2>5. IsState(q)
      BY <2>3, SetLlmIs
    <2> HIDE DEF q
    <2>6. [q EXCEPT !.cache = NoCache] = State(q.disk, NoCache, q.ok)
      BY <2>5, StateRecords
    <2>7. IsCache(NoCache)
      BY DEF IsCache, NoCache
    <2>8. QED
      BY <2>4, <2>5, <2>6, <2>7 DEF IsState, State
  <1>4. IsDisk(disk') /\ IsCache(cache')
    BY <1>1, <1>2, <1>3 DEF Kept, Sound, IsState
  <1>5. todo' = {}
    BY <1>2 DEF IInv, SInv, Config
  <1>6. QED
    BY <1>2, <1>4, <1>5 DEF IInv, SInv, Config, Graph, Switch, Used

\* Building the graph loads what is still to be loaded.
LEMMA BuildKeeps ==
  ASSUME IInv, Build
  PROVE  SInv'
  <1> DEFINE a == LoadAgents(R)
             l == LoadLlms(a)
             r == LoadMcp(l)
  <1>1. at = "build" /\ at # "off" /\ Sound(R) /\ R.disk = disk /\ R.cache = cache /\ R.ok
    BY RIsSound DEF Build, IInv, SInv
  <1>2. Sound(a) /\ SameDisk(disk, a.disk) /\ a.cache.mcp = cache.mcp
    BY <1>1, LoadAgentsIs
  <1> HIDE DEF a
  <1>3. Sound(l) /\ l.disk = a.disk /\ l.cache.mcp = cache.mcp
    <2>1. l.cache = Loaded(l.cache.llms, a.cache.subs, a.cache.agents, a.cache.mcp)
      BY <1>2, LoadLlmsIs
    <2>2. QED
      BY <1>2, <2>1, LoadLlmsIs DEF Loaded
  <1> HIDE DEF l
  <1>4. /\ Sound(r) /\ r.disk = a.disk
        /\ r.cache.mcp = cache.mcp \/ r.cache.mcp = a.disk.servers
        /\ r.ok => r.cache.mcp = IF cache.mcp # None THEN cache.mcp ELSE a.disk.servers
    <2>1. CASE l.ok
      BY <1>3, <2>1, LoadMcpIs
    <2>2. CASE ~l.ok
      BY <1>3, <2>2 DEF LoadMcp
    <2>3. QED
      BY <2>1, <2>2
  <1>5. SameDisk(disk, r.disk) /\ a.disk.servers = disk.servers
    BY <1>2, <1>4 DEF SameDisk
  <1>6. faults = 0 => (cache.mcp # None => Enabled(cache.mcp) = Enabled(disk.servers))
    BY <1>1 DEF IInv, SInv, Config
  <1>7. faults = 0 /\ r.cache.mcp # None => Enabled(r.cache.mcp) = Enabled(disk.servers)
    BY <1>4, <1>5, <1>6
  <1>8. /\ Kept(r) /\ UNCHANGED <<ctx, todo, switched, faults>>
        /\ \/ at' = "close"
           \/ /\ at' = "open" /\ Named(r, ctx.agent) # {}
              /\ graph' = [agent |-> ctx.agent, model |-> ctx.model,
                           subs |-> r.cache.agents[ctx.agent].subs,
                           servers |-> Enabled(r.cache.mcp)]
    BY DEF Build, l, a
  <1> HIDE DEF r
  <1>9. at' \in Used => GraphOf(graph', disk)
    <2>1. ASSUME Named(r, ctx.agent) # {} PROVE r.ok
      BY <2>1 DEF Named
    <2>2. r.ok /\ faults = 0 => Enabled(r.cache.mcp) = Enabled(disk.servers)
      BY <1>4, <1>5, <1>6
    <2>3. QED
      BY <1>8, <2>1, <2>2 DEF GraphOf, Used
  <1>10. IsContext(ctx')
    BY <1>8 DEF IInv, SInv, Config
  <1>11. QED
    BY <1>1, <1>4, <1>5, <1>7, <1>8, <1>9, <1>10, GoesOn DEF IInv

\* The steps of a session that leave the configuration alone.
LEMMA SessionKeeps ==
  ASSUME IInv, Start \/ Open \/ Close \/ Signal \/ TurnOver
  PROVE  SInv'
  <1> USE DEF IInv
  <1>1. IsContext(ctx)
    BY DEF SInv, Config
  <1>2. CASE Start \/ TurnOver
    BY <1>1, <1>2, GoesOnAlone DEF Start, TurnOver, Used
  <1>3. CASE Open
    <2>1. IsContext(ctx') /\ ctx'.agent = ctx.agent /\ ctx'.model = ctx.model
      BY <1>1, <1>3, ContextsChange DEF Open
    <2>2. /\ at = "open" /\ at' \in {"stream", "prompt"}
          /\ UNCHANGED <<disk, cache, todo, switched, faults, graph>>
      BY <1>3 DEF Open
    <2>3. QED
      BY <2>1, <2>2, GoesOnAlone DEF Used
  <1>4. CASE Close
    <2>1. /\ at = "close" /\ at' \in {"start", "off"}
          /\ UNCHANGED <<disk, cache, ctx, todo, switched, faults>>
      BY <1>4 DEF Close
    <2>2. CASE at' = "start"
      BY <1>1, <2>1, <2>2, GoesOnAlone DEF Used
    <2>3. CASE at' = "off"
      BY <2>1, <2>3 DEF SInv, Config, Graph, Switch, Used
    <2>4. QED
      BY <2>1, <2>2, <2>3
  <1>5. CASE Signal
    <2>1. /\ at \in {"build", "open", "stream", "mark"} /\ at' \in {"close", "prompt"}
          /\ UNCHANGED <<disk, cache, ctx, graph, switched>> /\ todo' = {}
      BY <1>5 DEF Signal
    <2>2. ~Streaming => at' = "close" /\ (at = "mark" => faults' = faults + 1)
                          /\ (at # "mark" => faults' = faults)
      <3>1. sig.installed \in Numbers
        BY DEF Handlers
      <3>2. ~Streaming => Receiver(sig.installed) = 0
        BY <3>1, NobodyReceives
      <3>3. QED
        BY <1>5, <3>2 DEF Signal
    <2>3. Streaming => at = "stream" /\ faults' = faults
      BY <1>5 DEF Signal, Streaming
    <2>4. CASE at # "mark"
      <3>1. todo = {} /\ UNCHANGED <<todo, faults>>
        BY <2>1, <2>2, <2>3, <2>4 DEF SInv, Config
      <3>2. at' \in Used => at \in Used
        BY <2>1, <2>2, <2>3 DEF Used
      <3>3. QED
        BY <1>1, <2>1, <2>4, <3>1, <3>2, GoesOnAlone
    <2>5. CASE at = "mark"
      <3>1. at' = "close" /\ faults' = faults + 1
        BY <2>2, <2>3, <2>5
      <3>2. faults' # 0 /\ faults' \in Nat
        BY <3>1 DEF SInv, Config
      <3>3. QED
        BY <2>1, <2>5, <3>1, <3>2 DEF SInv, Config, Graph, Switch, Used
    <2>6. QED
      BY <2>4, <2>5
  <1>6. QED
    BY <1>2, <1>3, <1>4, <1>5

\* The prompt.
LEMMA PromptKeeps ==
  ASSUME IInv, CtrlC \/ HideTimer \/ TypeText \/ ToggleBash \/ Submit \/ Exit \/ EditMemory
  PROVE  SInv'
  <1> USE DEF IInv
  <1>1. IsContext(ctx)
    BY DEF SInv, Config
  <1>2. CASE HideTimer
    BY <1>2 DEF HideTimer, SInv, Config, Graph, GraphOf, Switch, Chosen
  <1>3. CASE CtrlC \/ TypeText \/ Submit \/ Exit \/ EditMemory
    <2>1. /\ at = "prompt" /\ at' \in {"prompt", "stream", "close"}
          /\ UNCHANGED <<disk, cache, ctx, graph, todo, switched, faults>>
      BY <1>3 DEF CtrlC, TypeText, Submit, Exit, EditMemory, Command, Ran, AtPrompt, Same
    <2>2. QED
      BY <1>1, <2>1, GoesOnAlone DEF Used
  <1>4. CASE ToggleBash
    <2>1. IsContext(ctx') /\ ctx'.agent = ctx.agent /\ ctx'.model = ctx.model
      BY <1>1, <1>4, ContextsChange DEF ToggleBash
    <2>2. /\ at = "prompt" /\ at' = "prompt"
          /\ UNCHANGED <<disk, cache, graph, todo, switched, faults>>
      BY <1>4 DEF ToggleBash, AtPrompt
    <2>3. QED
      BY <2>1, <2>2, GoesOnAlone DEF Used
  <1>5. QED
    BY <1>2, <1>3, <1>4

\* Another agent: all its files are still to be written.
LEMMA SwitchAgentKeeps ==
  ASSUME IInv, SwitchAgent
  PROVE  SInv'
  <1> DEFINE r == LoadAgents(R)
             some == r.ok /\ DOMAIN r.cache.agents \ {ctx.agent} # {}
  <1>1. at = "prompt" /\ Sound(R) /\ R.disk = disk /\ R.cache = cache /\ R.ok
    BY RIsSound DEF SwitchAgent, Command, AtPrompt, IInv, SInv
  <1>2. /\ Sound(r) /\ SameDisk(disk, r.disk) /\ r.cache.mcp = cache.mcp
        /\ r.ok => AgentsRead(r.disk, r.cache.agents)
    BY <1>1, LoadAgentsIs
  <1>3. /\ Kept(r) /\ UNCHANGED <<graph, switched, faults>>
        /\ some => /\ \E a \in DOMAIN r.cache.agents \ {ctx.agent} :
                        UpdateContext(a, r.cache.agents[a].llm)
                   /\ todo' = DOMAIN disk.agents
        /\ ~some => UNCHANGED <<at, ctx, todo>>
    BY DEF SwitchAgent, Command, AtPrompt
  <1>4. /\ IsContext(ctx)
        /\ faults = 0 /\ r.cache.mcp # None => Enabled(r.cache.mcp) = Enabled(disk.servers)
    BY <1>1, <1>2 DEF IInv, SInv, Config
  <1> HIDE DEF r
  <1>5. CASE some
    <2>1. PICK a \in DOMAIN r.cache.agents : /\ a # ctx.agent
                                            /\ UpdateContext(a, r.cache.agents[a].llm)
      BY <1>3, <1>5
    <2>2. at' = "mark" /\ ctx' = [ctx EXCEPT !.agent = a, !.model = r.cache.agents[a].llm]
      BY <2>1 DEF UpdateContext
    <2>3. IsContext(ctx') /\ ctx'.agent = a /\ ctx'.model = r.cache.agents[a].llm
      BY <1>4, <2>2, ContextSwitches
    <2>4. disk' = r.disk /\ cache' = r.cache /\ todo' = DOMAIN disk'.agents
      BY <1>2, <1>3, <1>5 DEF Kept, SameDisk
    <2>5. faults = 0 /\ r.cache.mcp # None => Enabled(r.cache.mcp) = Enabled(r.disk.servers)
      BY <1>2, <1>4 DEF SameDisk
    <2>6. Config'
      BY <1>2, <1>3, <2>2, <2>3, <2>4, <2>5 DEF Config, IInv, SInv, Sound, IsState
    <2>7. AgentsRead(r.disk, r.cache.agents)
      BY <1>2, <1>5
    <2>8. Chosen'
      BY <2>1, <2>3, <2>4, <2>7 DEF Chosen, AgentsRead
    <2>9. QED
      BY <2>2, <2>6, <2>8 DEF SInv, Graph, Switch, Used
  <1>6. CASE ~some
    <2>1. at' \in Used => GraphOf(graph', disk)
      BY <1>1, <1>3, <1>6 DEF IInv, SInv, Graph, Used
    <2>2. QED
      BY <1>1, <1>2, <1>3, <1>4, <1>6, <2>1, GoesOn DEF IInv
  <1>7. QED
    BY <1>5, <1>6

\* A file marked: it is the chosen agent's or it is not the default.
LEMMA MarkFileIs ==
  ASSUME NEW d, IsDisk(d), NEW x \in DOMAIN d.agents, NEW a
  PROVE  LET e == MarkFile(d, x, a) IN
         /\ AgentsSet(d, e)
         /\ \A y \in DOMAIN d.agents :
              /\ e.agents[y].llm = d.agents[y].llm
              /\ y # x => e.agents[y] = d.agents[y]
         /\ e.agents[x].default <=> x = a
  <1> DEFINE Set(y, b) == [y EXCEPT !.default = b]
             mark == x = a
             as == [d.agents EXCEPT ![x] = Set(@, mark)]
             e == [d EXCEPT !.agents = as]
  <1>1. MarkFile(d, x, a) = e
    BY DEF MarkFile
  <1>2. ASSUME NEW y, IsAgent(y), NEW b
        PROVE  LET z == Set(y, b) IN
               IsAgent(z) /\ z.llm = y.llm /\ z.subs = y.subs /\ z.default = b
    <2>1. [y EXCEPT !.default = b] = AgentRecord(y.llm, b, y.old, y.subs)
      BY <1>2, AgentRecords
    <2>2. QED
      BY <2>1 DEF IsAgent, AgentRecord
  <1> HIDE DEF Set, mark
  <1>3. as = [y \in DOMAIN d.agents |-> IF y = x THEN Set(d.agents[x], mark) ELSE d.agents[y]]
    BY DEF IsDisk
  <1>4. DOMAIN as = DOMAIN d.agents /\ as = [y \in DOMAIN as |-> as[y]]
    BY <1>3
  <1>5. as[x] = Set(d.agents[x], mark)
    BY <1>3
  <1>6. \A y \in DOMAIN d.agents : y # x => as[y] = d.agents[y]
    BY <1>3
  <1> HIDE DEF as
  <1>7. /\ IsAgent(as[x]) /\ as[x].llm = d.agents[x].llm /\ as[x].subs = d.agents[x].subs
        /\ as[x].default = mark
    <2>1. IsAgent(d.agents[x])
      BY DEF IsDisk
    <2>2. QED
      BY <1>2, <1>5, <2>1
  <1>8. e = DiskRecord(d, as, d.subs, d.servers)
    BY DiskRecords
  <1> HIDE DEF e
  <1>9. e.agents = as /\ AgentsSet(d, e)
    BY <1>4, <1>6, <1>7, <1>8 DEF IsDisk, AgentsSet, DiskRecord
  <1>10. QED
    BY <1>1, <1>6, <1>7, <1>9 DEF mark

LEMMA MarkKeeps ==
  ASSUME IInv, Mark
  PROVE  SInv'
  <1>1. /\ at = "mark" /\ at' = "mark"
        /\ UNCHANGED <<cache, ctx, graph, switched, faults>>
    BY DEF Mark
  <1>2. PICK x \in todo : disk' = MarkFile(disk, x, ctx.agent) /\ todo' = todo \ {x}
    BY DEF Mark
  <1>3. IsDisk(disk) /\ x \in DOMAIN disk.agents /\ todo \subseteq DOMAIN disk.agents
    BY DEF IInv, SInv, Config
  <1>4. /\ AgentsSet(disk, disk')
        /\ \A y \in DOMAIN disk.agents :
             /\ disk'.agents[y].llm = disk.agents[y].llm
             /\ y # x => disk'.agents[y] = disk.agents[y]
        /\ disk'.agents[x].default <=> x = ctx.agent
    BY <1>2, <1>3, MarkFileIs
  <1>5. /\ Complete(disk) => Complete(disk')
        /\ CacheSound(disk, cache) => CacheSound(disk', cache)
        /\ Valid(disk) => Valid(disk')
    <2>1. Valid(disk) => \A y \in DOMAIN disk.agents : disk'.agents[y].llm \in Aliases(disk)
      BY <1>4 DEF Valid, AgentsValid
    <2>2. QED
      BY <1>4, <2>1, AgentsSetAsGood
  <1>6. DOMAIN disk'.agents = DOMAIN disk.agents /\ disk'.servers = disk.servers /\ IsDisk(disk')
    BY <1>4 DEF AgentsSet
  <1>7. Config'
    BY <1>1, <1>2, <1>3, <1>5, <1>6 DEF Config, IInv, SInv
  <1>8. Chosen => Chosen'
    BY <1>1, <1>2, <1>4, <1>5, <1>6 DEF Chosen
  <1>9. QED
    BY <1>1, <1>7, <1>8 DEF IInv, SInv, Graph, Switch, Used

LEMMA MarkDoneKeeps ==
  ASSUME IInv, MarkDone
  PROVE  SInv'
  <1>1. /\ at = "mark" /\ at' = "close" /\ todo' = {} /\ UNCHANGED <<disk, ctx>>
        /\ \/ todo = {} /\ faults' = faults /\ cache' = [cache EXCEPT !.agents = None]
           \/ faults' = faults + 1 /\ cache' = cache
    BY DEF MarkDone
  <1>2. IsCache(cache) /\ CacheSound(disk, cache)
    BY <1>1 DEF IInv, SInv, Config
  <1>3. IsCache(cache') /\ CacheSound(disk, cache') /\ cache'.mcp = cache.mcp
    <2>1. CASE cache' = [cache EXCEPT !.agents = None]
      <3>1. cache' = Loaded(cache.llms, cache.subs, None, cache.mcp)
        BY <1>2, <2>1, CacheRecords
      <3>2. QED
        BY <1>2, <3>1 DEF IsCache, CacheSound, Loaded
    <2>2. QED
      BY <1>1, <1>2, <2>1
  <1>4. faults \in Nat
    BY DEF IInv, SInv, Config
  <1>5. Config'
    BY <1>1, <1>3, <1>4 DEF IInv, SInv, Config
  <1>6. Switch'
    <2>1. CASE faults' = 0
      <3>1. todo = {} /\ faults = 0
        BY <1>1, <1>4, <2>1
      <3>2. Chosen
        BY <1>1, <3>1 DEF IInv, SInv, Switch
      <3>3. QED
        BY <1>1, <3>1, <3>2 DEF Switch, Chosen
    <2>2. QED
      BY <2>1 DEF Switch
  <1>7. QED
    BY <1>1, <1>5, <1>6 DEF SInv, Graph, Used

\* What both forms of the model command load first.
LEMMA ModelsLoaded ==
  ASSUME Config, at # "off"
  PROVE  LET r == LoadLlms(LoadAgents(R)) IN
         /\ Sound(r) /\ SameDisk(disk, r.disk) /\ r.cache.mcp = cache.mcp
         /\ r.ok => AgentsRead(r.disk, r.cache.agents) /\ r.cache.llms = Aliases(r.disk)
  <1> DEFINE a == LoadAgents(R)
             r == LoadLlms(a)
  <1>1. Sound(R) /\ R.disk = disk /\ R.cache = cache
    BY RIsSound
  <1>2. /\ Sound(a) /\ SameDisk(disk, a.disk) /\ a.cache.mcp = cache.mcp
        /\ a.ok => AgentsRead(a.disk, a.cache.agents)
    BY <1>1, LoadAgentsIs
  <1> HIDE DEF a
  <1>3. /\ Sound(r) /\ r.disk = a.disk /\ (r.ok => a.ok)
        /\ r.ok => r.cache.llms = Aliases(a.disk)
        /\ r.cache = Loaded(r.cache.llms, a.cache.subs, a.cache.agents, a.cache.mcp)
    BY <1>2, LoadLlmsIs
  <1>4. r.cache.agents = a.cache.agents /\ r.cache.mcp = a.cache.mcp
    BY <1>3 DEF Loaded
  <1> HIDE DEF r
  <1>5. QED
    BY <1>2, <1>3, <1>4 DEF r, a

\* Another model for the agent: its file, then the context.
LEMMA SwitchModelKeeps ==
  ASSUME IInv, SwitchModel
  PROVE  SInv'
  <1> DEFINE r == LoadLlms(LoadAgents(R))
             none == ~r.ok \/ Cardinality(r.cache.llms) = 1
  <1>1. /\ at = "prompt" /\ UNCHANGED <<graph, todo, switched, faults>>
        /\ none => Kept(r) /\ UNCHANGED <<at, ctx>>
        /\ ~none => \E m \in r.cache.llms :
                      Kept(SetLlm(r, ctx.agent, m)) /\ UpdateContext(ctx.agent, m)
    BY DEF SwitchModel, Command, AtPrompt
  <1>2. /\ Sound(r) /\ SameDisk(disk, r.disk) /\ r.cache.mcp = cache.mcp
        /\ r.ok => AgentsRead(r.disk, r.cache.agents) /\ r.cache.llms = Aliases(r.disk)
    BY <1>1, ModelsLoaded DEF IInv, SInv
  <1>3. /\ IsContext(ctx) /\ faults \in Nat /\ todo = {}
        /\ faults = 0 /\ r.cache.mcp # None => Enabled(r.cache.mcp) = Enabled(disk.servers)
    BY <1>1, <1>2 DEF IInv, SInv, Config
  <1> HIDE DEF r
  <1>4. CASE none
    <2>1. at' \in Used => GraphOf(graph', disk)
      BY <1>1, <1>4 DEF IInv, SInv, Graph, Used
    <2>2. QED
      BY <1>1, <1>2, <1>3, <1>4, <2>1, GoesOn DEF IInv
  <1>5. CASE ~none
    <2>1. PICK m \in Aliases(r.disk) :
            Kept(SetLlm(r, ctx.agent, m)) /\ UpdateContext(ctx.agent, m)
      BY <1>1, <1>2, <1>5
    <2> DEFINE q == SetLlm(r, ctx.agent, m)
    <2>2. /\ IsState(q) /\ AgentsSet(r.disk, q.disk)
          /\ \A x \in DOMAIN r.disk.agents :
               /\ q.disk.agents[x].llm = IF x = ctx.agent THEN m ELSE r.disk.agents[x].llm
               /\ q.disk.agents[x].default = r.disk.agents[x].default
          /\ q.cache = Loaded(r.cache.llms, r.cache.subs, None, r.cache.mcp)
      <3>1. IsState(r)
        BY <1>2 DEF Sound
      <3>2. QED
        BY <3>1, SetLlmIs
    <2>3. disk' = q.disk /\ cache' = q.cache
      BY <2>1 DEF Kept
    <2> HIDE DEF q
    <2>4. at' = "close" /\ ctx' = [ctx EXCEPT !.agent = ctx.agent, !.model = m]
      BY <2>1 DEF UpdateContext
    <2>5. IsContext(ctx') /\ ctx'.agent = ctx.agent /\ ctx'.model = m
      BY <1>3, <2>4, ContextSwitches
    <2>6. CacheSound(r.disk, q.cache) /\ q.cache.agents = None /\ q.cache.mcp = cache.mcp
      <3>1. CacheSound(r.disk, r.cache)
        BY <1>2 DEF Sound
      <3>2. QED
        BY <1>2, <2>2, <3>1 DEF CacheSound, Loaded
    <2>7. Complete(q.disk) /\ CacheSound(q.disk, q.cache)
      BY <1>2, <2>2, <2>6, AgentsSetAsGood DEF Sound
    <2>8. Valid(q.disk)
      <3>1. Valid(r.disk)
        BY <1>2, <1>5 DEF AgentsRead
      <3>2. \A x \in DOMAIN r.disk.agents : q.disk.agents[x].llm \in Aliases(r.disk)
        BY <2>1, <2>2, <3>1 DEF Valid, AgentsValid
      <3>3. QED
        BY <2>2, <3>1, <3>2, AgentsSetAsGood
    <2>9. /\ DOMAIN q.disk.agents = DOMAIN disk.agents /\ q.disk.servers = disk.servers
          /\ \A x \in DOMAIN disk.agents : q.disk.agents[x].default <=> disk.agents[x].default
      BY <1>2, <2>2 DEF SameDisk, AgentsSet
    <2>10. Config'
      BY <1>1, <1>3, <2>2, <2>3, <2>4, <2>5, <2>6, <2>7, <2>9
         DEF Config, IInv, SInv, IsState
    <2>11. Switch'
      <3>1. ASSUME Chosen PROVE Chosen'
        <4>1. ctx.agent \in DOMAIN r.disk.agents
          BY <3>1, <1>2 DEF Chosen, SameDisk
        <4>2. disk'.agents[ctx.agent].llm = m
          BY <2>2, <2>3, <4>1
        <4>3. QED
          BY <1>1, <2>3, <2>5, <2>8, <2>9, <3>1, <4>2 DEF Chosen
      <3>2. QED
        BY <1>1, <2>4, <3>1 DEF IInv, SInv, Switch
    <2>12. QED
      BY <2>4, <2>10, <2>11 DEF SInv, Graph, Used
  <1>6. QED
    BY <1>4, <1>5

\* Another model for a subagent: its file only.
LEMMA SwitchSubModelKeeps ==
  ASSUME IInv, SwitchSubModel
  PROVE  SInv'
  <1> DEFINE r == LoadLlms(LoadAgents(R))
             none == ~r.ok \/ Cardinality(r.cache.llms) = 1
  <1>1. /\ at = "prompt" /\ at' = "prompt" /\ UNCHANGED <<ctx, graph, todo, switched, faults>>
        /\ none => Kept(r)
        /\ ~none => \E s, m : m \in r.cache.llms /\ Kept(SetSubLlm(r, s, m))
    BY DEF SwitchSubModel, Command, AtPrompt, Ran
  <1>2. /\ Sound(r) /\ SameDisk(disk, r.disk) /\ r.cache.mcp = cache.mcp
        /\ r.ok => AgentsRead(r.disk, r.cache.agents) /\ r.cache.llms = Aliases(r.disk)
    BY <1>1, ModelsLoaded DEF IInv, SInv
  <1>3. /\ IsContext(ctx) /\ faults \in Nat /\ todo = {} /\ GraphOf(graph, disk)
        /\ faults = 0 /\ r.cache.mcp # None => Enabled(r.cache.mcp) = Enabled(disk.servers)
    BY <1>1, <1>2 DEF IInv, SInv, Config, Graph, Used
  <1> HIDE DEF r
  <1>4. CASE none
    <2>1. at' \in Used => GraphOf(graph', disk)
      BY <1>1, <1>3 DEF GraphOf
    <2>2. QED
      BY <1>1, <1>2, <1>3, <1>4, <2>1, GoesOn DEF IInv
  <1>5. CASE ~none
    <2>1. PICK s, m : m \in Aliases(r.disk) /\ Kept(SetSubLlm(r, s, m))
      BY <1>1, <1>2, <1>5
    <2> DEFINE q == SetSubLlm(r, s, m)
               d == q.disk
    <2>2. /\ Sound(q)
          /\ d.file = r.disk.file /\ d.llms = r.disk.llms /\ d.agents = r.disk.agents
          /\ d.servers = r.disk.servers
          /\ q.cache.mcp = r.cache.mcp
          /\ Valid(r.disk) => Valid(d)
      BY <1>2, <2>1, SetSubLlmIs
    <2>3. disk' = d /\ cache' = q.cache
      BY <2>1 DEF Kept
    <2> HIDE DEF q
    <2>4. /\ DOMAIN d.agents = DOMAIN disk.agents /\ d.servers = disk.servers
          /\ \A x \in DOMAIN disk.agents : /\ d.agents[x].default <=> disk.agents[x].default
                                           /\ d.agents[x].llm = disk.agents[x].llm
      BY <1>2, <2>2 DEF SameDisk
    <2>5. Config'
      BY <1>1, <1>2, <1>3, <2>2, <2>3, <2>4 DEF Config, IInv, SInv, Sound, IsState
    <2>6. Valid(d)
      BY <1>2, <1>5, <2>2 DEF AgentsRead
    <2>7. Chosen => Chosen'
      BY <1>1, <2>3, <2>4, <2>6 DEF Chosen
    <2>8. GraphOf(graph', disk')
      BY <1>1, <1>3, <2>3, <2>4 DEF GraphOf
    <2>9. QED
      BY <1>1, <2>5, <2>7, <2>8 DEF IInv, SInv, Graph, GraphOf, Switch
  <1>6. QED
    BY <1>4, <1>5

\* Other servers: in memory, then on disk.
LEMMA ToggleServersKeeps ==
  ASSUME IInv, ToggleServers
  PROVE  SInv'
  <1> DEFINE r == LoadMcp(R)
  <1>1. at = "prompt" /\ UNCHANGED <<ctx, graph, todo, switched>>
    BY DEF ToggleServers, Command, AtPrompt
  <1>2. PICK e \in [DOMAIN r.cache.mcp -> BOOLEAN] :
          \/ Kept(SaveMcp(r, e)) /\ at' = "close" /\ faults' = faults
          \/ Kept([r EXCEPT !.cache.mcp = e]) /\ at' = "prompt" /\ faults' = faults + 1
    BY DEF ToggleServers, Ran
  <1>3. Sound(R) /\ R.disk = disk /\ R.cache = cache /\ R.ok
    BY <1>1, RIsSound DEF IInv, SInv
  <1>4. Sound(r) /\ r.disk = disk /\ DOMAIN r.cache.mcp = DOMAIN disk.servers
    BY <1>3, LoadMcpIs
  <1>5. IsContext(ctx) /\ faults \in Nat /\ todo = {} /\ GraphOf(graph, disk)
    BY <1>1 DEF IInv, SInv, Config, Graph, Used
  <1> DEFINE c == [r.cache EXCEPT !.mcp = e]
             d == [disk EXCEPT !.servers = e]
  <1>6. /\ SaveMcp(r, e) = [[r EXCEPT !.disk = d] EXCEPT !.cache = c]
        /\ [r EXCEPT !.cache.mcp = e] = [r EXCEPT !.cache = c]
    BY <1>4 DEF SaveMcp, Sound, IsState
  <1> HIDE DEF r
  <1>7. c = Loaded(r.cache.llms, r.cache.subs, r.cache.agents, e)
    BY <1>4, CacheRecords DEF Sound, IsState
  <1>8. d = DiskRecord(disk, disk.agents, disk.subs, e)
    BY <1>4, DiskRecords DEF Sound, IsState
  <1>9. DOMAIN e = DOMAIN disk.servers /\ e = [v \in DOMAIN e |-> e[v]]
    BY <1>4
  <1> HIDE DEF c, d
  <1>10. IsCache(c) /\ CacheSound(disk, c)
    BY <1>4, <1>7, <1>9 DEF IsCache, CacheSound, Sound, Loaded
  <1>11. CASE Kept([r EXCEPT !.cache = c]) /\ at' = "prompt" /\ faults' = faults + 1
    <2>1. [r EXCEPT !.cache = c] = State(disk, c, r.ok)
      BY <1>4, StateRecords DEF Sound
    <2>2. disk' = disk /\ cache' = c
      BY <1>11, <2>1 DEF Kept, State
    <2>3. faults' \in Nat /\ faults' # 0
      BY <1>5, <1>11
    <2>4. Config'
      BY <1>1, <1>4, <1>5, <1>10, <1>11, <2>2, <2>3 DEF Config, Sound, IsState
    <2>5. QED
      BY <1>1, <1>5, <2>3, <2>4, <1>11 DEF SInv, Graph, GraphOf, Switch
  <1>12. CASE Kept([[r EXCEPT !.disk = d] EXCEPT !.cache = c]) /\ at' = "close" /\ faults' = faults
    <2>1. [[r EXCEPT !.disk = d] EXCEPT !.cache = c] = State(d, c, r.ok)
      <3> DEFINE f == [r EXCEPT !.disk = d]
      <3>1. f = State(d, r.cache, r.ok)
        BY <1>4, StateRecords DEF Sound
      <3> HIDE DEF f
      <3>2. [f EXCEPT !.cache = c] = State(d, c, r.ok)
        BY <3>1, StateCache
      <3>3. QED
        BY <3>2 DEF f
    <2>2. disk' = d /\ cache' = c
      BY <1>12, <2>1 DEF Kept, State
    <2>3. IsDisk(d) /\ Complete(d)
      BY <1>4, <1>8, <1>9 DEF IsDisk, Complete, Sound, IsState, DiskRecord
    <2>4. /\ d.agents = disk.agents /\ d.subs = disk.subs
          /\ Distinct(d) <=> Distinct(disk)
          /\ Aliases(d) = Aliases(disk) /\ d.servers = e /\ c.mcp = e
      BY <1>7, <1>8 DEF DiskRecord, Distinct, Aliases, Loaded
    <2>5. /\ SubsValid(disk) <=> SubsValid(d)
          /\ AgentsValid(disk) <=> AgentsValid(d)
      BY <2>4 DEF SubsValid, AgentsValid
    <2>6. \A as : AgentsRead(disk, as) => AgentsRead(d, as)
      BY <2>4, <2>5 DEF AgentsRead, Valid
    <2>7. CacheSound(d, c)
      BY <1>9, <1>10, <2>4, <2>5, <2>6 DEF CacheSound
    <2>8. Config'
      BY <1>1, <1>5, <1>10, <1>12, <2>2, <2>3, <2>4, <2>7 DEF Config
    <2>9. Chosen => Chosen'
      BY <1>1, <2>2, <2>4, <2>5 DEF Chosen, Valid
    <2>10. QED
      BY <1>1, <1>12, <2>8, <2>9 DEF IInv, SInv, Graph, Switch, Used
  <1>13. QED
    BY <1>2, <1>6, <1>11, <1>12

LEMMA NextSInv == IInv /\ [Next]_vars => SInv'
  <1> SUFFICES ASSUME IInv, [Next]_vars PROVE SInv'
    OBVIOUS
  <1>1. CASE UNCHANGED vars
    BY <1>1 DEF vars, IInv, SInv, Config, Graph, GraphOf, Switch, Chosen
  <1>2. CASE Next
    BY <1>2, RunKeeps, ConfigCommandKeeps, BuildKeeps, SessionKeeps, PromptKeeps,
       SwitchAgentKeeps, MarkKeeps, MarkDoneKeeps, SwitchModelKeeps, SwitchSubModelKeeps,
       ToggleServersKeeps DEF Next
  <1>3. QED
    BY <1>1, <1>2

\* A message is answered by a graph of the agent and the model the context shows,
\* with the servers enabled on disk: what changes them rebuilds the graph
\* (session.py:187-202, initializer.py:166-223).
THEOREM GraphsFollowContext == Spec => []GraphIsContexts
  <1>1. IInv => GraphIsContexts
    BY DEF IInv, SInv, Graph, GraphOf, GraphIsContexts, Used
  <1>2. Init => IInv
    BY InitHandlers, InitSInv DEF IInv
  <1>3. IInv /\ [Next]_vars => IInv'
    BY NextHandlers, NextSInv DEF IInv
  <1>4. QED
    BY <1>1, <1>2, <1>3, PTL DEF Spec

\* The agent chosen is the only one marked, so the next process starts it, with
\* the model chosen for it: its files, rewritten one by one, load.
LEMMA ChosenPersists ==
  ASSUME IInv, at \notin {"off", "mark"}, Chosen
  PROVE  LET r == LoadAgents([R EXCEPT !.cache = NoCache]) IN
         Named(r, None) = {ctx.agent} /\ r.cache.agents[ctx.agent].llm = ctx.model
  <1> DEFINE s == [R EXCEPT !.cache = NoCache]
             r == LoadAgents(s)
  <1>1. Sound(s) /\ s.disk = disk /\ s.ok /\ s.cache.agents = None
    <2>1. IsState(s) /\ s.disk = disk /\ s.cache = NoCache /\ s.ok
      BY FirstLoad DEF IInv, SInv
    <2>2. Complete(disk)
      BY DEF IInv, SInv, Config
    <2>3. QED
      BY <2>1, <2>2 DEF Sound, CacheSound, NoCache
  <1>2. Valid(disk) /\ ctx.agent \in DOMAIN disk.agents /\ Marked(disk) = {ctx.agent}
    <2>1. todo = {}
      BY DEF IInv, SInv, Config
    <2>2. QED
      BY <2>1 DEF Chosen, Marked
  <1>3. DefaultsValid(disk)
    <2>1. Cardinality(Marked(disk)) = 1
      BY <1>2, FS_Singleton
    <2>2. QED
      BY <1>2, <2>1 DEF DefaultsValid
  <1> HIDE DEF s
  <1>4. /\ SameDisk(disk, r.disk) /\ r.ok /\ AgentsRead(r.disk, r.cache.agents)
        /\ \A a \in DOMAIN disk.agents : r.cache.agents[a].default = disk.agents[a].default
    BY <1>1, <1>2, <1>3, LoadAgentsIs
  <1> HIDE DEF r
  <1>5. DOMAIN r.cache.agents = DOMAIN disk.agents
    BY <1>4 DEF AgentsRead, SameDisk
  <1>6. {a \in DOMAIN r.cache.agents : r.cache.agents[a].default} = {ctx.agent}
    BY <1>2, <1>4, <1>5 DEF Marked
  <1>7. Named(r, None) = {ctx.agent}
    BY <1>4, <1>6 DEF Named
  <1>8. r.cache.agents[ctx.agent].llm = ctx.model
    BY <1>2, <1>4 DEF AgentsRead, SameDisk, Chosen
  <1>9. QED
    BY <1>7, <1>8 DEF r, s

\* The next process starts the agent that was switched to, with the model chosen
\* for it, whatever else was changed since (agent.py:350-433, update_default_agent
\* and update_agent_llm, which write one file after the other).
THEOREM SwitchesPersist == Spec => []SwitchPersists
  <1>1. IInv => SwitchPersists
    <2> SUFFICES ASSUME IInv, at \in {"close", "start", "build", "prompt"}, switched, faults = 0
                 PROVE  LET r == LoadAgents([R EXCEPT !.cache = NoCache]) IN
                        /\ Named(r, None) = {ctx.agent}
                        /\ r.cache.agents[ctx.agent].llm = ctx.model
      BY DEF SwitchPersists
    <2>1. Chosen
      BY DEF IInv, SInv, Switch
    <2>2. QED
      BY <2>1, ChosenPersists
  <1>2. Init => IInv
    BY InitHandlers, InitSInv DEF IInv
  <1>3. IInv /\ [Next]_vars => IInv'
    BY NextHandlers, NextSInv DEF IInv
  <1>4. QED
    BY <1>1, <1>2, <1>3, PTL DEF Spec
=============================================================================
