------------------------------- MODULE Configs -------------------------------
(* The configuration registry (configs/registry.py, configs/agent.py,          *)
(* configs/llm.py, configs/mcp.py): the configuration directory, completed     *)
(* from the packaged templates whenever something is loaded, and the           *)
(* configurations the process keeps once loaded.  An operation takes and       *)
(* returns [disk, cache, ok]; one that raises leaves ok FALSE.                 *)
EXTENDS Naturals, FiniteSets

CONSTANTS Agents, Subs, Models, Servers,  \* names; Models are aliases of LLMs
          Default,                        \* the alias the config command writes
          Template,                       \* the packaged configuration directory
          None

VARIABLES disk,   \* the configuration directory
          cache   \* what this process has loaded: [llms, subs, agents, mcp]

NoCache == [llms |-> None, subs |-> None, agents |-> None, mcp |-> None]

\* file: aliases of config.llms.yml, llms: of the files in llms/; an agent's file
\* names its model and its subagents, and may be of an older version.
Agent == [llm : Models, default : BOOLEAN, old : BOOLEAN, subs : SUBSET Subs]
Partial(S, T) == UNION {[X -> T] : X \in SUBSET S}
Disk == [dir : BOOLEAN, file : SUBSET Models, llms : SUBSET Models, agents : Partial(Agents, Agent),
         subs : Partial(Subs, Models), servers : Partial(Servers, BOOLEAN)]

\* The templates are packaged with the program.
ASSUME TemplateAssumption == Template \in Disk /\ Template.dir

\* ensure_config_dir: the template, or what is there completed from the template.
Completed(f, g) ==
  [x \in DOMAIN f \cup DOMAIN g |-> IF x \in DOMAIN f THEN f[x] ELSE g[x]]
Ensured(d) ==
  IF ~d.dir THEN Template
  ELSE [d EXCEPT !.llms = @ \cup Template.llms,
                 !.agents = Completed(@, Template.agents),
                 !.subs = Completed(@, Template.subs),
                 !.servers = Completed(@, Template.servers)]
Ensure(r) == [r EXCEPT !.disk = Ensured(@)]

\* An alias may be defined once.
ReadLlms(r) ==
  IF r.disk.file \cap r.disk.llms # {} THEN [r EXCEPT !.ok = FALSE]
  ELSE [r EXCEPT !.cache.llms = r.disk.file \cup r.disk.llms]
LoadLlms(r) == IF ~r.ok \/ r.cache.llms # None THEN r ELSE ReadLlms(Ensure(r))

\* Every subagent's model must exist.
ReadSubs(r) ==
  IF ~r.ok \/ DOMAIN r.disk.subs = {}
     \/ \E s \in DOMAIN r.disk.subs : r.disk.subs[s] \notin r.cache.llms
  THEN [r EXCEPT !.ok = FALSE]
  ELSE [r EXCEPT !.cache.subs = r.disk.subs]
LoadSubs(r) == IF ~r.ok \/ r.cache.subs # None THEN r ELSE ReadSubs(LoadLlms(Ensure(r)))

\* An agent of an older version gets what its version lacks (tools, skills, retries),
\* not another model or other subagents; one that is up to date is left alone.
Migrate(agent) == [agent EXCEPT !.old = FALSE]
MigrateItems(agents) ==
  [a \in DOMAIN agents |-> IF agents[a].old THEN Migrate(agents[a]) ELSE agents[a]]
\* Files with an older agent are rewritten before anything is resolved.
MigrateAgents(r) == [r EXCEPT !.disk.agents = MigrateItems(@)]
Marked(d) == {a \in DOMAIN d.agents : d.agents[a].default}
Resolvable(r, a) ==
  r.disk.agents[a].llm \in r.cache.llms /\ r.disk.agents[a].subs \subseteq DOMAIN r.cache.subs
Resolve(r, a) ==
  [llm |-> r.disk.agents[a].llm, default |-> r.disk.agents[a].default,
   subs |-> [s \in r.disk.agents[a].subs |-> r.cache.subs[s]]]

\* At most one agent is the default; a single one must be.
DefaultsValid(d) ==
  Cardinality(Marked(d)) <= 1 /\ (Cardinality(DOMAIN d.agents) = 1 => Marked(d) # {})
ReadAgents(r) ==
  IF ~r.ok THEN r
  ELSE LET m == MigrateAgents(r)
       IN IF DOMAIN m.disk.agents = {} \/ ~DefaultsValid(m.disk)
             \/ \E a \in DOMAIN m.disk.agents : ~Resolvable(m, a)
          THEN [m EXCEPT !.ok = FALSE]
          ELSE [m EXCEPT !.cache.agents = [a \in DOMAIN m.disk.agents |-> Resolve(m, a)]]
LoadAgents(r) ==
  IF ~r.ok \/ r.cache.agents # None THEN r ELSE ReadAgents(LoadSubs(LoadLlms(Ensure(r))))

LoadMcp(r) ==
  IF ~r.ok \/ r.cache.mcp # None THEN r
  ELSE LET e == Ensure(r) IN [e EXCEPT !.cache.mcp = e.disk.servers]

\* The agent of a name; without one, the one marked or the first.
Named(r, name) ==
  LET marked == {a \in DOMAIN r.cache.agents : r.cache.agents[a].default}
  IN IF ~r.ok THEN {}
     ELSE IF name # None THEN {name} \cap DOMAIN r.cache.agents
     ELSE IF marked # {} THEN marked ELSE {CHOOSE a \in DOMAIN r.cache.agents : TRUE}

-----------------------------------------------------------------------------
(* Updates *)

SetLlm(r, a, m) ==
  [r EXCEPT !.disk.agents = [x \in DOMAIN @ |-> IF x = a THEN [@[x] EXCEPT !.llm = m] ELSE @[x]],
            !.cache.agents = None]
SetSubLlm(r, s, m) ==
  [r EXCEPT !.disk.subs = [x \in DOMAIN @ |-> IF x = s THEN m ELSE @[x]], !.cache.subs = None]

\* update_default_agent writes one file after the other.
MarkTargetOnly(d, x, a) ==  \* mutant
  [d EXCEPT !.agents[x].default = @ \/ x = a]
MarkFile(d, x, a) == [d EXCEPT !.agents[x].default = x = a]

SaveMcp(r, enabled) == [r EXCEPT !.disk.servers = enabled, !.cache.mcp = enabled]

\* The config command leaves config.llms.yml with one model and gives it to the
\* default agent.
Reconfigured(r, a) ==
  [SetLlm([r EXCEPT !.disk.file = {Default}], a, Default) EXCEPT !.cache = NoCache]
=============================================================================
