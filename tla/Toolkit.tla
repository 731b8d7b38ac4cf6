------------------------------- MODULE Toolkit -------------------------------
(* Which tools an agent gets (agents/factory.py, agents/deep_agent.py,         *)
(* tools/factory.py, tools/subagents/task.py, utils/patterns.py) and where a   *)
(* call of one runs (middlewares/sandbox.py).  A glob stands for the set of    *)
(* names it matches.                                                           *)
EXTENDS Naturals, Sequences, FiniteSets

CONSTANTS Tools,     \* names of the tools of the three categories below
          Category,  \* tool -> "impl", "mcp" or "internal"
          Skills,
          None

ASSUME ToolkitAssumption == Category \in [Tools -> {"impl", "mcp", "internal"}]

CatalogTools == {"fetch_tools", "get_tool", "run_tool"}
SkillTools == {"fetch_skills", "get_skill"}
Of(category) == {t \in Tools : Category[t] = category}

-----------------------------------------------------------------------------
(* Patterns: [neg, cat, names], where cat is a category or "*" *)

Hits(p, t) == p.cat \in {Category[t], "*"} /\ t \in p.names
AnyMatches(patterns, t) ==  \* mutant: a negative pattern takes nothing away
  \E p \in patterns : ~p.neg /\ Hits(p, t)
Matches(patterns, t) ==
  /\ \E p \in patterns : ~p.neg /\ Hits(p, t)
  /\ ~\E p \in patterns : p.neg /\ Hits(p, t)

\* A reference names its category: one with a wildcard there is dropped.
References(refs, category) == {p \in refs : p.cat = category}
Selected(refs, category) == {t \in Of(category) : Matches(References(refs, category), t)}

\* With a catalog the model sees three tools that stand for those selected.
ToolSelection(config) ==
  LET chosen == Selected(config.refs, "impl") \cup Selected(config.refs, "mcp")
  IN [llm |-> IF config.catalog THEN CatalogTools ELSE chosen,
      internal |-> Selected(config.refs, "internal"),
      behind |-> IF config.catalog THEN chosen ELSE {}]
SkillSelection(config) ==
  LET skills == Skills \cap config.skills
  IN [skills |-> skills,
      tools |-> IF skills = {} THEN {}
                ELSE IF config.skillCatalog THEN SkillTools ELSE {"get_skill"}]

-----------------------------------------------------------------------------
(* The sandbox map *)

\* Bindings are [patterns, backend] in order; without a backend one is a bypass.
\* A sandbox that is switched off and one without profiles are no sandbox.
Bindings(config) == IF config.sandboxed THEN config.profiles ELSE <<>>
Binding(bindings, t) == {i \in DOMAIN bindings : Matches(bindings[i].patterns, t)}
Bypassed(bindings, t) == \E i \in Binding(bindings, t) : bindings[i].backend = None
Boxed(bindings, t) == ~Bypassed(bindings, t) /\ Cardinality(Binding(bindings, t)) = 1

\* A tool with no binding, or with several, is left out: its calls are blocked.
SandboxMap(bindings) ==
  LET own == Of("impl") \cup Of("internal")
      boxed == {t \in own : Boxed(bindings, t)}
      free == {t \in own : Bypassed(bindings, t)} \cup Of("mcp") \cup CatalogTools \cup SkillTools
  IN IF bindings = <<>> THEN <<>>
     ELSE [t \in boxed \cup free |->
             IF t \in free THEN None ELSE bindings[CHOOSE i \in Binding(bindings, t) : TRUE].backend]

\* An agent compresses large outputs when it can read them back.
Assembled(selection, skills, extra, map) ==
  LET tools == selection.internal \cup selection.llm \cup skills.tools \cup extra
  IN [tools |-> tools, behind |-> selection.behind, skills |-> skills.skills, map |-> map,
      compresses |-> "read_memory_file" \in tools]

\* A subagent is built when its first task comes, without a sandbox map.
SubAgent(config) ==
  Assembled(ToolSelection(config), SkillSelection(config), {"think"}, <<>>)
Agent(config) ==
  Assembled(ToolSelection(config), SkillSelection(config),
            IF DOMAIN config.subs = {} THEN {} ELSE {"task"}, SandboxMap(Bindings(config)))

-----------------------------------------------------------------------------
(* Where a call runs: in "process", "blocked", or in a backend *)

\* run_tool stands for the tool it names, if the catalog has it.
Proxied(agent, call) == call.tool = "run_tool" /\ call.of \in agent.behind
Actual(agent, call) == IF Proxied(agent, call) THEN call.of ELSE call.tool
WhereOf(agent, t) ==
  IF agent.map = <<>> THEN "process"
  ELSE IF t \notin DOMAIN agent.map THEN "blocked"
  ELSE IF agent.map[t] = None THEN "process"
  ELSE agent.map[t]
WhereNamed(agent, call) ==  \* mutant: the proxy is taken for the tool
  WhereOf(agent, call.tool)
Where(agent, call) == WhereOf(agent, Actual(agent, call))
=============================================================================
