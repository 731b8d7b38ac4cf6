------------------------------- MODULE Session -------------------------------
(* An interactive session (cli/core/session.py) and the chat command that      *)
(* starts one after the other (cli/bootstrap/chat.py): the graph it runs, the  *)
(* handler of SIGINT it installs, its prompt's keys (cli/ui/prompt.py) and the *)
(* commands that change the agent, the models and the servers.                 *)
EXTENDS Configs

CONSTANTS MaxSessions,  \* bound: sessions of a process
          MaxRuns,      \* bound: processes
          MaxTimers,    \* bound: hide timers pending
          MaxFaults     \* bound: writes that fail or are interrupted

ASSUME SessionAssumption ==
  MaxSessions \in Nat \ {0} /\ MaxRuns \in Nat /\ MaxTimers \in Nat /\ MaxFaults \in Nat

VARIABLES at,      \* where the program is
          ctx,     \* the context: [agent, model, bash, stream, once, resume]
          sess,    \* the session: [n, reload, registered, raised]
          sig,     \* SIGINT: [installed, previous]; 0 is the handler found at the start
          graph,   \* what the running graph was built from
          prompt,  \* [text, asked, timers]: input, quit banner, timers that hide it
          todo,    \* agent files update_default_agent has still to write
          switched,\* whether this process has changed the default agent
          runs, faults
vars == <<disk, cache, at, ctx, sess, sig, graph, prompt, todo, switched, runs, faults>>
config == <<disk, cache>>

R == [disk |-> disk, cache |-> cache, ok |-> TRUE]
Kept(r) == disk' = r.disk /\ cache' = r.cache

NoSession == [n |-> 0, reload |-> FALSE, registered |-> FALSE, raised |-> FALSE]
NoSignals == [installed |-> 0, previous |-> [n \in 1..MaxSessions |-> 0]]
NoPrompt == [text |-> FALSE, asked |-> FALSE, timers |-> 0]
NoContext == [agent |-> None, model |-> None, bash |-> FALSE, stream |-> FALSE,
              once |-> FALSE, resume |-> FALSE]

\* A directory that is missing, or one a user has edited: other models in the
\* file, an agent of an older version, servers switched on or off.
UserDisk ==
  {[Template EXCEPT !.file = f, !.servers = v, !.agents = Completed(ags, @)] :
     f \in {{Default}, Models \ Template.llms}, v \in [Servers -> BOOLEAN],
     ags \in [Agents \ DOMAIN Template.agents ->
                {[llm |-> m, default |-> FALSE, old |-> FALSE, subs |-> {}] :
                   m \in Models \ Template.file}]}
Init ==
  /\ disk \in UserDisk \cup {[Template EXCEPT !.dir = FALSE]} /\ cache = NoCache
  /\ at = "off" /\ ctx = NoContext /\ sess = NoSession /\ sig = NoSignals /\ graph = None
  /\ prompt = NoPrompt /\ todo = {} /\ switched = FALSE /\ runs = 0 /\ faults = 0

-----------------------------------------------------------------------------
(* The chat command *)

\* A process starts: Context.create takes the agent and the model of the
\* arguments or of the configuration.
Run ==
  /\ at = "off" /\ runs < MaxRuns
  /\ runs' = runs + 1 /\ switched' = FALSE
  /\ \E agent \in Agents \cup {None}, model \in Models \cup {None},
        resume, once, stream \in BOOLEAN :
       LET r == LoadAgents([R EXCEPT !.cache = NoCache])
           found == Named(r, agent)
       IN /\ Kept(r)
          /\ IF found = {} \/ (model # None /\ model \notin r.cache.llms)
             THEN UNCHANGED <<at, ctx, sess>>
             ELSE /\ at' = "start" /\ sess' = [NoSession EXCEPT !.n = 1]
                  /\ \E a \in found :
                       ctx' = [agent |-> a,
                               model |-> IF model # None THEN model ELSE r.cache.agents[a].llm,
                               bash |-> FALSE, stream |-> stream, once |-> once, resume |-> resume]
  /\ sig' = NoSignals /\ graph' = None /\ prompt' = NoPrompt
  /\ UNCHANGED <<todo, faults>>

\* The config command, a process of its own.
ConfigCommand ==
  /\ at = "off" /\ runs < MaxRuns
  /\ runs' = runs + 1
  /\ LET r == LoadAgents(Ensure([R EXCEPT !.cache = NoCache]))
         found == Named(r, None)
     IN IF found = {} THEN Kept(r) ELSE \E a \in found : Kept(Reconfigured(r, a))
  /\ UNCHANGED <<at, ctx, sess, sig, graph, prompt, todo, switched, faults>>

\* start and send begin alike: the handler is installed, then the graph is built.
RegisterOnce ==  \* mutant
  IF sig.installed # 0 THEN UNCHANGED <<sig, sess>>
  ELSE /\ sig' = [installed |-> sess.n, previous |-> [sig.previous EXCEPT ![sess.n] = sig.installed]]
       /\ sess' = [sess EXCEPT !.registered = TRUE]
Register ==
  /\ sig' = [installed |-> sess.n, previous |-> [sig.previous EXCEPT ![sess.n] = sig.installed]]
  /\ sess' = [sess EXCEPT !.registered = TRUE]
Start ==
  /\ at = "start"
  /\ at' = "build" /\ Register
  /\ UNCHANGED <<disk, cache, ctx, graph, prompt, todo, switched, runs, faults>>

Enabled(servers) == {s \in DOMAIN servers : servers[s]}
Build ==
  /\ at = "build"
  /\ LET r == LoadMcp(LoadLlms(LoadAgents(R)))
     IN /\ Kept(r)
        /\ IF Named(r, ctx.agent) = {} \/ ctx.model \notin r.cache.llms
           THEN at' = "close" /\ sess' = [sess EXCEPT !.raised = TRUE] /\ UNCHANGED graph
           ELSE /\ at' = "open" /\ UNCHANGED sess
                /\ graph' = [agent |-> ctx.agent, model |-> ctx.model,
                             subs |-> r.cache.agents[ctx.agent].subs,
                             servers |-> Enabled(r.cache.mcp)]
  /\ UNCHANGED <<ctx, sig, prompt, todo, switched, runs, faults>>

\* The first session resumes a thread, perhaps with a question to answer at
\* once, or welcomes the user and looks for updates, which ends by forgetting
\* that the handler is registered.
Open ==
  /\ at = "open"
  /\ \/ sess.n = 1 /\ ctx.resume /\ at' = "stream" /\ UNCHANGED sess
     \/ sess.n = 1 /\ ~ctx.resume /\ ~ctx.once
        /\ at' = "prompt" /\ sess' = [sess EXCEPT !.registered = FALSE]
     \/ (sess.n > 1 \/ ctx.resume) /\ ~ctx.once /\ at' = "prompt" /\ UNCHANGED sess
     \/ ctx.once /\ at' = "stream" /\ UNCHANGED sess
  /\ ctx' = [ctx EXCEPT !.resume = FALSE]
  /\ UNCHANGED <<disk, cache, sig, graph, prompt, todo, switched, runs, faults>>

\* Leaving the session: the handler found is put back, if it is known that there
\* is one; a session to reload is followed by another.
Restored ==
  IF sess.registered THEN [sig EXCEPT !.installed = sig.previous[sess.n]] ELSE sig
Close ==
  /\ at = "close"
  /\ sig' = Restored /\ graph' = None /\ prompt' = NoPrompt
  /\ IF sess.reload /\ ~sess.raised
     THEN at' = "start" /\ sess' = [NoSession EXCEPT !.n = sess.n + 1]
     ELSE at' = "off" /\ sess' = NoSession
  /\ UNCHANGED <<disk, cache, ctx, todo, switched, runs, faults>>

-----------------------------------------------------------------------------
(* SIGINT: a handler whose session does not stream calls the one before it. *)

Streaming == at = "stream" /\ ctx.stream
Receiver(h) ==
  LET up[x \in 0..MaxSessions] ==
        IF x = 0 \/ (Streaming /\ x = sess.n) THEN x ELSE up[sig.previous[x]]
  IN up[h]

Signal ==
  /\ at \in {"build", "open", "stream", "mark"}
  /\ IF Receiver(sig.installed) # 0
     THEN /\ at' = IF ctx.once THEN "close" ELSE "prompt"
          /\ prompt' = [prompt EXCEPT !.asked = FALSE]
          /\ UNCHANGED <<sess, faults>>
     ELSE /\ at' = "close" /\ sess' = [sess EXCEPT !.raised = TRUE]
          /\ faults' = IF at = "mark" THEN faults + 1 ELSE faults
          /\ UNCHANGED prompt
  /\ at = "mark" => faults < MaxFaults
  /\ todo' = {}
  /\ UNCHANGED <<disk, cache, ctx, sig, graph, switched, runs>>

-----------------------------------------------------------------------------
(* The prompt *)

AtPrompt == at = "prompt" /\ UNCHANGED <<sig, graph, runs>>
Same == UNCHANGED <<disk, cache, ctx, sess, todo, switched, faults>>

\* Ctrl+C clears the text, or asks, or quits when it has asked.
CtrlC ==
  /\ AtPrompt /\ Same
  /\ IF prompt.text THEN at' = at /\ prompt' = [prompt EXCEPT !.text = FALSE, !.asked = FALSE]
     ELSE IF prompt.asked THEN at' = "close" /\ prompt' = [prompt EXCEPT !.asked = FALSE]
     ELSE /\ prompt.timers < MaxTimers
          /\ at' = at /\ prompt' = [prompt EXCEPT !.asked = TRUE, !.timers = @ + 1]
HideTimer ==
  /\ prompt.timers > 0
  /\ prompt' = [prompt EXCEPT !.timers = @ - 1, !.asked = FALSE]
  /\ UNCHANGED <<disk, cache, at, ctx, sess, sig, graph, todo, switched, runs, faults>>
TypeText == AtPrompt /\ Same /\ at' = at /\ ~prompt.text /\ prompt' = [prompt EXCEPT !.text = TRUE]
ToggleBash ==
  /\ AtPrompt /\ at' = at /\ ctx' = [ctx EXCEPT !.bash = ~@]
  /\ UNCHANGED <<disk, cache, sess, prompt, todo, switched, faults>>

\* A line is a shell command in bash mode, else a message (or a command, below).
Submit ==
  /\ AtPrompt /\ Same /\ prompt.text
  /\ at' = IF ctx.bash THEN "prompt" ELSE "stream"
  /\ prompt' = [prompt EXCEPT !.text = FALSE]
TurnOver ==
  /\ at = "stream"
  /\ at' = IF ctx.once THEN "close" ELSE "prompt"
  /\ UNCHANGED <<disk, cache, ctx, sess, sig, graph, prompt, todo, switched, runs, faults>>
Exit == AtPrompt /\ Same /\ at' = "close" /\ UNCHANGED prompt

-----------------------------------------------------------------------------
(* Commands *)

Command == AtPrompt /\ ~ctx.bash /\ prompt.text
Ran(next) == at' = next /\ prompt' = [prompt EXCEPT !.text = FALSE]

\* update_context: another agent or model ends the loop, to build another graph.
UpdateAgentOnly(agent, model) ==  \* mutant
  /\ ctx' = [ctx EXCEPT !.agent = agent, !.model = model]
  /\ sess' = [sess EXCEPT !.reload = agent # ctx.agent]
  /\ at' = IF agent # ctx.agent THEN "mark" ELSE "prompt"
UpdateContext(agent, model) ==
  /\ ctx' = [ctx EXCEPT !.agent = agent, !.model = model]
  /\ sess' = [sess EXCEPT !.reload = TRUE]
  /\ at' = IF agent # ctx.agent THEN "mark" ELSE "close"

\* /agents: the context changes first, then the files.
SwitchAgent ==
  /\ Command /\ sess.n < MaxSessions
  /\ prompt' = [prompt EXCEPT !.text = FALSE]
  /\ LET r == LoadAgents(R)
     IN /\ Kept(r)
        /\ IF r.ok /\ DOMAIN r.cache.agents \ {ctx.agent} # {}
           THEN /\ \E a \in DOMAIN r.cache.agents \ {ctx.agent} :
                     UpdateContext(a, r.cache.agents[a].llm)
                /\ todo' = DOMAIN disk.agents
           ELSE UNCHANGED <<at, ctx, sess, todo>>
  /\ UNCHANGED <<switched, faults>>
Mark ==
  /\ at = "mark" /\ todo # {}
  /\ \E x \in todo : disk' = MarkFile(disk, x, ctx.agent) /\ todo' = todo \ {x}
  /\ UNCHANGED <<cache, at, ctx, sess, sig, graph, prompt, switched, runs, faults>>
MarkDone ==
  /\ at = "mark"
  /\ \/ todo = {} /\ switched' = TRUE /\ cache' = [cache EXCEPT !.agents = None] /\ UNCHANGED faults
     \/ todo # {} /\ faults < MaxFaults /\ faults' = faults + 1 /\ UNCHANGED <<switched, cache>>
  /\ at' = "close" /\ todo' = {}
  /\ UNCHANGED <<disk, ctx, sess, sig, graph, prompt, runs>>

\* /model for the agent: the file first, then the context.
SwitchModel ==
  /\ Command /\ sess.n < MaxSessions
  /\ prompt' = [prompt EXCEPT !.text = FALSE]
  /\ LET r == LoadLlms(LoadAgents(R))
     IN IF ~r.ok \/ Cardinality(r.cache.llms) = 1
        THEN Kept(r) /\ UNCHANGED <<at, ctx, sess>>
        ELSE \E m \in r.cache.llms :
               Kept(SetLlm(r, ctx.agent, m)) /\ UpdateContext(ctx.agent, m)
  /\ UNCHANGED <<todo, switched, faults>>

\* /model for a subagent: the file only.
SwitchSubModel ==
  /\ Command /\ Ran("prompt")
  /\ LET r == LoadLlms(LoadAgents(R))
     IN IF ~r.ok \/ Cardinality(r.cache.llms) = 1 THEN Kept(r)
        ELSE \E s \in DOMAIN r.cache.agents[ctx.agent].subs, m \in r.cache.llms :
               Kept(SetSubLlm(r, s, m))
  /\ UNCHANGED <<ctx, sess, todo, switched, faults>>

\* /mcp: the servers are switched in place, then saved; a save that fails leaves
\* them switched in memory, with no reload.
ToggleServers ==
  /\ Command /\ sess.n < MaxSessions
  /\ LET r == LoadMcp(R)
     IN \E e \in [DOMAIN r.cache.mcp -> BOOLEAN] :
          /\ e # r.cache.mcp
          /\ \/ /\ Kept(SaveMcp(r, e)) /\ Ran("close")
                /\ sess' = [sess EXCEPT !.reload = TRUE] /\ UNCHANGED faults
             \/ /\ faults < MaxFaults /\ faults' = faults + 1
                /\ Kept([r EXCEPT !.cache.mcp = e]) /\ Ran("prompt") /\ UNCHANGED sess
  /\ UNCHANGED <<ctx, todo, switched>>

\* /memory reloads when the editor succeeds.
EditMemory ==
  /\ Command /\ sess.n < MaxSessions /\ Ran("close")
  /\ sess' = [sess EXCEPT !.reload = TRUE]
  /\ UNCHANGED <<disk, cache, ctx, todo, switched, faults>>

Next ==
  \/ Run \/ ConfigCommand \/ Start \/ Build \/ Open \/ Close \/ Signal
  \/ CtrlC \/ HideTimer \/ TypeText \/ ToggleBash \/ Submit \/ TurnOver \/ Exit
  \/ SwitchAgent \/ Mark \/ MarkDone \/ SwitchModel \/ SwitchSubModel \/ ToggleServers
  \/ EditMemory
Spec == Init /\ [][Next]_vars

-----------------------------------------------------------------------------
(* Properties *)

\* Ctrl+C during a streamed turn cancels that turn, whichever session it is and
\* whatever handlers were left behind (_register_sigint_handler's contract).
InterruptReaches == Streaming => Receiver(sig.installed) = sess.n

\* A message is answered by the agent and the model the context shows, with the
\* servers that are enabled on disk: what changes them rebuilds the graph.
GraphIsContexts ==
  at \in {"prompt", "stream"} =>
    /\ graph.agent = ctx.agent /\ graph.model = ctx.model
    /\ faults = 0 => graph.servers = Enabled(disk.servers)

\* The agent switched to is the one the next process starts, with the model
\* chosen for it: the files that are written one by one still load.
SwitchPersists ==
  at \in {"close", "start", "build", "prompt"} /\ switched /\ faults = 0 =>
    LET r == LoadAgents([R EXCEPT !.cache = NoCache])
    IN Named(r, None) = {ctx.agent} /\ r.cache.agents[ctx.agent].llm = ctx.model

=============================================================================
