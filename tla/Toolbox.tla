------------------------------- MODULE Toolbox -------------------------------
(* The tool calls of an agent's turns, carried out: in the process, by an      *)
(* outside command (utils/bash.py) or by the worker of a sandbox               *)
(* (sandboxes/backends/base.py, sandboxes/worker.py); and what they leave on   *)
(* disk and in the agent's state (tools/internal, agents/state.py).  LangGraph *)
(* runs the calls of a message side by side, each on the state before them,    *)
(* and merges their updates when all are done.  A task is a run of its own, of a *)
(* subagent on a copy of the state (tools/subagents/task.py).  All runs share   *)
(* the event loop; commands and workers are processes of their own.  Calls have *)
(* been approved: that and the repetition of calls is ToolCalls'.               *)
EXTENDS Toolkit, Files

CONSTANTS Configs,     \* agent configurations
          Profiles,    \* backend -> its profile
          Trees,       \* what may be on disk at first
          Forms,       \* the calls a model may make
          MaxCalls,    \* bound: calls of the agent
          MaxTask,     \* bound: subagent -> its calls in a task
          MaxBatch,    \* bound: calls of a message
          MaxFaults,   \* bound: processes that fail, attempts that time out, turns cancelled
          Timed,       \* TRUE: tool_timeout of the retry policy is set
          MaxRetries   \* tool_max_retries

ASSUME ToolboxAssumption ==
  MaxCalls \in Nat /\ MaxBatch \in Nat /\ MaxFaults \in Nat /\ MaxRetries \in Nat /\ Timed \in BOOLEAN

VARIABLES agent,   \* the configuration, the agent assembled from it, and its subagents
          disk,    \* the files
          files,   \* run -> its state.files: memory file -> text; an output is kept
                   \* under its call; run 0 is the agent's, others are their tasks'
          chat,    \* calls whose message refers to an output kept in a file
          calls,   \* call -> [at, of, form, tries, ok, update], in order; of: its run
          batch,   \* the calls of the last message of each run
          procs,   \* what is at work on files: workers, commands, a tool in the process
          by,      \* the call that last changed the disk, and from where
          faults
vars == <<agent, disk, files, chat, calls, batch, procs, by, faults>>

NoUpdate == [files |-> <<>>, todos |-> FALSE]
Issued(run, form) ==
  [at |-> "issued", of |-> run, form |-> form, tries |-> 0, ok |-> FALSE, update |-> NoUpdate]

Init ==
  /\ \E config \in Configs :
       agent = [config |-> config, main |-> Agent(config),
                subs |-> [s \in DOMAIN config.subs |-> SubAgent(config.subs[s])]]
  /\ disk \in Trees /\ files = [run \in {0} |-> <<>>] /\ chat = {} /\ calls = <<>> /\ batch = {}
  /\ procs = {} /\ by = [call |-> 0, from |-> "process"] /\ faults = 0

BatchOf(run) == {c \in batch : calls[c].of = run}
Active(run) == {c \in BatchOf(run) : calls[c].at # "done"}
\* A subagent has none itself.
Subs(run) == IF run = 0 THEN DOMAIN agent.subs ELSE {}
Runner(run) == IF run = 0 THEN agent.main ELSE agent.subs[calls[run].form.sub]
Caller(c) == Runner(calls[c].of)
KeptFor(c) == files[calls[c].of]

\* A file tool of the agent or a subagent has no await: while it reads and writes a
\* file nothing else of the event loop goes on, though commands and workers do.
Held == \E p \in procs : p.kind = "process"

\* A message of the model: its calls start together.
Bindable(run, form) == form.tool \in Runner(run).tools
Limit(run) == IF run = 0 THEN MaxCalls ELSE MaxTask[calls[run].form.sub]
Message(run) ==
  /\ ~Held /\ run \in DOMAIN files /\ BatchOf(run) = {}
  /\ \E n \in 1..MaxBatch : \E forms \in [1..n -> {f \in Forms : Bindable(run, f)}] :
       /\ Cardinality({c \in DOMAIN calls : calls[c].of = run}) + n <= Limit(run)
       /\ calls' = calls \o [i \in 1..n |-> Issued(run, forms[i])]
       /\ batch' = batch \cup (Len(calls) + 1)..(Len(calls) + n)
  /\ UNCHANGED <<agent, disk, files, chat, procs, by, faults>>

-----------------------------------------------------------------------------
(* Answers *)

\* A large output becomes a file of the state and a reference to it.
Stored(c, tool, large) ==
  IF large /\ Caller(c).compresses /\ tool # "read_memory_file"
  THEN [NoUpdate EXCEPT !.files = [output \in {c} |-> <<c>>]] ELSE NoUpdate
Answer(c, ok, update) ==
  calls' = [calls EXCEPT ![c] = [@ EXCEPT !.at = "done", !.ok = ok, !.update = update]]
AnswerText(c, ok) ==
  Answer(c, ok, IF ok THEN Stored(c, calls[c].form.tool, calls[c].form.large) ELSE NoUpdate)

-----------------------------------------------------------------------------
(* Tools *)

FileTools == {"read_file", "write_file", "edit_file", "insert_at_line", "create_dir", "move_file",
              "move_multiple_files", "delete_file", "delete_dir", "ls", "glob"}
Rewriting == {"write_file", "edit_file", "insert_at_line", "run_command"}
Programs == {"run_command", "get_directory_structure", "grep_search", "grep"}
MemoryTools == {"write_memory_file", "read_memory_file", "list_memory_files", "edit_memory_file"}

\* The tools that work on files are built in; a memory file is not named as the
\* output of a call is; a binding names a backend there is.
ASSUME BindingAssumption ==
  /\ \A t \in Tools \cap (FileTools \cup Programs) : Category[t] = "impl"
  /\ \A form \in Forms :
       /\ {"tool", "name"} \subseteq DOMAIN form /\ form.name \notin Nat
       /\ form.path \in Paths /\ form.line \in Nat /\ form.moves \in Seq(Paths \X Paths)
  /\ {"process", "command", "blocked"} \cap DOMAIN Profiles = {}
  /\ \A config \in Configs :
       config.profiles \in Seq([patterns : SUBSET [neg : BOOLEAN, names : SUBSET Tools,
                                                   cat : {"impl", "mcp", "internal", "*"}],
                                backend : DOMAIN Profiles \cup {None}])

\* What is on disk at first.
ASSUME TreesAssumption == Trees \subseteq [Paths -> {Absent, Dir} \cup Texts]

\* A worker is handed a copy of the state, and what a memory tool makes of it
\* is not taken back.
Handed(form, kept) ==
  /\ form.tool \in {"read_memory_file", "edit_memory_file"} => form.name \in DOMAIN kept
  /\ form.tool = "edit_memory_file" => Found(kept[form.name], form.olds)

\* A command adds a line to its file, say; the other programs look only.
Effect(c, form, s) ==
  LET p == ResolvePath(form.path) t == form.tool IN
  IF form.bad \/ Escapes(s.d, form) THEN Fail(s) ELSE
  CASE t = "read_file" -> ReadFile(s, p)
    [] t = "write_file" -> WriteFile(s, p, <<c>>)
    [] t = "edit_file" -> EditFile(s, p, form.olds, c)
    [] t = "insert_at_line" -> InsertAtLine(s, p, form.line, c)
    [] t = "create_dir" -> CreateDir(s, p)
    [] t \in {"move_file", "move_multiple_files"} -> MoveFiles(s, form.moves)
    [] t = "delete_file" -> DeleteFile(s, p)
    [] t = "delete_dir" -> DeleteDir(s, p)
    [] t = "run_command" ->
         IF s.d[p] = Dir THEN Fail(s) ELSE Put(s, p, IF IsText(s, p) THEN Append(s.d[p], c) ELSE <<c>>)
    [] t \in {"ls", "get_directory_structure", "grep_search", "grep"} -> Ls(s, p)
    [] t = "glob" -> Glob(s, p)
    [] t \in MemoryTools -> IF Handed(form, KeptFor(c)) THEN s ELSE Fail(s)
    [] OTHER -> s

\* The memory tools work on a copy of all the files, which is their update.
WriteMemory(kept, c, name) ==
  [files |-> [n \in DOMAIN kept \cup {name} |-> IF n = name THEN <<c>> ELSE kept[n]],
   todos |-> FALSE]
EditMemory(kept, c, name, olds) ==
  [files |-> [kept EXCEPT ![name] = Replaced(@, olds, c)], todos |-> FALSE]

Memory(c, form) ==
  LET t == form.tool n == form.name kept == KeptFor(c) IN
  \/ t = "write_memory_file" /\ Answer(c, TRUE, WriteMemory(kept, c, n))
  \/ /\ t = "edit_memory_file"
     /\ IF ~form.bad /\ n \in DOMAIN kept /\ Found(kept[n], form.olds)
        THEN Answer(c, TRUE, EditMemory(kept, c, n, form.olds)) ELSE Answer(c, FALSE, NoUpdate)
  \/ /\ t \in {"read_memory_file", "list_memory_files"}
     /\ AnswerText(c, t = "read_memory_file" => n \in DOMAIN kept)

Todos(c, form) ==
  IF form.tool = "write_todos" THEN Answer(c, TRUE, [files |-> <<>>, todos |-> TRUE])
  ELSE form.tool = "read_todos" /\ AnswerText(c, TRUE)

\* fetch_tools and fetch_skills search by a regular expression, which may be bad,
\* the others look a name up; a name in two categories needs its category.
Catalog(c, form) ==
  AnswerText(c, IF form.tool = "fetch_tools" THEN ~form.bad ELSE form.of \in Caller(c).behind)
SkillCatalog(c, form) ==
  AnswerText(c, IF form.tool = "fetch_skills" THEN Caller(c).skills = {} \/ ~form.bad
                ELSE form.of \in Caller(c).skills /\ ~form.bad)

\* A call starts, when nothing holds the event loop.
Form(c) ==
  [calls[c].form EXCEPT !.tool = Actual(Caller(c), calls[c].form)]
Sent(c) == Where(Caller(c), calls[c].form)
Here(c) == Sent(c) = "process"
Ready(c) == c \in batch /\ calls[c].at = "issued" /\ ~Held

Blocked(c) ==
  /\ Ready(c) /\ Sent(c) = "blocked"
  /\ Answer(c, FALSE, NoUpdate)
  /\ UNCHANGED <<agent, disk, files, chat, batch, procs, by, faults>>
InProcess(c) ==
  /\ Ready(c) /\ Here(c)
  /\ \E form \in {Form(c)} :
     \/ /\ form.tool \in FileTools \ Rewriting
        /\ \E s \in {Effect(c, form, Seen(disk, Everything))} :
             /\ AnswerText(c, s.ok)
             /\ disk' = Left(disk, Everything, s)
             /\ by' = IF disk' # disk THEN [call |-> c, from |-> "process"] ELSE by
     \/ form.tool = "task" /\ form.sub \notin Subs(calls[c].of) /\ AnswerText(c, FALSE)
        /\ UNCHANGED <<disk, by>>
     \/ form.tool \in CatalogTools /\ Catalog(c, form) /\ UNCHANGED <<disk, by>>
     \/ form.tool \in SkillTools /\ SkillCatalog(c, form) /\ UNCHANGED <<disk, by>>
     \/ (Memory(c, form) \/ Todos(c, form)) /\ UNCHANGED <<disk, by>>
  /\ UNCHANGED <<agent, files, chat, batch, procs, faults>>

-----------------------------------------------------------------------------
(* Tasks: runs of their own, on a copy of the state *)

Delegate(c) ==
  /\ Ready(c) /\ Here(c) /\ Form(c).tool = "task" /\ Form(c).sub \in Subs(calls[c].of)
  /\ calls' = [calls EXCEPT ![c].at = "delegated"]
  /\ files' = [run \in DOMAIN files \cup {c} |-> IF run = c THEN KeptFor(c) ELSE files[run]]
  /\ UNCHANGED <<agent, disk, chat, batch, procs, by, faults>>

\* The run is over: it hands all its files back, or its model has failed.
LeftRunning(run) ==  \* mutant: the subagent goes on after its task is answered
  UNCHANGED files
Ended(run) == files' = [other \in DOMAIN files \ {run} |-> files[other]]
TaskEnds(c) ==
  /\ ~Held /\ c \in DOMAIN files \ {0} /\ BatchOf(c) = {}
  /\ \/ Answer(c, TRUE, [files |-> files[c], todos |-> FALSE]) /\ UNCHANGED faults
     \/ faults < MaxFaults /\ faults' = faults + 1 /\ Answer(c, FALSE, NoUpdate)
  /\ Ended(c)
  /\ UNCHANGED <<agent, disk, chat, batch, procs, by>>

-----------------------------------------------------------------------------
(* Processes: [call, kind, at, view, old, text, ok, orphan, try] *)

Process(c, kind, view) ==
  [call |-> c, kind |-> kind, at |-> "started", view |-> view, old |-> <<>>, text |-> <<>>, ok |-> TRUE,
   orphan |-> FALSE, try |-> calls[c].tries]
Started(c, p) == procs' = procs \cup {p} /\ calls' = [calls EXCEPT ![c].at = "waiting"]

\* The process itself, at a tool that writes a file it has read.
Rewrite(c) ==
  /\ Ready(c) /\ Here(c) /\ Form(c).tool \in FileTools \cap Rewriting
  /\ Started(c, Process(c, "process", Everything))
  /\ UNCHANGED <<agent, disk, files, chat, batch, by, faults>>

RunProgram(c) ==
  /\ Ready(c) /\ Here(c) /\ Form(c).tool \in Programs
  /\ Started(c, Process(c, "command", Everything))
  /\ UNCHANGED <<agent, disk, files, chat, batch, by, faults>>

\* The mounts of a worker are those of the moment it starts.
StartWorker(c) ==
  /\ Ready(c) /\ Sent(c) \in DOMAIN Profiles
  /\ LET backend == Sent(c)
     IN Started(c, Process(c, backend, View(disk, Profiles[backend])))
  /\ UNCHANGED <<agent, disk, files, chat, batch, by, faults>>

Becomes(p, q) == procs' = (procs \ {p}) \cup {q}
Changes(p, tree) ==
  disk' = tree /\ by' = IF tree # disk THEN [call |-> p.call, from |-> p.kind] ELSE by
Target(p) == ResolvePath(calls[p.call].form.path)

TextAt(s, p) == IF IsText(s, p) THEN s.d[p] ELSE <<>>

\* It reads the file and computes the new text, or fails; ...
Read(p) ==
  /\ p.at = "started"
  /\ \E form \in {Form(p.call)} : \E s \in {Effect(p.call, form, Seen(disk, p.view))} :
        IF form.tool \in Rewriting /\ s.ok
        THEN /\ UNCHANGED <<disk, by>>
             /\ Becomes(p, [p EXCEPT !.at = "read", !.text = s.d[Target(p)],
                                      !.old = TextAt(Seen(disk, p.view), Target(p))])
        ELSE Changes(p, Left(disk, p.view, s)) /\ Becomes(p, [p EXCEPT !.at = "over", !.ok = s.ok])
\* ... opens it for writing, which empties it; ...
Open(p) ==
  /\ p.at = "read"
  /\ \E s \in {Put(MakeDirs(Seen(disk, p.view), Up[Target(p)]), Target(p), <<>>)} :
        /\ Changes(p, Left(disk, p.view, s))
        /\ Becomes(p, [p EXCEPT !.at = IF s.ok THEN "open" ELSE "over", !.ok = s.ok])
\* ... and writes the text.
Write(p) ==
  /\ p.at = "open"
  /\ \E s \in {Put(Seen(disk, p.view), Target(p), p.text)} :
        Changes(p, Left(disk, p.view, s)) /\ Becomes(p, [p EXCEPT !.at = "over"])
ProcessStep(p) ==
  /\ Read(p) \/ Open(p) \/ Write(p)
  /\ UNCHANGED <<agent, files, chat, calls, batch, faults>>

\* Its output comes back: a result, or a failure, a text too long or unreadable.
\* What a worker's tool does to the agent's state is not in it.
Exit(p) ==
  /\ p.at = "over" /\ procs' = procs \ {p}
  /\ Held => p.kind = "process"
  /\ \/ p.orphan /\ UNCHANGED <<calls, faults>>
     \/ ~p.orphan /\ AnswerText(p.call, p.ok) /\ UNCHANGED faults
     \/ /\ ~p.orphan /\ p.kind # "process" /\ faults < MaxFaults /\ faults' = faults + 1
        /\ AnswerText(p.call, FALSE)
  /\ UNCHANGED <<agent, disk, files, chat, batch, by>>

\* A worker that takes too long is killed, whatever it was at.
ReportOnly(p) ==  \* mutant: the worker is left running
  procs' = procs /\ AnswerText(p.call, FALSE)
WaitForExit(p) ==  \* mutant: waits for a process that was not killed
  p.at = "over" /\ procs' = procs \ {p} /\ AnswerText(p.call, FALSE)
Kill(p) == procs' = procs \ {p} /\ AnswerText(p.call, FALSE)
Timeout(p) ==
  /\ p.kind \in DOMAIN Profiles /\ ~p.orphan /\ ~Held
  /\ Kill(p)
  /\ UNCHANGED <<agent, disk, files, chat, batch, by, faults>>

Orphaned(S) ==
  procs' = {IF p \in S THEN [p EXCEPT !.orphan = TRUE] ELSE p : p \in procs}
GiveUp ==
  /\ Orphaned(procs) /\ batch' = {} /\ UNCHANGED calls
  /\ files' = [run \in {0} |-> files[run]]

\* The retry policy's timeout, which is for the agent's own calls, cancels the attempt,
\* leaves its processes alone, and makes another; after the last one the turn fails.
AttemptTimesOut(c) ==
  /\ Timed /\ ~Held /\ c \in BatchOf(0) /\ calls[c].at \in {"waiting", "delegated"}
  /\ faults < MaxFaults /\ faults' = faults + 1
  /\ IF calls[c].tries < MaxRetries
     THEN /\ calls' = [calls EXCEPT ![c] = [@ EXCEPT !.at = "issued", !.tries = calls[c].tries + 1]]
          /\ Orphaned({p \in procs : p.call = c \/ calls[p.call].of = c})
          /\ batch' = batch \ BatchOf(c) /\ Ended(c)
     ELSE GiveUp
  /\ UNCHANGED <<agent, disk, chat, by>>

\* Ctrl+C: the calls are cancelled, their processes go on.
Cancel ==
  /\ ~Held /\ Active(0) # {} /\ faults < MaxFaults /\ faults' = faults + 1
  /\ GiveUp
  /\ UNCHANGED <<agent, disk, chat, by>>

-----------------------------------------------------------------------------
(* The end of the step *)

\* file_reducer: the files of an update are put over those there are.
KeepLast(kept, update) == update  \* mutant: without a reducer
FileReducer(kept, update) ==
  [n \in DOMAIN kept \cup DOMAIN update |-> IF n \in DOMAIN update THEN update[n] ELSE kept[n]]
Merge(run) ==
  LET kept[n \in Nat] ==
        IF n = 0 THEN files[run]
        ELSE IF n \in BatchOf(run) /\ calls[n].update.files # <<>>
        THEN FileReducer(kept[n - 1], calls[n].update.files) ELSE kept[n - 1]
  IN kept[Len(calls)]

\* The updates are merged call by call; todos has no reducer and takes one: the run
\* fails of a second, the agent's and with it the turn, or a subagent's and its task.
Clash(run) == Cardinality({c \in BatchOf(run) : calls[c].update.todos}) > 1
StepEnds(run) ==
  /\ ~Held /\ run \in DOMAIN files /\ BatchOf(run) # {} /\ Active(run) = {}
  /\ batch' = batch \ BatchOf(run)
  /\ \/ /\ ~Clash(run) /\ UNCHANGED calls
        /\ files' = [files EXCEPT ![run] = Merge(run)]
        /\ chat' = IF run = 0 THEN chat \cup {c \in BatchOf(run) : c \in DOMAIN calls[c].update.files}
                   ELSE chat
     \/ Clash(run) /\ run = 0 /\ UNCHANGED <<calls, files, chat>>
     \/ Clash(run) /\ run # 0 /\ Answer(run, FALSE, NoUpdate) /\ Ended(run) /\ UNCHANGED chat
  /\ UNCHANGED <<agent, disk, procs, by, faults>>

Starts(c) ==
  Blocked(c) \/ InProcess(c) \/ Delegate(c) \/ Rewrite(c) \/ RunProgram(c) \/ StartWorker(c)
Next ==
  \/ \E run \in DOMAIN files : Message(run) \/ StepEnds(run) \/ TaskEnds(run)
  \/ \E c \in batch : Starts(c) \/ AttemptTimesOut(c)
  \/ \E p \in procs : ProcessStep(p) \/ Exit(p) \/ Timeout(p)
  \/ Cancel
Spec == Init /\ [][Next]_vars

\* Something goes on as long as anything can: the event loop's calls and runs, the
\* commands it started, and, as a worker may hang, the timeout of a worker.
Progress ==
  \/ \E run \in DOMAIN files : StepEnds(run) \/ TaskEnds(run)
  \/ \E c \in batch : Starts(c)
  \/ \E p \in procs : Timeout(p) \/ (p.kind \in {"process", "command"} /\ (ProcessStep(p) \/ Exit(p)))
FairSpec == Spec /\ WF_vars(Progress)

-----------------------------------------------------------------------------
(* Properties *)

\* A worker or command is that of a call still awaited, which has no other, unless
\* its call was cancelled: what has been answered changes nothing any more.  A call of
\* a subagent, too, is that of a task still awaited.
AnsweredIsOver ==
  /\ \A p \in procs : ~p.orphan =>
       /\ p.call \in batch /\ calls[p.call].at = "waiting"
       /\ \A q \in procs \ {p} : q.call = p.call => q.orphan
  /\ \A c \in batch : LET task == calls[c].of IN
       task # 0 => task \in BatchOf(0) /\ calls[task].at = "delegated"

\* The disk is changed where the configuration says: by a tool of the agent in the
\* process only if a profile without sandbox has it, else by the worker of the one
\* profile it matches, in what that may write; called by name or by run_tool.
RunsAsBound ==
  [][LET bindings == Bindings(agent.config)
         call == calls'[by'.call]
         form == call.form
         tool == IF form.tool = "run_tool" THEN form.of ELSE form.tool
     IN disk' # disk /\ call.of = 0 /\ bindings # <<>> =>
          IF by'.from \in {"process", "command"} THEN Bypassed(bindings, tool)
          ELSE /\ \E i \in DOMAIN bindings :
                    bindings[i].backend = by'.from /\ Binding(bindings, tool) = {i}
               /\ \A p \in Paths : disk'[p] # disk[p] =>
                    \E m \in Profiles[by'.from].write : Within(p, m)]_vars

\* The lines there are: of the files, and in the hands of what has emptied a file and is
\* to write it.
LinesOf(d, p) == IF d[p] \in {Absent, Dir} THEN {} ELSE Range(d[p])
Holds(p, x) == p.at = "open" /\ p.view[Target(p)] = "write" /\ x \in Range(p.text)
Somewhere(x) == (\E p \in Paths : x \in LinesOf(disk, p)) \/ \E p \in procs : Holds(p, x)

\* What takes a line from a path: an edit that names it, ...
TakenByEdit(form, p, x) == form.tool = "edit_file" /\ p = ResolvePath(form.path) /\ x \in Range(form.olds)
\* ... a tool or a command that writes the text of its file as it read it, before the
\* line was there, ...
TakenByRewrite(form, c, p, x) ==
  /\ form.tool \in Rewriting /\ p = ResolvePath(form.path)
  /\ \E q \in procs : q.call = c /\ q.at \in {"read", "open"} /\ x \notin Range(q.old)
\* ... a deletion, ...
TakenByDelete(form, p) ==
  form.tool \in {"delete_file", "delete_dir"} /\ Within(p, ResolvePath(form.path))
\* ... or a move: of a file over it, of two files to one place, or by a worker of a file
\* out of what it may write.
MovedOut(from, move) ==
  /\ from \in DOMAIN Profiles
  /\ \/ \E top \in Profiles[from].write : Within(move[1], top) /\ ~Within(move[2], top)
     \/ MatchesHidden(Profiles[from], move[2])
TakenByMove(form, from, p) ==
  /\ form.tool \in {"move_file", "move_multiple_files"}
  /\ \E i \in DOMAIN form.moves :
       \/ form.moves[i][2] = p \/ MovedOut(from, form.moves[i])
       \/ \E j \in DOMAIN form.moves \ {i} : form.moves[j][2] = form.moves[i][2]

\* A line is lost only so, or with a worker that is killed while it writes, whose call is
\* told that it failed: no tool writes over what it was not told of, but for what
\* came to its file after it was read.
EditsSurvive ==
  [][\A x \in Lines \cup DOMAIN calls : Somewhere(x) /\ ~Somewhere(x)' =>
       LET called == calls'[by'.call].form
           form == [called EXCEPT !.tool = IF @ = "run_tool" THEN called.of ELSE @]
       IN /\ \A p \in Paths : x \in LinesOf(disk, p) =>
               \/ TakenByEdit(form, p, x) \/ TakenByRewrite(form, by'.call, p, x)
               \/ TakenByDelete(form, p) \/ TakenByMove(form, by'.from, p)
          /\ \A p \in procs : Holds(p, x) =>
               p.kind \in DOMAIN Profiles /\ calls'[p.call].at = "done" /\ ~calls'[p.call].ok]_vars

\* An output that a message of the conversation refers to can be read, whatever
\* calls beside it and after it write to the files of the state.
OutputsStay == \A c \in chat : c \in DOMAIN files[0] /\ files[0][c] = <<c>>

\* The calls of a message come to an end, also when a worker hangs.
CallsAnswered == batch # {} ~> batch = {}

=============================================================================
