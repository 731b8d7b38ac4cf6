# A TLA+ model of msAgent

msAgent is an interactive coding agent: a terminal session sends the user's
messages to a LangGraph agent, which calls a language model and tools. The
repository's own logic lies around that graph: the dispatcher that draws its stream
and answers its questions, the approval, retry and sandbox middlewares every tool
call passes, the tools and the worker processes that run them, the checkpointers that
hold a thread and let the user rewind it, the MCP client with its sessions, proxies
and OAuth flows, the session loop and the configuration registry. This directory holds
TLA+ modules of the parts where order, failure or concurrency decide what happens, TLC
configurations that check them on small instances, and proofs of theorems about them
checked by TLAPS.

Paths below are under `src/src/msagent/`. LangGraph, LangChain, the MCP library, the
browser, the operating system and the model providers are outside the repository; what
the models assume of them is said where it is used.

## Inventory

| Component | State | Operations | What is hard | What makes it correct |
|---|---|---|---|---|
| MCP sessions (`mcp/session.py`) | `_sessions`, `_tasks`, `_locks`, `_close_lock`, one runner task per session with `ready` and `stop` events | `get`, `close`, `close_all`, `_shutdown`, the runner | tasks interleave at every await; callers are cancelled; servers hang, crash, fail on exit | a pooled session is usable, one per server, none orphaned, everything can be closed |
| MCP client (`mcp/client.py`, `loader.py`, `tool.py`, `registry.py`, `cache.py`) | `_tools_cache`, `_live`, `_registered`, lazy locks, `_loaded` of each proxy, schemas cached on disk | `tools`, `_load_all`, `_load_live`, repair, invoke, close | double-checked locks, loads side by side of which some fail, schemas of another configuration | the pool is called by one task at a time, no tool lost or let through a filter, calls end |
| MCP factory and initializer (`mcp/factory.py`, `cli/bootstrap/initializer.py`, `agents/factory.py`) | the client cached by a configuration hash | build a graph, choose tools and sandboxes, clean up, reload | a closed client that is used again; what the hash covers | a graph has the tools its configuration selects |
| Tool-call pipeline (`middlewares/approval.py`, `retry.py`, `sandbox.py`, `return_direct.py`, `cli/dispatchers/messages.py`) | rule file, approval mode, `_decision_cache`, LangGraph's tasks, answers to interrupts | one attempt of a call, a question and its answer, resume, retry, timeout | parallel calls, replay of a task from its first line, answers replayed by position, a mode changed at a prompt | what is denied does not run, what runs again does so a bounded number of times, turns end |
| Turn and stream (`cli/dispatchers/messages.py`, the model part of `middlewares/retry.py`, `tools/subagents/task.py`) | streaming states, rendered messages, pending headers, previews, the breaker | stream, invoke, interrupt and resume, model attempts, cancel, compress | a message comes as chunks, as an update and again on resume; events lost with a stream that is left; the wait of two for each other | shown once and wholly; the turn ends |
| Tools and sandbox (`tools/`, `agents/state.py`, `sandboxes/`, `utils/bash.py`) | files on disk, the state's files and todos, worker and command processes | file, memory and todo tools, commands, workers, the merge of updates | calls side by side on one state, timeouts and kills in the middle of a write, cancelled callers, a proxy tool | an answered call is over, changes are made where the configuration says, nothing else is lost |
| Checkpoints (`checkpointer/`, `cli/handlers/replay.py`, `compress.py`, `middlewares/pending_tool_result.py`) | checkpoints with parents, the message index, the screen | put, index, list messages, delete after, compress, repair | a checkpoint and its index are two transactions; counts stand for places in the history; cancelled turns | what the screen shows is what the model sees; the index is sound; the history is whole |
| Session (`cli/core/session.py`, `cli/bootstrap/chat.py`, `cli/handlers/`) | the context, the running graph, SIGINT handlers, the prompt | start, build, turns, commands, reload, close | handlers installed over handlers, a context changed before files and graph are | Ctrl+C cancels the turn; the graph is what the prompt says |
| Configuration registry (`configs/`) | lazily loaded configurations, files completed from templates | load, validate, migrate, update, save | stale caches, updates of several files one by one | what is chosen is what the next process loads |
| MCP OAuth (`mcp/oauth/`) | callback server with its port and future, token files | redirect, wait, stop, save, load | cancellation at every await, answers of earlier flows, two processes | a flow that waits is heard; tokens survive |
| Rate limiter (`utils/rate_limiter.py`) | three buckets, last update time, a lock | `_consume`, `acquire`, `__call__` | threads, clock, a request larger than a bucket | never more than the rate and the burst in any period |

Rendering, completion, themes, prompts, model construction, web tools and the LangGraph
server mode are listed in `PROJECT.json` as not modelled: they have no state of their
own, or are input and output of other programs.

How the parts meet: the chat command runs one session after the other; each builds a
graph with the registry's configurations, the MCP factory's client and a checkpointer.
The session's dispatcher streams the graph; the graph's tool node runs the calls of one
message side by side, each through RetryMiddleware, ApprovalMiddleware and
SandboxMiddleware, into a file tool, a process or an MCP proxy; a call that must ask
raises an interrupt, which ends the stream, and the dispatcher resumes the run with the
answers; every step of the graph ends in a checkpointer's put; an MCP tool gets its
session from the pool of its client, and an HTTP server its tokens from an OAuth flow;
`/replay` and `/compress` act on the checkpoints between turns; a reload closes the
client and the checkpointer and builds the graph anew.

## Modules

| Module | Models |
|---|---|
| `MCPSessions` | the pool and its runner tasks |
| `SessionPool` | what the pool promises: the specification `MCPSessions` implements |
| `MCPClient` | the client on top of such a pool: loads, proxies, locks, the schema cache, the factory and reloads |
| `ToolCalls` | the tool calls of one model message, approval, retry, sandbox, interrupt and resume |
| `Repeats` | `ToolCalls` with a history: how often each call was executed, how many questions were answered |
| `Turn` | a turn: the graph's events, model attempts and the breaker, the dispatcher and its display |
| `Toolkit` | which tools an agent gets and where a call of one runs |
| `Files` | the file tools, and what a sandboxed process sees of the disk |
| `Toolbox` | calls carried out: in the process, by commands and workers, and as tasks of subagents; extends `Toolkit` and `Files` |
| `Rewind` | the checkpoints of the session's thread, the message index, `/replay`, `/compress`, repair |
| `Conversation` | what a thread promises its user: the specification `Rewind` implements |
| `Configs` | the configuration directory and the registry's operations on it |
| `Session` | the sessions of a process, SIGINT, the prompt and the commands; extends `Configs` |
| `OAuth` | authorisation flows, callback servers and token files |
| `TokenBucket` | the rate limiter: its buckets, and callers that poll |
| `MCPSessionsProofs`, `MCPClientProofs`, `ToolCallsProofs`, `TurnProofs`, `RewindProofs`, `ToolboxProofs`, `SessionProofs`, `OAuthProofs` | theorems about the module they are named for; `TurnProofs` has those about `TokenBucket` too, for which a turn's model calls wait |
| `MC…` | instances for TLC |

`Toolbox` composes two libraries of operators, `Session` one; `MCPClient` takes of the
pool what `MCPSessions` gives a client that serialises its calls, which is what
`OneCallPerServer` says of it. The three views of a tool call are kept apart because
their hazards are: `ToolCalls` has the decisions and repetitions of a call, `Turn` the
events of it, `Toolbox` its effects.

### MCPSessions

A coroutine runs without interruption from one await to the next, so every action is
one such stretch. `Get` is `get` up to its first await: the early return on a pooled
session, else the lock of the server, else the wait for it (`GetLocked`). `Create` is
`_create` up to `ready.wait()`, `GetReady` the rest of it with its two error paths,
`CancelGet` a cancellation of the caller at either await: the lock is released, the
runner goes on. `Opened`, `OpenFailed`, `Stopped`, `Exited`, `Crashed`, `ExitFailed`,
`Cancelled` are the runner's stretches; every way out goes through `Finish`, the
`finally` clause that pops the server's entry whoever owns it. `Close`, `CloseAll`,
`CloseAllLocked` and `Gather` create `_shutdown`s, whose stretches are
`ShutdownStart`, `ShutdownTimeout` (`wait_for` gives up and cancels the runner) and
`ShutdownDone` (a runner's own exception is logged and raised again); `CloseReturns`
is the end of `gather`, which raises the first exception and leaves the rest running.
A runner is named by the number of the call that made it, so a runner of an earlier
call is told from a later one.

### ToolCalls

`Attempt` is one pass of a call through `_handle_approval`: a message kept in
`_decision_cache`, or the decision by rules and mode (`Bypass`, `Allowed`, `Denied`),
or the question. `Ask` is LangGraph's `interrupt()`: the k-th call of it in a task
returns the k-th answer given so far or raises. `Save` rewrites the rule file.
`ToolReturns`, `ToolCommands`, `ToolRaises` and `ToolTimesOut` are the ways a running
tool ends; `Retry` is what the retry middleware does of an error it looks for.
`Prompt`, `Answer` and `Resume` are the dispatcher: it shows the first interrupt, may
change the mode, closes the stream, which cancels the calls that are not finished,
and resumes; `Fail`, `Cancel` and `Finish` end the turn. Assumed of LangGraph: a
resumed run executes every unfinished task again from its first line with its answers
in order, and it may repeat a finished one whose writes were not saved (`Rerun`).

`Repeats` adds two history variables to it, for the price of a resume: a call that runs
when the stream is left is cancelled and executed again, with all its attempts, and a call
that returned a Command is executed again too, as no message is kept for it.
`RepeatsBounded` is the bound on that: `MaxRetries + 1` executions, and as many again for
each question answered. The bound is reached.

### Rewind

A checkpoint is its list of messages and its parent; its id is its place in the order
of puts, as LangGraph's time-ordered ids are. `Send`, `Human`, `BeforeAgent`, `Model`
and `Tools` are the checkpoints of a turn, each through `Put`: the checkpoint first,
its index after it, unless the indexing fails (which the code swallows) or the process
dies in between. `BeforeAgent` applies `Repaired`, the insertion of results for
unanswered tool calls. `Cancel` stops a turn between two checkpoints. `Browse` is the
listing of the user's messages, which makes the index when it has no row; `Replay`
finds the checkpoint with as many messages as stand before the chosen one (`Target`,
0 for None), deletes those after it (`After`) with their rows, and leaves the earlier
messages on the screen. `Compress` moves to a new thread with one checkpoint, a summary
and the messages to keep. The variable `saver` is the checkpointer configured; the
in-memory one counts along the history and has no index.

Left out: namespaces of subgraphs, other threads of the same database, `/resume`, and
an exception of the deletion itself, which `/replay` only reports. An index is written
wholly or not at all: an insertion that fails after the first of a checkpoint's rows, which
leaves these in the open transaction (`checkpointer/impl/sqlite.py:83-117`), would take an
error of the database between two rows that were prepared before.

### MCPClient

`Create` is `Initializer.create_graph` up to the warm-up: the factory's client
(`FactoryClient`: the one there is, if `ConfigHash` is the same), the tools of servers
with valid cached schemas at once, and a session for the stateful ones of these.
`LoadPending` starts a load for every other server, `Loaded` gathers them. A load is
`get` or `list`, and on an MCP error `close`, `repair` and `get` again: `Got`,
`GetFails`, `List`, `CloseForRepair`, `Repaired`, each an await. `Call`, `ProxyLocked`,
`ServerLocked` and `Invoked` are the stretches of a proxy's `_arun`, with the lock of
the proxy and of the server and the second look at `_live`. `Cancel` is a turn's end by
Ctrl+C, `Crash` a session that dies, `Reload` and `CleanUp` what `/mcp` or another agent
bring about. A session is the number of its opening; a proxy that is hydrated keeps the
number it was made with (`via`). The pool is abstracted to one session for each server.
Failures that the code treats alike are one. What a server offers does not change
(`Offers`): tools it adds or drops while the hash of its configuration is the same, so that
its cached schemas are still taken, are not in the model.

### Turn

The graph, external, is a state for each namespace, the agent's and one for each
subagent that is started: `CallModel` checks the limit and the breaker, `Chunk`,
`ModelDone`, `ModelFails` and `Wake` are a model call with its retries, `CallDone`,
`CallAsks`, `Delegate` and `Commit` the tool node. Its events go through a queue to the
dispatcher: `Take` is one pass of the loop of `_stream_response`, where `ProcessChunk`,
`ProcessModel` and `ProcessResult` are what is drawn and remembered; `TakeInterrupt` and
`Answer` are a question, with the stream left and a new one that replays what is done;
`End`, `Fail`, `Cancel`, `Invoked` and `Compress` are the ways a turn ends. A message is
its id and its number of parts, which is what `AllShown` tells apart. Events that were in
the queue when the stream is left are lost, as a generator that is closed loses them. The
number in a chunk says which of its message's it is; no handler reads it. `Finalize` ends
the streams of several namespaces in one step, because `_finalize_all_streaming` takes
one after the other and nothing comes between. The results of calls that are done come
again in any order (`SetToSeqs`): the code relies on none.

### Toolkit, Files and Toolbox

`Toolkit` is the choice of tools and skills by patterns, the catalog behind `run_tool`
and the sandbox map; `Files` has each file tool as an operator on a tree, where a text is
a sequence of lines, and `View`, what bubblewrap's mounts let a worker see and write.
`Toolbox` is the run of calls: `Message` starts the calls of a message side by side;
`Blocked`, `InProcess`, `Rewrite`, `RunProgram`, `StartWorker` and `Delegate` are their
beginnings by what they are and where they run. What writes a file it has read is in
`procs`, a worker, a command or a tool of the process itself: it reads (`Read`), empties
the file (`Open`) and fills it (`Write`), and a worker may be killed (`Timeout`), a worker
or a command abandoned (`AttemptTimesOut`, `Cancel`) between any two; `Exit` is its answer.
A tool of the process has no await, so while one reads and writes (`Held`) nothing else of
the event loop goes on, but workers and commands do: `edit_file` may write back a file
without the line that a command appended to it since it was read
(`tools/impl/file_system.py:242-275`).

A `task` is a run of its own: `Delegate` gives the subagent a copy of the run's files,
`Message` its calls, any that its configuration binds, `StepEnds` merges them into the
copy, `TaskEnds` hands all of the copy back as the update of the call. Run 0 is the agent's;
what runs side by side interleaves at each step. The agent's timeout cancels a task with
its calls, whose processes go on.

Each call sees the state of its run before the message, and `StepEnds` merges their
updates, one call after the other, with `FileReducer`. `by` is not in the code: it records
who changed the disk last.

Left out: the web tool and `think`, tools of MCP servers, the seatbelt backend, output
limits. A path names one file: a process writes to the path also when its file has been
moved or deleted since it was opened, where the operating system would write to the file
that is gone. `delete_dir` and a single move are one step each, a call's several moves too,
also against commands. The model of a subagent fails or answers (`TaskEnds`), and calls of a
subagent are not retried: its graph is made without the retry policy of tools
(`tools/subagents/task.py:84`). That a task's calls may be any of its tools and in any
number up to `MaxTask` stands for its prompts.

### Configs and Session

An operation of `Configs` takes and returns the disk and what the process has loaded:
`Ensured` completes the directory from the templates, `LoadAgents` and its like are the
registry's lazy loads with their validation and migration, `SetLlm`, `SetSubLlm`,
`MarkFile` and `SaveMcp` the updates. `Session` is the process: `Run` and `ConfigCommand`
start one, `Start`, `Build`, `Open` and `Close` are a session's life, one after the other
while `reload` is set; `Signal` is Ctrl+C outside the prompt, which goes to the handler
installed, and from there along those before it (`Receiver`). `CtrlC`, `HideTimer`,
`TypeText`, `ToggleBash` and `Submit` are the prompt, the rest the commands that reload.
`Mark` writes one file of `update_default_agent`; a signal or a failed write may come
between two. Other writes are one step each.

### OAuth

`RedirectHandler`, `Start`, `Answered` and `Stop` are the two handlers of a provider with
its callback server, `Cancel` a cancellation at each await of theirs. `Connect`,
`Respond`, `SetResult` and `Closed` are a browser's connection; a page opened by an
earlier flow, or sent to another provider's port, speaks of a flow that is not the
server's (`foreign`). `waits` is whether `wait_closed` waits for connections, which
depends on the version of Python. `Save` is `_save` through a temporary file named after
the process, with a second process on the same files; `Crash` and `OtherCrashes` end
either.

### TokenBucket

`_consume` holds a lock from its first line to its last, so a poll is one step:
`Refilled` is what it computes, `Enough` its test, `Consume` a poll that succeeds; one
that fails changes nothing. `Arrive` is a caller entering `acquire` (no input tokens),
`__call__` or their coroutines, `Leave` the cancellation of a coroutine that sleeps
between polls. `Tick` is the clock. `period` and `given` are not in the code: they
record what was handed out since some tick, chosen anew at any time, so that
`WithinRate` speaks of every period. No caller passes `output_tokens` and nobody calls
`_update_buckets`; both are left out. `MCTokenBucket` gives the rates. Its theorems
stand beside those of the turn, in `TurnProofs`.

## The runs

| Run | Expect | Shows |
|---|---|---|
| `mcp_sessions` | pass | With overlapping calls, cancelled callers and every kind of server failure: a pooled session's runner still holds its server, a tracked runner was not told to stop, one task creates a session; `close` and `close_all` end though servers hang, and `get` does if they answer |
| `mcp_sessions_serial` | pass | With calls for a server one at a time and nobody cancelled: the pool implements `SessionPool`, one runner per server, none lost, all closed by `close_all` |
| `mcp_client` | pass | Loads that fail, are repaired or raise, with or without cached schemas, calls that hydrate proxies side by side, cancelled turns, crashed sessions, reloads: the pool is called by one task at a time for a server, tools are complete and none passes its filter, a repair spares the tools in use, calls end |
| `tool_calls` | pass | Two calls, a rule for one and a rule for both, every rule file, mode and answer: deny rules hold and stay, questions are bounded by attempts and executions by questions, turns end |
| `tool_calls_replay` | violation | A call allowed, timed out, asked about again and refused is run once more by the replay of its first answer |
| `turn` | pass | Streams and retries, a question while another call runs or a subagent streams, a resume, Ctrl+C at any event: nothing is shown twice, a turn that ends has shown all it added, turns end |
| `toolbox` | pass | Twenty calls by agents without a sandbox, with two profiles, with a catalog, and that only delegate, tasks side by side, processes that fail, hang or outlive their call: an answered call is over, the disk is changed where the configuration says, no line is lost that was not named, stored outputs stay, messages are answered |
| `rewind` | pass | Turns that are not interrupted, compressions that keep no messages, either checkpointer: the thread implements `Conversation`, and a replay shows what the thread holds |
| `rewind_disturbed` | pass | Cancelled turns, repairs, kept messages, failures between a checkpoint and its index: no stale row, no history cut off |
| `session` | pass | Two processes, each a chat or the config command, on any of the initial directories: Ctrl+C reaches the turn that streams, the graph is the context's, the agent switched to is the one the next process starts |
| `oauth` | pass | Flows one after the other with taken ports, silent, late and foreign answers, cancellations, failed writes and two processes: a flow that waits has a server that hears, tokens survive, an answer ends the flow |
| `token_bucket` | pass | Any period gives one burst and the rate at most; a request that fits is served |

`PROJECT.json` quotes, under `findings`, the line each violation contradicts.

### What the code does otherwise

Where the code breaks a promise that would be natural, the property is stated for the
cases in which it holds, and the others are these:

- A `get` that is cancelled while its server opens leaves its runner; the next `get`
  overwrites `_tasks` and `close_all` leaves the first running (`mcp/session.py:62`), though
  it says "Close all sessions in parallel" (`:86`). One cancelled `get` therefore violates
  `NoOrphan`, `SingleRunner` and `CloseAllClosesAll`, which are checked without
  cancellation, and without a `get` during `close_all`, whose session is not closed either.
- The comments at the approval modes say that aggressive mode bypasses all rules, and active
  mode all but `always_deny` (`configs/approval.py:17-18`). The code, and the docstring of
  `_check_approval_mode_bypass` with it (`middlewares/approval.py:94-95`), keeps
  `always_deny` in force in both, and `always_ask` in active mode. `DenyRuleHolds` is what
  the code and the docstring say, in any mode; by the comment at aggressive mode, "Bypass
  all approval rules", it would not hold.
- The mode changed at a question is in force when the run is resumed: the call may bypass
  approval, and the answer "deny" is not read (`middlewares/approval.py:214`).
- The messages of failed tools never have status "error", so a transient error is not
  retried (`middlewares/retry.py:327`, `utils/render.py:144`).
- After a repair inserted a message before the user's, a rewind to it leaves it in the
  thread; a rewind to a message that a compression kept deletes the whole thread
  (`checkpointer/impl/sqlite.py:214`, `:241`). Hence the assumptions of `rewind`.
- A subagent's new model is written and reported, but the agents loaded before keep the
  old one (`configs/registry.py:366`). `GraphIsContexts` says nothing of it.
- The sandbox bindings are not in the client's hash: after a switch of agents, MCP servers
  stay in the sandboxes of the first (`mcp/factory.py:75`).
- A tool that edits a file writes back what it read: a line that a command or a worker adds
  in between is lost, and so is the edit of one of two workers
  (`tools/impl/file_system.py:274`). `TakenByRewrite` in `EditsSurvive` is this case.
- Two parallel edits of one memory file lose one (`tools/internal/memory.py:130`), and a
  memory tool in a sandbox reports a success that changes nothing (`sandboxes/worker.py:25`).
- A move writes over the file at its destination, and says so nowhere: a call that moves
  two files to one place keeps the second (`tools/impl/file_system.py:383`). A sandboxed
  tool that moves a file to a path its profile mounts nowhere moves it into the sandbox's
  own file system, which is thrown away (`sandboxes/backends/bubblewrap.py:62`).
  `EditsSurvive` names these cases; the `toolbox` run has each of them.
- Without streaming a question is never asked: the turn ends with its call unfinished
  (`cli/dispatchers/messages.py:367`).
- A rule file that does not parse counts as an empty one (`configs/approval.py:98`), and
  rule, agent and server files are written in place.
- The breaker closes after its timeout at once; the guide
  (`src/docs/RETRY_MIDDLEWARE_GUIDE.md:181`) describes a state in which one request is let
  through.
- A session's failure leaves the proxies hydrated from it dead for the rest of the session
  (`mcp/tool.py:46`), and a failed load leaves its server without tools (`mcp/client.py:208`).
- Clean-up closes the MCP client, then the checkpointer: if the first fails the second is
- When the saving of `/mcp` fails, the servers are switched in memory only: until the next
  reload the graph has other servers than the disk (`cli/handlers/mcp.py:51`), so that
  `GraphIsContexts` speaks of servers only while no write has failed.
- When closing the MCP client fails, the checkpointer is not closed
  (`cli/bootstrap/initializer.py:225`).

### Bounds, and why they are enough

- `MaxCalls` (MCPSessions) counts the calls of `get`, `close` and `close_all`. Three
  calls of two tasks on two servers reach a get, a close and a second get of one
  server in any overlap, and a runner of an earlier call beside one of a later; the
  serial run has five, for a session that is opened, fails, is opened again and closed.
  `Faults` names what servers may do: fail to open, crash, fail on exit. The serial run
  has only "open", because a session that fails on exit makes `_shutdown` raise again
  (`session.py:112`), `gather` pass it on and `close_all` return before the others
  have ended. `Overlap` is whether two calls for a server may overlap, `Cancels`
  whether callers are cancelled.
- MCPClient: a stateful server that can be repaired with two tools, and a stateless one;
  two callers, so that two tools of one server, or one tool twice, are called together;
  four configurations, so that schemas are cached under another filter, and a reload
  enables, disables or contradicts; `MaxSessions` is two sessions opened in all, the one
  before a repair and the one after it. One agent: that the client is kept when the agent
  changes is in the model, and not exercised by the run.
- ToolCalls has no bound beside the retry middleware's own `MaxRetries`: one retry, so
  that a second attempt and its question exist. Two calls are enough for "one task ends
  while the other asks", and two rules for a rule that covers both calls and one that
  covers the first. `Timed` is whether tools time out, `Switch` whether the mode is
  changed at questions, `Rerun` whether a finished task may be run again. `Retried` is one
  of the calls in `tool_calls`, whose histories grow with every retry, and both in
  `tool_calls_replay`, which turns off what would give another reason for the same
  counterexample.
- Turn: one turn (`MaxTurns`) of two model calls (`Limit`), with two calls in a message,
  of which one may start the subagent; a message of two chunks, so that a stream can be
  left in its middle; one failed attempt, one question, one event in the queue
  (`MaxQueue`), which is enough for an event to be lost. The breaker starts at any
  count. `MaxIds` is larger than what these allow.
- Toolbox: two calls, in one message or in two (`MaxCalls`, `MaxBatch`), one fault and one
  retry, so that an abandoned process meets its own retry or the other call. The tree has
  a directory, a file, a name without a file, and a link to a file outside; three agents,
  one without a sandbox and with a subagent, one bound to two profiles with a bypass, a
  double match and a tool without a match, one with a catalog. One call moves a file twice,
  the second time to where no profile lets it write, another moves two files to one name.
  Two more agents only delegate, so that two tasks run side by side: their subagents edit, or
  plan, and make two calls each (`MaxTask`), so that one task can edit between the calls of
  the other. The subagent that runs commands, beside what its agent does itself, makes one.
- Session: two processes of two sessions each, one quit timer, one failed or interrupted
  write, two agents of which one is the template's, three models, one server.
- OAuth: two ports, one connection at a time, two faults: a flow that is cancelled and a
  second disturbance of the next. One provider: others appear as ports that are taken and
  as pages that speak of another flow.
- `MaxPuts` (Rewind) counts checkpoints. A turn with two tool calls puts five, so 20
  hold several turns with rewinds and compressions between them; the disturbed run has
  10, for two turns of which the first is cancelled and repaired, and with failures at
  every put. `Fan` is the number of tool calls of a message, `Keep` the
  `messages_to_keep` of the compression.
- TokenBucket: `Horizon` is the longest time between two calls that are let through,
  long enough to fill both buckets from empty; `MaxPeriod` exceeds it, so that a period
  can span a full burst and refills; six calls of two callers are more than the bucket
  of two requests holds. Sizes and rates are small numbers: `Burst` is 100 in the code.

The runs with bounds on what happens at all (`mcp_client`, `turn`, `toolbox`, `session`,
`oauth`, `rewind`, `rewind_disturbed`, `token_bucket`) may stop at them, as the
program stops when its user does, hence `CHECK_DEADLOCK FALSE` there; elsewhere deadlock
is checked. Symmetry is used only where a run checks no liveness property.

### Fairness

- MCPSessions, `FairSpec`: the event loop runs every task that can go on, so each
  stretch of a caller, a shutdown's timer included, is weakly fair, and so is the
  unwinding of a runner that was told to stop or cancelled (`Unwind`): a server's code that
  swallowed the cancellation for good would keep `wait_for` waiting. Servers are not
  fair: `CloseEnds` holds though they hang, and `GetEnds` says that it needs them to
  answer (`ServersRespond`) because `ready.wait()` has no timeout.
- MCPClient, `FairSpec`: servers answer loads, with success or failure (weak); a caller's
  stretches are strongly fair because `asyncio.Lock` hands over in the order of waiting:
  one that waits for a lock that is freed again and again gets it.
- ToolCalls, `FairSpec`: the tool node's tasks go on, a running tool ends, with a
  result, an exception or its timeout, the dispatcher shows a question, and the user
  answers it. Cancelling and switching modes are never required.
- Turn: the dispatcher goes on, each namespace of the graph goes on, the user answers; all
  weak. Cancelling is not required.
- Toolbox, `FairSpec`: one weak fairness for all that is sure to go on: the event loop's
  calls and runs, commands, which are assumed to end, and the timeout of a worker. A
  worker's own steps are not in it: it may hang, and `CallsAnswered` needs the timeout to
  kill it.
- OAuth, `FairSpec`: the event loop runs a flow's stretches and its saves; a browser ends
  its connections, those on which it says nothing too. That the browser ever answers is
  not assumed: `AnswerReturned` begins with an answer.
- TokenBucket, `FairSpec`: time passes and each waiting caller polls again and again
  (`check_every_n_seconds`). As many calls as the bound allows are made, and so
  `Served` is about a caller whom others stop overtaking: there is no queue.
- Rewind and Session state no liveness: nothing in them waits but for the user.

## What is proved

All theorems are checked by TLAPS from the named assumptions on the constants and hold
for all their values: any servers, tools and callers, calls, rules and answers, subagents
and chunks, checkpoints, agents and files, ports and processes, sizes and rates. The
assumptions are types, that subagents are finitely many (`TurnAssumption`) and that an
absent file, a directory and one that may not be read are told apart and are no text
(`KindsAssumption`), but for three that say something of the program: a tool that works
on files is one of the built-in ones, and no memory file a call names is named like a
kept output (`BindingAssumption`); the templates have a directory (`TemplateAssumption`). Two
theorems of `RewindProofs` and four of `MCPSessionsProofs` are about constants that
satisfy a named condition, `Undisturbed` and `Serial`; each is what the run `rewind`, or
`mcp_sessions_serial`, gives the same constants.

| Module | Theorem | Says |
|---|---|---|
| `MCPSessionsProofs` | `PoolTypes`, `PooledSessionsAreHeld`, `TrackedSessionsRun`, `MutualExclusion` | the invariants of the `mcp_sessions` run, in every environment: faults, overlaps and cancellations |
| `MCPSessionsProofs` | `SerialSingleRunner`, `SerialNoOrphan`, `SerialCloseAll` | if `Serial`: one runner for each server, none lost, none left by `close_all` |
| `MCPSessionsProofs` | `SerialImplementsPool` | if `Serial`: the pool implements `SessionPool` |
| `MCPClientProofs` | `OneCallAtATime`, `ToolsAreComplete`, `RepairsSpareTools` | the invariants of the `mcp_client` run |
| `ToolCallsProofs` | `PipelineTypes`, `QuestionsAreBounded` | types, attempts up to `max_retries`, one question for each attempt |
| `ToolCallsProofs` | `DenyRulesHold`, `DenialsPersist` | the action properties of the `tool_calls` run |
| `ToolCallsProofs` | `RepeatsAreBounded` | `RepeatsBounded` of the `tool_calls` run, for any calls and `max_retries` |
| `ToolboxProofs` | `AnsweredCallsAreOver`, `OutputsAreKept`, `ToolsRunAsBound`, `EditsOutlive` | the invariants and the action properties of the `toolbox` run |
| `SessionProofs` | `InterruptsReach`, `GraphsFollowContext`, `SwitchesPersist` | the properties of the `session` run |
| `RewindProofs` | `IndexIsSound`, `HistoryIsWhole` | the invariants of the `rewind_disturbed` run, for both checkpointers |
| `RewindProofs` | `RewindsShowThread`, `ThreadImplementsConversation` | if `Undisturbed`: the properties of the `rewind` run |
| `OAuthProofs` | `WaitingIsHeard`, `TokensStay` | the safety properties of the `oauth` run |
| `TurnProofs` | `MessagesShownOnce`, `AddedMessagesShown` | the invariants of the `turn` run |
| `TurnProofs` | `BucketsStayWithinCapacity`, `RateIsKept` | the two invariants of the `token_bucket` run |

Each safety theorem follows from an inductive invariant in three lemmas: the initial state
has it, every step keeps it, it implies the property. It is `IInv`, with `SInv`, `TInv`,
`RInv`, `Outputs` or `DiskInv` beside it where a second group of properties needs more, and
`BucketInv` for the limiter. What it adds:

- MCPSessions: a runner number not yet used is untouched (`Fresh`); a caller that waits
  for a lock has a number of its own that no runner uses yet (`Reserved`), without which
  the runner it makes might be one that was shut down; and a lock is held exactly while
  its holder waits for its runner (`LockHeld`), from which `OneCreator` follows.
- MCPSessions, serial: busy tasks have their servers for themselves (`Alone`), nobody
  waits for a lock (`Stages`), and a live runner is being created, in the pool, or being
  closed by somebody who waits for it (`Places`); two live runners of one server would
  need two such tasks. `Failures` is where `Faults \subseteq {"open"}` comes in: a runner
  that failed to open is forgotten by the `get` that made it before a `close` can find it,
  so no `_shutdown` raises and no `gather` ends early. The refinement maps each stretch to
  a step of `SessionPool` or to none.
- MCPClient: the tasks that load servers do so before the graph runs (`ServersLoad`), a
  caller's only while it runs and with the server's lock (`CallersLock`); so two tasks at
  the pool for one server cannot meet (`Alone`). `RepairSpares` needs what the double look
  at `_live` gives: a server that is being loaded is not known (`LoadsUnknown`), and one
  with a hydrated proxy is (`LoadedKnown`); that the first loads begin with nothing known
  is `Phases`, which the reuse of a client makes necessary. `OneCallAtATime` is the
  serialisation that `Serial` assumes, except that Ctrl+C does cancel callers.
  `ToolsComplete` rests on the cache: an entry holds what the filter *in its hash* lets
  through (`Saved`), so an entry whose hash is that of the connection has its tools; a
  server that was reached has all its tools or none (`Reached`), and until the loads are
  over the client is not ready (`Unready`).
- ToolCalls: the questions a task has put are no more than its answers, and no more
  than its attempts, and a task that asks has used all its answers up (`Asked`): only
  so does a new answer belong to the attempt that asked for it. For `RepeatsBounded` the
  executions so far are those of the rounds before, and `Made` of the current one: one for
  each attempt before the current, and one if that has got to the tool.
- Turn: `_process_update_chunk` draws what `rendered_messages` has not marked, and a stream
  that is finalized is drawn without a look at the marks; that nothing is drawn twice
  is thus a matter of the order of events. `LineInv` is that order, in the queue and of
  what a namespace is about to send: for each namespace, what streams, then the events
  of the queue, then the message or the results that come, by message, the chunks of one
  before its update and that before its results (`Before`), and nothing of them on the
  screen but results that are marked (`Fits`). Namespaces share no message (`ApartInv`),
  and a new id is new (`BoundInv`). For wholeness, a chunk or an update comes where the
  chunks before it have (`ChainInv`), so what a stream has gathered when the update
  closes it is the message; the header of a result is pending or comes before it
  (`HeadersInv`), and what is done is shown or in the queue (`DoneInv`). What an interrupt
  drops is no message of the agent's: a call that asks keeps the agent's graph in its tool
  node, also when it is a subagent's, because a call waits for the subagent (`SubsInv`);
  so the agent has sent only results since the interrupt (`AsksInv`), results are in
  the thread only when every call is done, and those come again with the answer. Hence
  `AddedInv`: what was added is on the screen, or in the queue before any interrupt. Without
  a stream, that there is one latest message, not yet shown, is `LatestInv`.
- Toolbox: a process that nobody gave up is the only such one of a call that waits, which is
  inductive once the runs are the agent's and those of the tasks that wait for them
  (`RunsListed`): a task that ends or is cancelled takes its calls with it. A process runs
  where the agent's map sends its call, a worker with a view that writes within its
  profile's mounts (`RunsWhereSent`). The map is the configuration's (`AgentIsConfigs`), and
  a chain of lemmas shows what it does with the name of a tool that matches no profile, one,
  or several, also when it is called through the catalog. `Outputs` says that the files kept
  under calls' numbers have the outputs of these calls, those in an update that is not
  merged yet included (`Right`, part of `IsCall`): merging updates of calls that ran side by
  side then loses none, which is an induction over the calls of the step (`MergeRight`). For
  `EditsSurvive` each tool has a lemma that says what becomes of the lines it finds, and
  `EffectKeeps` joins them; moves are an induction over those of the call (`MovesKeep`): a
  line is where it was or where an earlier move went, and the next move writes over it only
  if two name one place. `DiskInv` adds what a process knows: its view is everything or what
  its profile mounted when it started, and what it holds between reading and writing is the
  text it read of its call's file, but for the lines its call edits and with what it adds
  (`Kept`), whoever else wrote there since.
- Session: each handler was put over one installed earlier, and from "build" to "close" the
  session's own is installed (`Handlers`), so that following the handlers ends, and ends
  at the one that cancels. The other two rest on `Config`: what is loaded is what the
  directory holds, which is complete; so a load after an update cannot fail, and the graph
  is built from what was chosen (`Graph`). `Chosen` is the state of the directory in the
  middle of a switch, when some agent files are still to be written.
- Rewind: messages are only added from parent to child, and while the index has a row,
  a checkpoint that lost its parent was not indexed (`Family`). Deleting by count then
  deletes a checkpoint's indexed descendants with it. Without a row, or without an index,
  the checkpoints are one chain (`Chain`), and the history, followed from the latest back,
  is all of them (`HistoryIsAll`).
- Rewind, undisturbed: later checkpoints begin with the messages of the earlier ones
  (`Line`), all with messages are indexed (`Full`), and a message of the user's was said
  when the model had answered, with a checkpoint of what was before it (`Asked`,
  `Places`): the target of a replay exists, and its messages are those that are left on
  the screen. Each part of `Undisturbed` is needed: a cancelled turn makes a repair insert
  messages before the user's, a failed indexing hides a checkpoint, and after a compression
  that keeps a message of the user's no checkpoint ends before it.
- OAuth: a server listens only for a flow that waits (`OpenWaits`), and one that counts as
  running and is closed, as a cancelled `stop` leaves it, has a future that is done
  (`ClosedIsDone`), so that a flow which takes it over does not wait. A file that is about
  to replace the tokens is whole (`FileInv`), and a flow's own save is under way only
  while the flow waits for it (`SavesWait`).
- TokenBucket: what was given in the period *and what the next poll would find* are
  within the bound together (`Account`). The bound alone is not inductive: a full bucket
  late in a period that already gave the limit would break it.

Four definitions are recursive functions over numbers: the receiver of an interrupt, the
history of a thread, the merge of a step's updates, the moves of a call. The library's
induction theorems take an operator for a parameter, which the provers do not instantiate;
the proofs use that every nonempty set of numbers has a least element (`Least`, from
`WFMin`): for the existence of the function, by the least number up to which there is none,
and for what it returns, by the least number at which it would not. `TurnProofs` has the
same for the greatest number below a bound (`Greatest`): the latest message of an invoked
turn.

Only model-checked: all liveness properties (`CloseEnds`, `GetEnds`, `CallsEnd`, `Served`,
`TurnEnds`, `CallsAnswered`, `AnswerReturned`), which are out of the prover's reach. Every
invariant and every action property of a passing run is a theorem.

## What is not modelled

`PROJECT.json` gives the reason for each part. Within the parts that are: the rule
file's text and the matching of its patterns (`ToolCalls` has the set of calls a rule
covers); logging; the LangGraph runtime but for what is said above; the wall clock
being set back; the content of messages; token counts (`Turn` has which messages make a
compression due); namespaces of subgraphs and several threads in one checkpointer;
interactive selectors, `/resume` among them; model calls that overlap, which only the
server mode has; the web tool, `think` and MCP tools in `Toolbox`; seatbelt; a file's
write in several steps in `Configs`; saves of one process to one token file that overlap.

Hazards the model does not reach: the shared temporary name of `_atomic_write`
(`configs/utils.py:54`); the rewriting of `config.mcp.json` at every start
(`configs/registry.py:136`); the token counts that a rewind to the first message keeps
(`cli/handlers/replay.py:72`), and that a subagent's messages overwrite
(`cli/dispatchers/messages.py:1445`); previews of two calls of one tool that are taken for
one (`cli/dispatchers/messages.py:918`); a worker that does not read its request, which is
written before the timeout starts (`sandboxes/backends/base.py:214`); a hidden path that
does not exist when the worker starts (`sandboxes/backends/bubblewrap.py:126`).

## Plan

1. The rule file and the configuration files as files that are written in steps, with a
   crash between them.
2. Two providers in `OAuth`, two agents in the `mcp_client` run.
