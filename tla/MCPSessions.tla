---------------------------- MODULE MCPSessions ----------------------------
(* The pool of persistent MCP sessions of mcp/session.py.  A coroutine runs    *)
(* without interruption from one await to the next, so every action below is   *)
(* one such stretch of get, _create, runner, close, close_all or _shutdown.    *)
(* A runner task is named by the number of the get call that created it.       *)
EXTENDS Naturals, FiniteSets

CONSTANTS Servers,   \* configured stateful servers
          Procs,     \* tasks that call the pool
          None,      \* no server, no task
          MaxCalls,  \* bound: calls made on the pool
          Faults,    \* ways a server's context manager may fail
          Overlap,   \* TRUE: calls of different tasks overlap on a server
          Cancels    \* TRUE: a task may be cancelled while get awaits

ASSUME PoolAssumption ==
  /\ None \notin Servers \cup Procs
  /\ MaxCalls \in Nat
  /\ Faults \subseteq {"open", "crash", "exit"}
  /\ Overlap \in BOOLEAN /\ Cancels \in BOOLEAN

VARIABLES sessions,   \* _sessions: server -> runner whose session is pooled, or 0
          tasks,      \* _tasks: server -> tracked runner, or 0
          lock,       \* _locks: server -> holder
          closeLock,  \* _close_lock: holder
          runner,     \* runner tasks, their stop event and pending cancellation
          shut,       \* _shutdown coroutines, at most one for a runner
          proc,       \* the tasks' calls and their outcomes
          calls       \* calls made so far
pool == <<sessions, tasks, lock, closeLock, runner, shut>>
vars == <<pool, proc, calls>>

Calls == 1..MaxCalls
Done == {"ended", "failed", "cancelled"}
Live == {"opening", "open", "exiting", "crashing"}

Unborn == [at |-> "unborn", server |-> None, stop |-> FALSE, cancel |-> FALSE]
NoShutdown == [at |-> "none", by |-> None]
NoCall == [at |-> "idle", op |-> "none", server |-> None, call |-> 0,
           out |-> "none", got |-> 0]

Init ==
  /\ sessions = [s \in Servers |-> 0]
  /\ tasks = [s \in Servers |-> 0]
  /\ lock = [s \in Servers |-> None]
  /\ closeLock = None
  /\ runner = [r \in Calls |-> Unborn]
  /\ shut = [r \in Calls |-> NoShutdown]
  /\ proc = [p \in Procs |-> NoCall]
  /\ calls = 0

-----------------------------------------------------------------------------
(* Calls *)

Call(p, op, s) == [at |-> "idle", op |-> op, server |-> s, call |-> calls + 1,
                   out |-> "none", got |-> 0]

\* A call on the servers S begins; unless calls overlap, nothing else is busy there.
Begin(p, S) ==
  /\ proc[p].at = "idle"
  /\ Overlap \/ \A q \in Procs : proc[q].at = "idle" \/ proc[q].server \in Servers \ S
  /\ calls < MaxCalls
  /\ calls' = calls + 1

\* A call that awaits, returns (a runner's session, for get) or raises.
Await(c, at) == [c EXCEPT !.at = at]
Return(c, r) == [c EXCEPT !.at = "idle", !.out = "returned", !.got = r]
Raise(c) == [c EXCEPT !.at = "idle", !.out = "raised"]

\* The call goes on as c without touching the pool.
Answer(p, c) == proc' = [proc EXCEPT ![p] = c] /\ UNCHANGED pool

\* Entries of _tasks.
TrackLate(s, r) == UNCHANGED tasks  \* mutant: the entry is made after the first await
Track(s, r) == tasks' = [tasks EXCEPT ![s] = r]
UntrackNothing(s) == UNCHANGED tasks  \* mutant: get(server) for pop(server)
Untrack(s) == tasks' = [tasks EXCEPT ![s] = 0]

\* _create up to its first await, with the lock of the server held.
Create(p, c) ==
  /\ lock' = [lock EXCEPT ![c.server] = p]
  /\ runner' = [runner EXCEPT ![c.call] = [Unborn EXCEPT !.at = "opening", !.server = c.server]]
  /\ Track(c.server, c.call)
  /\ proc' = [proc EXCEPT ![p] = Await(c, "ready")]
  /\ UNCHANGED <<sessions, closeLock, shut>>

Obtain(p, c) ==
  \/ sessions[c.server] # 0 /\ Answer(p, Return(c, sessions[c.server]))
  \/ sessions[c.server] = 0 /\ Create(p, c)

\* asyncio.Lock is handed over in order: a newcomer does not overtake those waiting.
LockPerCall(s) == TRUE  \* mutant: every call makes its own lock
LockFree(s) ==
  lock[s] = None /\ \A p \in Procs : ~(proc[p].at = "lock" /\ proc[p].server = s)

Get(p, s) ==
  LET c == Call(p, "get", s) IN
  /\ Begin(p, {s})
  /\ \/ (sessions[s] # 0 \/ LockFree(s)) /\ Obtain(p, c)
     \/ sessions[s] = 0 /\ ~LockFree(s) /\ Answer(p, Await(c, "lock"))

GetLocked(p) ==
  /\ proc[p].at = "lock" /\ lock[proc[p].server] = None
  /\ Obtain(p, proc[p])
  /\ UNCHANGED calls

\* The runner has set its ready event: with a session stored, or with its error.
ReadyOnSuccess(r) == runner[r].at \in {"open", "exiting", "crashing", "ended"}  \* mutant
Ready(r) == runner[r].at \notin {"unborn", "opening"}

\* _create after ready.wait(): the runner's error, a session that is gone, or one.
GetReady(p) ==
  LET c == proc[p]
      s == c.server
  IN
  /\ c.at = "ready" /\ Ready(c.call)
  /\ lock' = [lock EXCEPT ![s] = None]
  /\ \/ /\ runner[c.call].at \in {"failed", "cancelled"}
        /\ Untrack(s)
        /\ proc' = [proc EXCEPT ![p] = Raise(c)]
     \/ /\ runner[c.call].at \notin {"failed", "cancelled"}
        /\ proc' = [proc EXCEPT ![p] = IF sessions[s] = 0 THEN Raise(c)
                                                          ELSE Return(c, sessions[s])]
        /\ UNCHANGED tasks
  /\ UNCHANGED <<sessions, closeLock, runner, shut, calls>>

\* The awaiting task is cancelled (Ctrl+C, a tool timeout): the lock is released,
\* the runner it created is not told.
CancelGet(p) ==
  LET c == proc[p] IN
  /\ Cancels
  /\ c.at \in {"lock", "ready"}
  /\ proc' = [proc EXCEPT ![p] = [c EXCEPT !.at = "idle", !.out = "cancelled"]]
  /\ lock' = IF c.at = "ready" THEN [lock EXCEPT ![c.server] = None] ELSE lock
  /\ UNCHANGED <<sessions, tasks, closeLock, runner, shut, calls>>

-----------------------------------------------------------------------------
(* The runner *)

\* The runner returns or raises: its finally clause pops the server's session.
FinishPooled(r, at) ==  \* mutant: no finally clause
  runner' = [runner EXCEPT ![r].at = at] /\ UNCHANGED sessions
FinishClearing(r, at) ==  \* mutant: clear() for pop(server)
  runner' = [runner EXCEPT ![r].at = at] /\ sessions' = [s \in Servers |-> 0]
Finish(r, at) ==
  /\ runner' = [runner EXCEPT ![r].at = at]
  /\ sessions' = [sessions EXCEPT ![runner[r].server] = 0]

OpenedUnpooled(r) ==  \* mutant: the session is not stored
  /\ runner[r].at = "opening" /\ ~runner[r].cancel
  /\ runner' = [runner EXCEPT ![r].at = IF runner[r].stop THEN "exiting" ELSE "open"]
  /\ UNCHANGED sessions
Opened(r) ==
  /\ runner[r].at = "opening" /\ ~runner[r].cancel
  /\ sessions' = [sessions EXCEPT ![runner[r].server] = r]
  /\ runner' = [runner EXCEPT ![r].at = IF runner[r].stop THEN "exiting" ELSE "open"]

Stopped(r) ==
  /\ runner[r].at = "open" /\ runner[r].stop
  /\ runner' = [runner EXCEPT ![r].at = "exiting"]
  /\ UNCHANGED sessions

Exited(r) ==
  /\ runner[r].at = "exiting" /\ ~runner[r].cancel
  /\ Finish(r, "ended")

\* The context manager fails on entry, while the session is up, or on exit.
OpenFailed(r) ==
  /\ "open" \in Faults
  /\ runner[r].at = "opening" /\ ~runner[r].cancel
  /\ Finish(r, "failed")

Crashed(r) ==
  /\ "crash" \in Faults
  /\ runner[r].at = "open"
  /\ runner' = [runner EXCEPT ![r].at = "crashing"]
  /\ UNCHANGED sessions

ExitFailed(r) ==
  /\ runner[r].at = "crashing" \/ ("exit" \in Faults /\ runner[r].at = "exiting")
  /\ Finish(r, "failed")

Cancelled(r) ==
  /\ runner[r].cancel /\ runner[r].at \in Live
  /\ Finish(r, "cancelled")

Respond(r) == Opened(r) \/ OpenFailed(r)
Unwind(r) == Stopped(r) \/ Cancelled(r)
Leave(r) == Exited(r) \/ ExitFailed(r)

Runner(r) ==
  /\ Respond(r) \/ Unwind(r) \/ Leave(r) \/ Crashed(r)
  /\ UNCHANGED <<tasks, lock, closeLock, shut, proc, calls>>

-----------------------------------------------------------------------------
(* Closing *)

Close(p, s) ==
  LET c == Call(p, "close", s)
      r == tasks[s]
  IN
  /\ Begin(p, {s})
  /\ \/ r = 0 /\ Answer(p, Return(c, 0))
     \/ /\ r # 0
        /\ Untrack(s)
        /\ runner' = [runner EXCEPT ![r].stop = TRUE]
        /\ shut' = [shut EXCEPT ![r] = [at |-> "waiting", by |-> p]]
        /\ proc' = [proc EXCEPT ![p] = Await(c, "closing")]
        /\ UNCHANGED <<sessions, lock, closeLock>>

\* close_all with _close_lock held: one _shutdown is created for each tracked runner.
Gather(p, c) ==
  LET tracked == {tasks[s] : s \in Servers} \ {0} IN
  \/ tracked = {} /\ Answer(p, Return(c, 0))
  \/ /\ tracked # {}
     /\ tasks' = [s \in Servers |-> 0]
     /\ closeLock' = p
     /\ shut' = [r \in Calls |-> IF r \in tracked THEN [at |-> "asked", by |-> p] ELSE shut[r]]
     /\ proc' = [proc EXCEPT ![p] = Await(c, "gather")]
     /\ UNCHANGED <<sessions, lock, runner>>

CloseAll(p) ==
  LET c == Call(p, "close_all", None) IN
  /\ Begin(p, Servers)
  /\ \/ closeLock = None /\ Gather(p, c)
     \/ closeLock # None /\ Answer(p, Await(c, "closeLock"))

CloseAllLocked(p) ==
  /\ proc[p].at = "closeLock" /\ closeLock = None
  /\ Gather(p, proc[p])
  /\ UNCHANGED calls

ShutdownStart(r) ==
  /\ shut[r].at = "asked"
  /\ shut' = [shut EXCEPT ![r].at = "waiting"]
  /\ runner' = [runner EXCEPT ![r].stop = TRUE]

NoTimeout(r) == FALSE  \* mutant: "await task" for wait_for
\* wait_for gives up on the runner, cancels it and waits for it to end.
ShutdownTimeout(r) ==
  /\ shut[r].at = "waiting"
  /\ runner[r].at \in Live /\ ~runner[r].cancel
  /\ runner' = [runner EXCEPT ![r].cancel = TRUE]
  /\ UNCHANGED shut

ShutdownNoWait(r) ==  \* mutant: the runner is told to stop and not awaited
  shut[r].at = "waiting" /\ shut' = [shut EXCEPT ![r].at = "ok"] /\ UNCHANGED runner
\* A runner's own exception is logged and then raised again by "await task".
ShutdownDone(r) ==
  /\ shut[r].at = "waiting" /\ runner[r].at \in Done
  /\ shut' = [shut EXCEPT ![r].at = IF runner[r].at = "failed" THEN "raised" ELSE "ok"]
  /\ UNCHANGED runner

Shutdown(r) ==
  /\ ShutdownStart(r) \/ ShutdownTimeout(r) \/ ShutdownDone(r)
  /\ UNCHANGED <<sessions, tasks, lock, closeLock, proc, calls>>

ShutdownsOf(p) == {r \in Calls : shut[r].by = p}

\* gather returns when every _shutdown has, or raises the first exception and
\* leaves the others running.
CloseReturns(p) ==
  /\ proc[p].at \in {"closing", "gather"}
  /\ \/ /\ \A r \in ShutdownsOf(p) : shut[r].at = "ok"
        /\ proc' = [proc EXCEPT ![p] = Return(@, 0)]
        /\ sessions' = IF proc[p].at = "gather" THEN [s \in Servers |-> 0] ELSE sessions
     \/ /\ \E r \in ShutdownsOf(p) : shut[r].at = "raised"
        /\ proc' = [proc EXCEPT ![p] = Raise(@)]
        /\ UNCHANGED sessions
  /\ shut' = [r \in Calls |-> IF shut[r].by = p THEN [shut[r] EXCEPT !.by = None] ELSE shut[r]]
  /\ closeLock' = IF proc[p].at = "gather" THEN None ELSE closeLock
  /\ UNCHANGED <<tasks, lock, runner, calls>>

-----------------------------------------------------------------------------
\* The bound on calls is used up and every call and task has come to rest.
Finished ==
  /\ calls = MaxCalls
  /\ \A p \in Procs : proc[p].at = "idle"
  /\ \A r \in Calls : runner[r].at \in Done \cup {"unborn", "open"}
  /\ UNCHANGED vars

Next ==
  \/ \E p \in Procs, s \in Servers : Get(p, s) \/ Close(p, s)
  \/ \E p \in Procs : GetLocked(p) \/ GetReady(p) \/ CancelGet(p)
  \/ \E p \in Procs : CloseAll(p) \/ CloseAllLocked(p) \/ CloseReturns(p)
  \/ \E r \in Calls : Runner(r) \/ Shutdown(r)
  \/ Finished

Spec == Init /\ [][Next]_vars

\* The event loop runs every coroutine that is ready, delivers a cancellation and
\* fires the timer of wait_for.  Nothing is assumed of the servers: one may never
\* finish opening or closing.  Nobody has to call, cancel or crash.
LoopFairness ==
  /\ \A p \in Procs : /\ WF_vars(GetLocked(p)) /\ WF_vars(GetReady(p))
                      /\ WF_vars(CloseAllLocked(p)) /\ WF_vars(CloseReturns(p))
  /\ \A r \in Calls : WF_vars(Runner(r) /\ Unwind(r)) /\ WF_vars(Shutdown(r))

FairSpec == Spec /\ LoopFairness

\* Servers that do come back, with a session or an error, from being opened.
ServersRespond == \A r \in Calls : WF_vars(Runner(r) /\ Respond(r))

-----------------------------------------------------------------------------
(* Properties *)

RunnerState == [at : {"unborn"} \cup Live \cup Done, server : Servers \cup {None},
                stop : BOOLEAN, cancel : BOOLEAN]
ShutdownState == [at : {"none", "asked", "waiting", "ok", "raised"},
                  by : Procs \cup {None}]
CallState == [at : {"idle", "lock", "ready", "closing", "closeLock", "gather"},
              op : {"none", "get", "close", "close_all"},
              server : Servers \cup {None}, call : 0..MaxCalls,
              out : {"none", "returned", "raised", "cancelled"}, got : 0..MaxCalls]

\* Every variable has the values its declaration says.
TypeOK ==
  /\ sessions \in [Servers -> 0..MaxCalls]
  /\ tasks \in [Servers -> 0..MaxCalls]
  /\ lock \in [Servers -> Procs \cup {None}]
  /\ closeLock \in Procs \cup {None}
  /\ runner \in [Calls -> RunnerState]
  /\ shut \in [Calls -> ShutdownState]
  /\ proc \in [Procs -> CallState]
  /\ calls \in 0..MaxCalls

\* A pooled session is one whose runner is still inside the server's context
\* manager: whatever was closed, cancelled or failed, and whoever popped it, get
\* never finds a session in _sessions whose transport has been torn down.
PooledSessionIsHeld ==
  \A s \in Servers : sessions[s] # 0 =>
    /\ runner[sessions[s]].server = s
    /\ runner[sessions[s]].at \in {"open", "exiting", "crashing"}

\* A runner that close or close_all can still find in _tasks has not been told to
\* stop, so no session is shut down by two callers.
TrackedIsNotShutDown ==
  \A s \in Servers : tasks[s] # 0 =>
    /\ runner[tasks[s]].server = s
    /\ ~runner[tasks[s]].stop
    /\ shut[tasks[s]].at = "none"

\* Two tasks are never inside _create for the same server, however calls, closes
\* and cancellations interleave.
OneCreator ==
  \A p, q \in Procs :
    proc[p].at = "ready" /\ proc[q].at = "ready" /\ proc[p].server = proc[q].server
      => p = q

\* A server has one live runner at most: no second process of an MCP server runs
\* beside the one the pool knows.
SingleRunner ==
  \A r, q \in Calls :
    runner[r].at \in Live /\ runner[q].at \in Live /\ runner[r].server = runner[q].server
      => r = q

\* Every live runner can still be closed: it is tracked or being shut down.
NoOrphan ==
  \A r \in Calls : runner[r].at \in Live =>
    (\E s \in Servers : tasks[s] = r) \/ shut[r].at \in {"asked", "waiting"}

Over(p) == proc'[p] # proc[p] /\ proc'[p].at = "idle"

\* When close_all is over, whether it returns or raises, no session is left running.
CloseAllClosesAll ==
  [][\A p \in Procs : Over(p) /\ proc'[p].op = "close_all" =>
       \A r \in Calls : runner'[r].at \notin Live]_vars

\* A caller of close or close_all gets control back, even when servers hang.
CloseEnds ==
  \A p \in Procs : proc[p].at \in {"closing", "closeLock", "gather"} ~> proc[p].at = "idle"

\* A caller of get gets a session or an error when servers answer.
GetEnds ==
  ServersRespond => \A p \in Procs : proc[p].at \in {"lock", "ready"} ~> proc[p].at = "idle"

-----------------------------------------------------------------------------
\* The pool as its callers may think of it.
Pool == INSTANCE SessionPool
          WITH Sessions <- Calls, current <- sessions,
               over <- {r \in Calls : runner[r].at \in Done}

\* While calls for a server do not overlap and nobody is cancelled, the pool is a
\* SessionPool: no session is overwritten, dropped or popped by another's runner.
PoolSpec == Pool!Spec
=============================================================================
