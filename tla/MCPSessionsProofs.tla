------------------------- MODULE MCPSessionsProofs -------------------------
(* Safety of the session pool for any servers, tasks, faults, overlap of calls *)
(* and cancellations; then what it promises a caller while calls are serial.   *)
EXTENDS MCPSessions, TLAPS

\* Runner numbers are call numbers: one that no call has used is untouched, and
\* the one a waiting get will use is reserved for it.
Fresh ==
  \A r \in Calls :
    /\ r > calls => runner[r].at = "unborn"
    /\ runner[r].at = "unborn" => runner[r] = Unborn /\ shut[r].at = "none"

Reserved ==
  \A p \in Procs :
    /\ proc[p].at \in {"lock", "ready"} =>
         proc[p].server \in Servers /\ proc[p].call \in 1..calls
    /\ proc[p].at = "lock" => runner[proc[p].call].at = "unborn"
    /\ \A q \in Procs : 
         proc[p].at = "lock" /\ proc[q].at = "lock" /\ proc[p].call = proc[q].call => p = q

\* The lock of a server is held exactly while a task waits for the runner it created.
LockHeld ==
  \A s \in Servers, p \in Procs :
    lock[s] = p <=> proc[p].at = "ready" /\ proc[p].server = s

IInv ==
  /\ TypeOK
  /\ PooledSessionIsHeld
  /\ TrackedIsNotShutDown
  /\ Fresh
  /\ Reserved
  /\ LockHeld

USE PoolAssumption

LEMMA InitIInv == Init => IInv
  BY DEF Init, IInv, TypeOK, PooledSessionIsHeld, TrackedIsNotShutDown, Fresh, Reserved,
         LockHeld, Calls, RunnerState, ShutdownState, CallState, Unborn, NoShutdown, NoCall

-----------------------------------------------------------------------------
(* Calls *)

\* A record of a call that is about to begin, or goes on after an await.
LEMMA CallTypes ==
  ASSUME NEW c \in CallState, NEW r \in 0..MaxCalls,
         NEW at \in {"idle", "lock", "ready", "closing", "closeLock", "gather"}
  PROVE  /\ Await(c, at) \in CallState /\ Await(c, at) = [c EXCEPT !.at = at]
         /\ Return(c, r) \in CallState /\ Return(c, r).at = "idle"
         /\ Raise(c) \in CallState /\ Raise(c).at = "idle"
  BY DEF CallState, Await, Return, Raise

\* A task that waits neither for a lock nor for a runner after the step, and did not
\* wait for a runner before it, leaves reservations and locks as they are.
LEMMA IdleStep ==
  ASSUME IInv, NEW p \in Procs, NEW c \in CallState,
         c.at \notin {"lock", "ready"}, proc[p].at # "ready",
         proc' = [proc EXCEPT ![p] = c],
         calls' \in calls..MaxCalls,
         UNCHANGED lock,
         \A r \in Calls : runner[r].at = "unborn" => runner'[r].at = "unborn"
  PROVE  Reserved' /\ LockHeld' /\ proc' \in [Procs -> CallState]
  <1>1. proc' \in [Procs -> CallState]
    BY DEF IInv, TypeOK
  <1>2. calls \in Nat /\ calls' \in Nat /\ calls <= calls' /\ calls' <= MaxCalls
    BY DEF IInv, TypeOK
  <1>3. Reserved'
    <2>1. proc'[p] = c /\ \A q \in Procs : q # p => proc'[q] = proc[q]
      BY DEF IInv, TypeOK
    <2>2. \A k \in 1..calls : k \in Calls /\ k \in 1..calls'
      BY <1>2 DEF Calls
    <2>3. QED
      BY <2>1, <2>2 DEF IInv, Reserved
  <1>4. LockHeld'
    BY <1>1 DEF IInv, TypeOK, LockHeld, CallState
  <1>5. QED
    BY <1>1, <1>3, <1>4

LEMMA CreateIInv ==
  ASSUME IInv, NEW p \in Procs, NEW c \in CallState,
         c.server \in Servers, c.call \in Calls, lock[c.server] = None,
         proc[p].at \in {"idle", "lock"}, runner[c.call].at = "unborn",
         \A q \in Procs : q # p /\ proc[q].at = "lock" => proc[q].call # c.call,
         calls' \in calls..MaxCalls, c.call <= calls',
         Create(p, c)
  PROVE  IInv'
  <1> DEFINE born == [Unborn EXCEPT !.at = "opening", !.server = c.server]
  <1>1. /\ proc' = [proc EXCEPT ![p] = Await(c, "ready")]
        /\ Await(c, "ready") \in CallState /\ Await(c, "ready") = [c EXCEPT !.at = "ready"]
    BY CallTypes DEF Create
  <1>2. calls \in Nat /\ calls' \in Nat /\ calls <= calls' /\ calls' <= MaxCalls
    BY DEF IInv, TypeOK
  <1>3. born \in RunnerState /\ born.server = c.server /\ born.at = "opening" /\ ~born.stop
    BY DEF RunnerState, Unborn, Live
  <1>4. runner' = [runner EXCEPT ![c.call] = born] /\ runner \in [Calls -> RunnerState]
    BY DEF Create, Track, IInv, TypeOK
  <1>5. TypeOK'
    BY <1>1, <1>2, <1>3, <1>4 DEF Create, Track, IInv, TypeOK, Calls
  <1>6. PooledSessionIsHeld'
    BY <1>4 DEF Create, Track, IInv, TypeOK, PooledSessionIsHeld, Calls
  <1>7. TrackedIsNotShutDown'
    <2>1. shut[c.call].at = "none" /\ runner[c.call].server = None
      BY DEF IInv, Fresh, Unborn
    <2>2. \A s \in Servers : tasks[s] # 0 => tasks[s] # c.call
      BY <2>1 DEF IInv, TrackedIsNotShutDown
    <2>3. QED
      BY <1>3, <1>4, <2>1, <2>2 DEF Create, Track, IInv, TypeOK, TrackedIsNotShutDown, Calls
  <1>8. Fresh'
    BY <1>2, <1>3, <1>4 DEF Create, Track, IInv, TypeOK, Fresh, Calls
  <1>9. Reserved'
    <2>1. \A q \in Procs : q # p => proc'[q] = proc[q]
      BY <1>1 DEF IInv, TypeOK
    <2>2. proc'[p].at = "ready" /\ proc'[p].server = c.server /\ proc'[p].call = c.call
      BY <1>1 DEF IInv, TypeOK, CallState
    <2>3. \A r \in Calls : r # c.call => runner'[r] = runner[r]
      BY <1>4
    <2>4. QED
      BY <1>2, <2>1, <2>2, <2>3 DEF IInv, Reserved, Calls
  <1>10. LockHeld'
    <2>1. \A q \in Procs : q # p => proc'[q] = proc[q]
      BY <1>1 DEF IInv, TypeOK
    <2>2. proc'[p].at = "ready" /\ proc'[p].server = c.server
      BY <1>1 DEF IInv, TypeOK, CallState
    <2>3. QED
      BY <2>1, <2>2 DEF Create, Track, IInv, TypeOK, LockHeld
  <1>11. QED
    BY <1>5, <1>6, <1>7, <1>8, <1>9, <1>10 DEF IInv

LEMMA CallFields ==
  ASSUME TypeOK, calls < MaxCalls, NEW p \in Procs,
         NEW op \in {"get", "close", "close_all"}, NEW s \in Servers \cup {None}
  PROVE  LET c == Call(p, op, s) IN
           c \in CallState /\ c.at = "idle" /\ c.server = s /\ c.call = calls + 1
  BY DEF Call, CallState, TypeOK

\* The steps that only read the pool and answer, or queue, the caller.
LEMMA AnswerIInv ==
  ASSUME IInv, NEW p \in Procs, NEW c \in CallState,
         c.at \notin {"lock", "ready"}, proc[p].at # "ready",
         calls' \in calls..MaxCalls, Answer(p, c)
  PROVE  IInv'
  <1>1. proc' = [proc EXCEPT ![p] = c] /\ UNCHANGED <<sessions, tasks, lock, closeLock, runner, shut>>
    BY DEF Answer, pool
  <1>2. Reserved' /\ LockHeld' /\ proc' \in [Procs -> CallState]
    BY <1>1, IdleStep
  <1>3. calls \in Nat /\ calls' \in Nat /\ calls <= calls' /\ calls' <= MaxCalls
    BY DEF IInv, TypeOK
  <1>4. TypeOK'
    BY <1>1, <1>2, <1>3 DEF IInv, TypeOK
  <1>5. PooledSessionIsHeld' /\ TrackedIsNotShutDown'
    BY <1>1 DEF IInv, PooledSessionIsHeld, TrackedIsNotShutDown
  <1>6. Fresh'
    BY <1>1, <1>3 DEF IInv, Fresh, Calls
  <1>7. QED
    BY <1>2, <1>4, <1>5, <1>6 DEF IInv

\* Under the lock, or on the fast path: the pooled session or a new runner.
LEMMA ObtainIInv ==
  ASSUME IInv, NEW p \in Procs, NEW c \in CallState,
         c.server \in Servers, c.call \in Calls, proc[p].at \in {"idle", "lock"},
         sessions[c.server] # 0 \/ lock[c.server] = None,
         runner[c.call].at = "unborn",
         \A q \in Procs : q # p /\ proc[q].at = "lock" => proc[q].call # c.call,
         calls' \in calls..MaxCalls, c.call <= calls',
         Obtain(p, c)
  PROVE  IInv'
  <1>1. CASE Answer(p, Return(c, sessions[c.server]))
    <2>1. sessions[c.server] \in 0..MaxCalls
      BY DEF IInv, TypeOK
    <2>2. Return(c, sessions[c.server]) \in CallState /\ Return(c, sessions[c.server]).at = "idle"
      BY <2>1, CallTypes
    <2>3. QED
      BY <1>1, <2>2, AnswerIInv
  <1>2. CASE sessions[c.server] = 0 /\ Create(p, c)
    BY <1>2, CreateIInv
  <1>3. QED
    BY <1>1, <1>2 DEF Obtain

LEMMA GetIInv ==
  ASSUME IInv, NEW p \in Procs, NEW s \in Servers, Get(p, s)
  PROVE  IInv'
  <1> DEFINE c == Call(p, "get", s)
  <1>1. /\ proc[p].at = "idle" /\ calls' = calls + 1 /\ calls < MaxCalls
        /\ calls \in Nat /\ calls' \in calls..MaxCalls /\ calls' \in Calls
    BY DEF Get, Begin, IInv, TypeOK, Calls
  <1>2. c \in CallState /\ c.at = "idle" /\ c.server = s /\ c.call = calls'
    BY <1>1, CallFields DEF IInv
  <1>3. runner[calls'].at = "unborn"
    BY <1>1 DEF IInv, Fresh, Calls
  <1>4. \A q \in Procs : proc[q].at = "lock" => proc[q].call # calls'
    BY <1>1 DEF IInv, Reserved
  <1> HIDE DEF c
  <1>5. CASE (sessions[s] # 0 \/ LockFree(s)) /\ Obtain(p, c)
    BY <1>1, <1>2, <1>3, <1>4, <1>5, ObtainIInv DEF LockFree
  <1>6. CASE Answer(p, Await(c, "lock"))
    <2>1. Await(c, "lock") \in CallState /\ Await(c, "lock") = [c EXCEPT !.at = "lock"]
      BY <1>2, CallTypes
    <2>2. proc' = [proc EXCEPT ![p] = Await(c, "lock")] /\ UNCHANGED <<sessions, tasks, lock, closeLock, runner, shut>>
      BY <1>6 DEF Answer, pool
    <2>3. /\ proc'[p].at = "lock" /\ proc'[p].server = s /\ proc'[p].call = calls'
          /\ \A q \in Procs : q # p => proc'[q] = proc[q]
      BY <1>2, <2>1, <2>2 DEF IInv, TypeOK, CallState
    <2>4. TypeOK'
      BY <1>1, <2>1, <2>2 DEF IInv, TypeOK
    <2>5. PooledSessionIsHeld' /\ TrackedIsNotShutDown'
      BY <2>2 DEF IInv, PooledSessionIsHeld, TrackedIsNotShutDown
    <2>6. Fresh'
      BY <1>1, <2>2 DEF IInv, Fresh, Calls
    <2>7. Reserved'
      BY <1>1, <1>3, <1>4, <2>2, <2>3 DEF IInv, Reserved
    <2>8. LockHeld'
      BY <1>1, <2>2, <2>3 DEF IInv, LockHeld
    <2>9. QED
      BY <2>4, <2>5, <2>6, <2>7, <2>8 DEF IInv
  <1>7. QED
    BY <1>5, <1>6 DEF Get, c

LEMMA GetLockedIInv ==
  ASSUME IInv, NEW p \in Procs, GetLocked(p)
  PROVE  IInv'
  <1> DEFINE c == proc[p]
  <1>1. /\ c \in CallState /\ c.at = "lock" /\ c.server \in Servers /\ c.call \in 1..calls
        /\ lock[c.server] = None /\ runner[c.call].at = "unborn"
    BY DEF GetLocked, IInv, TypeOK, Reserved
  <1>2. calls' \in calls..MaxCalls /\ c.call <= calls' /\ c.call \in Calls
    BY <1>1 DEF GetLocked, IInv, TypeOK, Calls
  <1>3. \A q \in Procs : q # p /\ proc[q].at = "lock" => proc[q].call # c.call
    BY <1>1 DEF IInv, Reserved
  <1>4. QED
    BY <1>1, <1>2, <1>3, ObtainIInv DEF GetLocked

\* A task that stops waiting for its runner gives the server's lock back.
LEMMA ReleaseIInv ==
  ASSUME IInv, NEW p \in Procs, NEW c \in CallState,
         proc[p].at = "ready", c.at = "idle",
         proc' = [proc EXCEPT ![p] = c],
         lock' = [lock EXCEPT ![proc[p].server] = None],
         tasks' = tasks \/ tasks' = [tasks EXCEPT ![proc[p].server] = 0],
         UNCHANGED <<sessions, closeLock, runner, shut, calls>>
  PROVE  IInv'
  <1>1. proc[p].server \in Servers
    BY DEF IInv, Reserved
  <1>2. proc'[p] = c /\ \A q \in Procs : q # p => proc'[q] = proc[q]
    BY DEF IInv, TypeOK
  <1>3. TypeOK'
    BY <1>1 DEF IInv, TypeOK
  <1>4. PooledSessionIsHeld' /\ Fresh'
    BY DEF IInv, PooledSessionIsHeld, Fresh
  <1>5. TrackedIsNotShutDown'
    BY <1>1 DEF IInv, TypeOK, TrackedIsNotShutDown
  <1>6. Reserved'
    BY <1>2 DEF IInv, Reserved
  <1>7. LockHeld'
    BY <1>1, <1>2 DEF IInv, TypeOK, LockHeld
  <1>8. QED
    BY <1>3, <1>4, <1>5, <1>6, <1>7 DEF IInv

LEMMA GetReadyIInv ==
  ASSUME IInv, NEW p \in Procs, GetReady(p)
  PROVE  IInv'
  <1> DEFINE c == proc[p]
  <1>1. c \in CallState /\ c.at = "ready" /\ c.server \in Servers
    BY DEF GetReady, IInv, TypeOK, Reserved
  <1>2. sessions[c.server] \in 0..MaxCalls
    BY <1>1 DEF IInv, TypeOK
  <1>3. PICK d \in {Raise(c), Return(c, sessions[c.server])} : proc' = [proc EXCEPT ![p] = d]
    BY DEF GetReady, Untrack
  <1>4. d \in CallState /\ d.at = "idle"
    BY <1>1, <1>2, <1>3, CallTypes
  <1>5. QED
    BY <1>1, <1>3, <1>4, ReleaseIInv DEF GetReady, Untrack

LEMMA CancelGetIInv ==
  ASSUME IInv, NEW p \in Procs, CancelGet(p)
  PROVE  IInv'
  <1> DEFINE c == [proc[p] EXCEPT !.at = "idle", !.out = "cancelled"]
  <1>1. c \in CallState /\ c.at = "idle"
    <2>1. proc[p] \in CallState
      BY DEF IInv, TypeOK
    <2>2. QED
      BY <2>1 DEF CallState
  <1>2. proc' = [proc EXCEPT ![p] = c] /\ calls' \in calls..MaxCalls
    <2>1. calls \in 0..MaxCalls /\ calls' = calls
      BY DEF CancelGet, IInv, TypeOK
    <2>2. QED
      BY <2>1 DEF CancelGet
  <1>3. CASE proc[p].at = "ready"
    BY <1>1, <1>2, <1>3, ReleaseIInv DEF CancelGet
  <1>4. CASE proc[p].at = "lock"
    <2>1. Answer(p, c)
      BY <1>2, <1>4 DEF CancelGet, Answer, pool
    <2>2. QED
      BY <1>1, <1>2, <1>4, <2>1, AnswerIInv
  <1>5. QED
    BY <1>3, <1>4 DEF CancelGet

-----------------------------------------------------------------------------
(* Runners *)

\* A runner task only moves itself, and touches the pooled session of its server only.
LEMMA RunnerIInv ==
  ASSUME IInv, NEW r \in Calls, Runner(r)
  PROVE  IInv'
  <1> DEFINE s == runner[r].server
  <1>1. runner[r] \in RunnerState /\ runner[r].at \in Live
    BY DEF Runner, Respond, Unwind, Leave, Opened, OpenFailed, Stopped, Cancelled, Exited,
           ExitFailed, Crashed, IInv, TypeOK, Live
  <1>2. PICK at \in {"open", "exiting", "crashing"} \cup Done :
          /\ runner' = [runner EXCEPT ![r].at = at]
          /\ \/ at \in Done /\ sessions' = [sessions EXCEPT ![s] = 0]
             \/ at \notin Done /\ runner[r].at = "opening" /\ sessions' = [sessions EXCEPT ![s] = r]
             \/ at \notin Done /\ sessions' = sessions
    BY DEF Runner, Respond, Unwind, Leave, Opened, OpenFailed, Stopped, Cancelled, Exited,
           ExitFailed, Crashed, Finish, Done
  <1>3. /\ runner'[r] \in RunnerState
        /\ runner'[r].at = at /\ runner'[r].server = s /\ runner'[r].stop = runner[r].stop
        /\ \A q \in Calls : q # r => runner'[q] = runner[q]
    BY <1>1, <1>2 DEF IInv, TypeOK, RunnerState, Live, Done
  <1>4. UNCHANGED <<tasks, lock, closeLock, shut, proc, calls>>
    BY DEF Runner
  <1>5. TypeOK'
    <2>1. sessions' \in [Servers -> 0..MaxCalls]
      BY <1>2 DEF IInv, TypeOK, Calls
    <2>2. runner' \in [Calls -> RunnerState]
      BY <1>2, <1>3 DEF IInv, TypeOK
    <2>3. QED
      BY <1>4, <2>1, <2>2 DEF IInv, TypeOK
  <1>6. PooledSessionIsHeld'
    <2> SUFFICES ASSUME NEW u \in Servers, sessions'[u] # 0
                 PROVE  /\ runner'[sessions'[u]].server = u
                        /\ runner'[sessions'[u]].at \in {"open", "exiting", "crashing"}
      BY DEF PooledSessionIsHeld
    <2>1. CASE sessions'[u] = sessions[u]
      <3>1. sessions[u] \in Calls /\ runner[sessions[u]].server = u
        BY <2>1 DEF IInv, TypeOK, PooledSessionIsHeld, Calls
      <3>2. CASE sessions[u] = r
        BY <1>2, <1>3, <2>1, <3>1, <3>2 DEF IInv, TypeOK, Done
      <3>3. CASE sessions[u] # r
        BY <1>3, <2>1, <3>1, <3>3 DEF IInv, PooledSessionIsHeld
      <3>4. QED
        BY <3>2, <3>3
    <2>2. CASE sessions'[u] # sessions[u]
      BY <1>2, <1>3, <2>2 DEF IInv, TypeOK, Done
    <2>3. QED
      BY <2>1, <2>2
  <1>7. TrackedIsNotShutDown'
    BY <1>3, <1>4 DEF IInv, TypeOK, TrackedIsNotShutDown, Calls
  <1>8. Fresh'
    BY <1>1, <1>2, <1>3, <1>4 DEF IInv, TypeOK, Fresh, Calls, Live, Done
  <1>9. Reserved'
    <2>1. \A k \in 1..calls : k \in Calls
      BY DEF IInv, TypeOK, Calls
    <2>2. \A q \in Calls : runner[q].at = "unborn" => runner'[q].at = "unborn"
      BY <1>1, <1>3 DEF Live
    <2>3. QED
      BY <1>4, <2>1, <2>2 DEF IInv, Reserved
  <1>10. LockHeld'
    BY <1>4 DEF IInv, LockHeld
  <1>11. QED
    BY <1>5, <1>6, <1>7, <1>8, <1>9, <1>10 DEF IInv

\* What _shutdown does to a runner, its event and its timer, disturbs no other runner.
LEMMA ShutdownIInv ==
  ASSUME IInv, NEW r \in Calls, Shutdown(r)
  PROVE  IInv'
  <1>1. runner[r] \in RunnerState /\ shut[r].at \in {"asked", "waiting"}
    BY DEF Shutdown, ShutdownStart, ShutdownTimeout, ShutdownDone, IInv, TypeOK
  <1>2. /\ runner' \in [Calls -> RunnerState]
        /\ runner'[r].at = runner[r].at /\ runner'[r].server = runner[r].server
        /\ \A q \in Calls : q # r => runner'[q] = runner[q]
    <2>1. CASE ShutdownStart(r)
      BY <1>1, <2>1 DEF ShutdownStart, IInv, TypeOK, RunnerState
    <2>2. CASE ShutdownTimeout(r)
      BY <1>1, <2>2 DEF ShutdownTimeout, IInv, TypeOK, RunnerState
    <2>3. CASE ShutdownDone(r)
      BY <2>3 DEF ShutdownDone, IInv, TypeOK
    <2>4. QED
      BY <2>1, <2>2, <2>3 DEF Shutdown
  <1>3. /\ shut' \in [Calls -> ShutdownState]
        /\ \A q \in Calls : q # r => shut'[q] = shut[q]
    <2>1. CASE ShutdownStart(r)
      BY <2>1 DEF ShutdownStart, IInv, TypeOK, ShutdownState
    <2>2. CASE ShutdownTimeout(r)
      BY <2>2 DEF ShutdownTimeout, IInv, TypeOK
    <2>3. CASE ShutdownDone(r)
      <3>1. PICK at \in {"ok", "raised"} : shut' = [shut EXCEPT ![r].at = at]
        BY <2>3 DEF ShutdownDone
      <3>2. QED
        BY <3>1 DEF IInv, TypeOK, ShutdownState
    <2>4. QED
      BY <2>1, <2>2, <2>3 DEF Shutdown
  <1>4. UNCHANGED <<sessions, tasks, lock, closeLock, proc, calls>>
    BY DEF Shutdown
  <1>5. TypeOK'
    BY <1>2, <1>3, <1>4 DEF IInv, TypeOK
  <1>6. PooledSessionIsHeld'
    <2> SUFFICES ASSUME NEW u \in Servers, sessions[u] # 0
                 PROVE  /\ runner'[sessions[u]].server = u
                        /\ runner'[sessions[u]].at \in {"open", "exiting", "crashing"}
      BY <1>4 DEF PooledSessionIsHeld
    <2>1. sessions[u] \in Calls
      BY DEF IInv, TypeOK, Calls
    <2>2. /\ runner'[sessions[u]].at = runner[sessions[u]].at
          /\ runner'[sessions[u]].server = runner[sessions[u]].server
      BY <1>2, <2>1
    <2>3. QED
      BY <2>2 DEF IInv, PooledSessionIsHeld
  <1>7. TrackedIsNotShutDown'
    BY <1>1, <1>2, <1>3, <1>4 DEF IInv, TypeOK, TrackedIsNotShutDown, Calls
  <1>8. Fresh'
    BY <1>1, <1>2, <1>3, <1>4 DEF IInv, Fresh
  <1>9. Reserved'
    <2>1. \A k \in 1..calls : k \in Calls
      BY DEF IInv, TypeOK, Calls
    <2>2. QED
      BY <1>2, <1>4, <2>1 DEF IInv, Reserved
  <1>10. LockHeld'
    BY <1>4 DEF IInv, LockHeld
  <1>11. QED
    BY <1>5, <1>6, <1>7, <1>8, <1>9, <1>10 DEF IInv

-----------------------------------------------------------------------------
(* Closing *)

\* Runners whose entry leaves _tasks: they may be told to stop, or given a _shutdown.
LEMMA UntrackIInv ==
  ASSUME IInv, NEW R \in SUBSET Calls,
         UNCHANGED <<sessions, lock>>,
         tasks' \in [Servers -> 0..MaxCalls], closeLock' \in Procs \cup {None},
         \A s \in Servers : tasks'[s] # 0 => tasks'[s] = tasks[s] /\ tasks[s] \notin R,
         runner' \in [Calls -> RunnerState], shut' \in [Calls -> ShutdownState],
         \A r \in Calls : runner'[r].at = runner[r].at /\ runner'[r].server = runner[r].server,
         \A r \in Calls : r \in R => runner[r].at # "unborn",
         \A r \in Calls : r \notin R => runner'[r] = runner[r] /\ shut'[r].at = shut[r].at,
         calls' \in calls..MaxCalls,
         Reserved', LockHeld', proc' \in [Procs -> CallState]
  PROVE  IInv'
  <1>1. calls \in Nat /\ calls' \in Nat /\ calls <= calls' /\ calls' <= MaxCalls
    BY DEF IInv, TypeOK
  <1>2. TypeOK'
    BY <1>1 DEF IInv, TypeOK
  <1>3. PooledSessionIsHeld'
    BY DEF IInv, TypeOK, PooledSessionIsHeld, Calls
  <1>4. TrackedIsNotShutDown'
    <2> SUFFICES ASSUME NEW s \in Servers, tasks'[s] # 0
                 PROVE  /\ runner'[tasks'[s]].server = s /\ ~runner'[tasks'[s]].stop
                        /\ shut'[tasks'[s]].at = "none"
      BY DEF TrackedIsNotShutDown
    <2>1. tasks'[s] = tasks[s] /\ tasks[s] # 0 /\ tasks[s] \in Calls /\ tasks[s] \notin R
      BY DEF IInv, TypeOK, Calls
    <2>2. runner'[tasks[s]] = runner[tasks[s]] /\ shut'[tasks[s]].at = shut[tasks[s]].at
      BY <2>1
    <2>3. QED
      BY <2>1, <2>2 DEF IInv, TrackedIsNotShutDown
  <1>5. Fresh'
    <2> SUFFICES ASSUME NEW r \in Calls
                 PROVE  /\ r > calls' => runner'[r].at = "unborn"
                        /\ runner'[r].at = "unborn" => runner'[r] = Unborn /\ shut'[r].at = "none"
      BY DEF Fresh, Unborn
    <2>1. /\ r > calls => runner[r].at = "unborn"
          /\ runner[r].at = "unborn" => runner[r] = Unborn /\ shut[r].at = "none"
      BY DEF IInv, Fresh
    <2>2. r > calls' => r > calls
      BY <1>1 DEF Calls
    <2>3. runner'[r].at = runner[r].at
      OBVIOUS
    <2>4. runner[r].at = "unborn" => runner'[r] = runner[r] /\ shut'[r].at = shut[r].at
      OBVIOUS
    <2> QED
      BY <2>1, <2>2, <2>3, <2>4
  <1>6. QED
    BY <1>2, <1>3, <1>4, <1>5 DEF IInv

\* A tracked runner has been created.
LEMMA TrackedIsBorn ==
  ASSUME IInv, NEW s \in Servers, tasks[s] # 0
  PROVE  tasks[s] \in Calls /\ runner[tasks[s]].at # "unborn"
  BY DEF IInv, TypeOK, TrackedIsNotShutDown, Fresh, Unborn, Calls

LEMMA CloseIInv ==
  ASSUME IInv, NEW p \in Procs, NEW s \in Servers, Close(p, s)
  PROVE  IInv'
  <1> DEFINE c == Call(p, "close", s)
             r == tasks[s]
  <1>1. /\ proc[p].at = "idle" /\ calls < MaxCalls /\ calls' \in calls..MaxCalls
    BY DEF Close, Begin, IInv, TypeOK
  <1>2. c \in CallState /\ c.at = "idle" /\ 0 \in 0..MaxCalls
    BY <1>1, CallFields DEF IInv
  <1> HIDE DEF c, r
  <1>3. CASE Answer(p, Return(c, 0))
    <2>1. Return(c, 0) \in CallState /\ Return(c, 0).at = "idle"
      BY <1>2, CallTypes
    <2>2. QED
      BY <1>1, <1>3, <2>1, AnswerIInv
  <1>4. CASE /\ r # 0
             /\ tasks' = [tasks EXCEPT ![s] = 0]
             /\ runner' = [runner EXCEPT ![r].stop = TRUE]
             /\ shut' = [shut EXCEPT ![r] = [at |-> "waiting", by |-> p]]
             /\ proc' = [proc EXCEPT ![p] = Await(c, "closing")]
             /\ UNCHANGED <<sessions, lock, closeLock>>
    <2>1. r \in Calls /\ runner[r].at # "unborn"
      BY <1>4, TrackedIsBorn DEF r
    <2>2. Await(c, "closing") \in CallState /\ Await(c, "closing").at = "closing"
      BY <1>2, CallTypes DEF CallState
    <2>3. /\ runner' \in [Calls -> RunnerState]
          /\ \A q \in Calls : runner'[q].at = runner[q].at /\ runner'[q].server = runner[q].server
      <3>1. runner \in [Calls -> RunnerState]
        BY DEF IInv, TypeOK
      <3>2. runner[r] \in RunnerState /\ runner' = [runner EXCEPT ![r] = [runner[r] EXCEPT !.stop = TRUE]]
        BY <1>4, <2>1, <3>1
      <3>3. /\ [runner[r] EXCEPT !.stop = TRUE] \in RunnerState
            /\ [runner[r] EXCEPT !.stop = TRUE].at = runner[r].at
            /\ [runner[r] EXCEPT !.stop = TRUE].server = runner[r].server
        BY <3>2 DEF RunnerState
      <3>4. QED
        BY <2>1, <3>1, <3>2, <3>3
    <2>4. /\ shut' \in [Calls -> ShutdownState] /\ tasks' \in [Servers -> 0..MaxCalls]
          /\ closeLock' \in Procs \cup {None}
      <3>1. [at |-> "waiting", by |-> p] \in ShutdownState
        BY DEF ShutdownState
      <3>2. QED
        BY <1>1, <1>2, <1>4, <3>1 DEF IInv, TypeOK
    <2>5. \A q \in Calls : q \notin {r} => runner'[q] = runner[q] /\ shut'[q].at = shut[q].at
      BY <1>4, <2>1 DEF IInv, TypeOK
    <2>6. \A t \in Servers : tasks'[t] # 0 => tasks'[t] = tasks[t] /\ tasks[t] \notin {r}
      BY <1>4 DEF IInv, TypeOK, TrackedIsNotShutDown, r
    <2>7. Reserved' /\ LockHeld' /\ proc' \in [Procs -> CallState]
      BY <1>1, <1>4, <2>2, <2>3, IdleStep
    <2>8. {r} \in SUBSET Calls /\ \A q \in Calls : q \in {r} => runner[q].at # "unborn"
      BY <2>1
    <2>9. QED
      BY <1>1, <1>4, <2>3, <2>4, <2>5, <2>6, <2>7, <2>8, UntrackIInv
  <1>5. QED
    BY <1>3, <1>4 DEF Close, Untrack, c, r

LEMMA GatherIInv ==
  ASSUME IInv, NEW p \in Procs, NEW c \in CallState,
         proc[p].at \notin {"lock", "ready"}, calls' \in calls..MaxCalls, Gather(p, c)
  PROVE  IInv'
  <1> DEFINE tracked == {tasks[s] : s \in Servers} \ {0}
  <1>1. CASE Answer(p, Return(c, 0))
    <2>1. Return(c, 0) \in CallState /\ Return(c, 0).at = "idle"
      BY CallTypes
    <2>2. QED
      BY <1>1, <2>1, AnswerIInv
  <1>2. CASE /\ tasks' = [s \in Servers |-> 0]
             /\ closeLock' = p
             /\ shut' = [r \in Calls |-> IF r \in tracked THEN [at |-> "asked", by |-> p]
                                                          ELSE shut[r]]
             /\ proc' = [proc EXCEPT ![p] = Await(c, "gather")]
             /\ UNCHANGED <<sessions, lock, runner>>
    <2>1. tracked \in SUBSET Calls /\ \A r \in Calls : r \in tracked => runner[r].at # "unborn"
      BY TrackedIsBorn
    <2>2. Await(c, "gather") \in CallState /\ Await(c, "gather").at = "gather"
      BY CallTypes DEF CallState
    <2>3. /\ shut' \in [Calls -> ShutdownState]
          /\ \A r \in Calls : r \notin tracked => shut'[r] = shut[r]
      BY <1>2 DEF IInv, TypeOK, ShutdownState
    <2>4. /\ tasks' \in [Servers -> 0..MaxCalls] /\ \A s \in Servers : tasks'[s] = 0
          /\ closeLock' \in Procs \cup {None} /\ runner' \in [Calls -> RunnerState]
      BY <1>2 DEF IInv, TypeOK
    <2>5. Reserved' /\ LockHeld' /\ proc' \in [Procs -> CallState]
      BY <1>2, <2>2, IdleStep
    <2>6. QED
      BY <1>2, <2>1, <2>3, <2>4, <2>5, UntrackIInv
  <1>3. QED
    BY <1>1, <1>2 DEF Gather

LEMMA CloseAllIInv ==
  ASSUME IInv, NEW p \in Procs, CloseAll(p) \/ CloseAllLocked(p)
  PROVE  IInv'
  <1>1. CASE CloseAll(p)
    <2> DEFINE c == Call(p, "close_all", None)
    <2>1. proc[p].at = "idle" /\ calls < MaxCalls /\ calls' \in calls..MaxCalls
      BY <1>1 DEF CloseAll, Begin, IInv, TypeOK
    <2>2. c \in CallState
      BY <2>1, CallFields DEF IInv
    <2>3. CASE Gather(p, c)
      BY <2>1, <2>2, <2>3, GatherIInv
    <2>4. CASE Answer(p, Await(c, "closeLock"))
      <3>1. Await(c, "closeLock") \in CallState /\ Await(c, "closeLock").at = "closeLock"
        BY <2>2, CallTypes DEF CallState
      <3>2. QED
        BY <2>1, <2>4, <3>1, AnswerIInv
    <2>5. QED
      BY <1>1, <2>3, <2>4 DEF CloseAll
  <1>2. CASE CloseAllLocked(p)
    <2>1. /\ proc[p] \in CallState /\ proc[p].at = "closeLock" /\ calls' \in calls..MaxCalls
          /\ Gather(p, proc[p])
      BY <1>2 DEF CloseAllLocked, IInv, TypeOK
    <2>2. QED
      BY <2>1, GatherIInv
  <1>3. QED
    BY <1>1, <1>2

LEMMA CloseReturnsIInv ==
  ASSUME IInv, NEW p \in Procs, CloseReturns(p)
  PROVE  IInv'
  <1> DEFINE c == proc[p]
  <1>1. c \in CallState /\ c.at \notin {"lock", "ready"}
    BY DEF CloseReturns, IInv, TypeOK
  <1>2. PICK d \in {Return(c, 0), Raise(c)} : proc' = [proc EXCEPT ![p] = d]
    BY DEF CloseReturns
  <1>3. d \in CallState /\ d.at = "idle"
    BY <1>1, <1>2, CallTypes
  <1>4. calls' \in calls..MaxCalls /\ calls' = calls /\ UNCHANGED <<tasks, lock, runner>>
    BY DEF CloseReturns, IInv, TypeOK
  <1>5. Reserved' /\ LockHeld' /\ proc' \in [Procs -> CallState]
    BY <1>1, <1>2, <1>3, <1>4, IdleStep
  <1>6. /\ shut' \in [Calls -> ShutdownState]
        /\ \A r \in Calls : shut'[r].at = shut[r].at
    BY DEF CloseReturns, IInv, TypeOK, ShutdownState
  <1>7. \A s \in Servers : sessions'[s] \in {0, sessions[s]}
    BY DEF CloseReturns, IInv, TypeOK
  <1>8. sessions' \in [Servers -> 0..MaxCalls] /\ closeLock' \in Procs \cup {None}
    BY DEF CloseReturns, IInv, TypeOK
  <1>9. TypeOK'
    BY <1>4, <1>5, <1>6, <1>8 DEF IInv, TypeOK
  <1>10. PooledSessionIsHeld'
    BY <1>4, <1>7 DEF IInv, PooledSessionIsHeld
  <1>11. TrackedIsNotShutDown'
    BY <1>4, <1>6 DEF IInv, TypeOK, TrackedIsNotShutDown, Calls
  <1>12. Fresh'
    BY <1>4, <1>6 DEF IInv, Fresh
  <1>13. QED
    BY <1>5, <1>9, <1>10, <1>11, <1>12 DEF IInv

-----------------------------------------------------------------------------
LEMMA NextIInv == IInv /\ [Next]_vars => IInv'
  <1> SUFFICES ASSUME IInv, [Next]_vars PROVE IInv'
    OBVIOUS
  <1>1. ASSUME NEW p \in Procs, NEW s \in Servers, Get(p, s) PROVE IInv'
    BY <1>1, GetIInv
  <1>2. ASSUME NEW p \in Procs, NEW s \in Servers, Close(p, s) PROVE IInv'
    BY <1>2, CloseIInv
  <1>3. ASSUME NEW p \in Procs, GetLocked(p) PROVE IInv'
    BY <1>3, GetLockedIInv
  <1>4. ASSUME NEW p \in Procs, GetReady(p) PROVE IInv'
    BY <1>4, GetReadyIInv
  <1>5. ASSUME NEW p \in Procs, CancelGet(p) PROVE IInv'
    BY <1>5, CancelGetIInv
  <1>6. ASSUME NEW p \in Procs, CloseAll(p) \/ CloseAllLocked(p) PROVE IInv'
    BY <1>6, CloseAllIInv
  <1>7. ASSUME NEW p \in Procs, CloseReturns(p) PROVE IInv'
    BY <1>7, CloseReturnsIInv
  <1>8. ASSUME NEW r \in Calls, Runner(r) PROVE IInv'
    BY <1>8, RunnerIInv
  <1>9. ASSUME NEW r \in Calls, Shutdown(r) PROVE IInv'
    BY <1>9, ShutdownIInv
  <1>10. CASE Finished \/ UNCHANGED vars
    BY <1>10 DEF Finished, vars, pool, IInv, TypeOK, PooledSessionIsHeld, TrackedIsNotShutDown,
                 Fresh, Reserved, LockHeld
  <1>11. QED
    BY <1>1, <1>2, <1>3, <1>4, <1>5, <1>6, <1>7, <1>8, <1>9, <1>10 DEF Next

LEMMA PoolInvariant == Spec => []IInv
  BY InitIInv, NextIInv, PTL DEF Spec

\* The variables keep their types, in every environment.
THEOREM PoolTypes == Spec => []TypeOK
  BY PoolInvariant, PTL DEF IInv

\* get never finds a session whose transport has been torn down: however calls,
\* closes, failures and cancellations interleave, what _sessions holds is held open.
THEOREM PooledSessionsAreHeld == Spec => []PooledSessionIsHeld
  BY PoolInvariant, PTL DEF IInv

\* No session is shut down by two callers: what _tasks holds was never told to stop.
THEOREM TrackedSessionsRun == Spec => []TrackedIsNotShutDown
  BY PoolInvariant, PTL DEF IInv

\* The per-server lock admits one task into _create, even when tasks are cancelled.
THEOREM MutualExclusion == Spec => []OneCreator
  <1>1. IInv => OneCreator
    BY DEF IInv, LockHeld, Reserved, OneCreator
  <1>2. QED
    BY <1>1, PoolInvariant, PTL

-----------------------------------------------------------------------------
(* Calls that do not overlap on a server and are not cancelled, and servers    *)
(* that may hang, or fail to open, but not crash.                              *)
Serial == ~Overlap /\ ~Cancels /\ Faults \subseteq {"open"}

\* A busy task has its servers for itself; close_all, whose server is None, all of them.
Alone ==
  \A p, q \in Procs : proc[p].at # "idle" /\ proc[q].at # "idle" /\ p # q =>
    proc[p].server \in Servers /\ proc[p].server # proc[q].server

\* Nobody ever waits for a lock, and a task's runner stays tracked while it is awaited.
Stages ==
  /\ closeLock # None => proc[closeLock].at = "gather"
  /\ \A p \in Procs :
       /\ \/ proc[p].at = "idle"
          \/ proc[p].at = "ready" /\ proc[p].op = "get"
          \/ proc[p].at = "closing" /\ proc[p].op = "close"
          \/ proc[p].at = "gather" /\ proc[p].op = "close_all"
       /\ proc[p].at = "ready" => tasks[proc[p].server] = proc[p].call
       /\ proc[p].at = "gather" => proc[p].server = None /\ \A s \in Servers : tasks[s] = 0

\* Where a live runner r may be: being created, in the pool, or being closed.
Creating(r) ==
  /\ runner[r].at = "opening" /\ ~runner[r].cancel
  /\ sessions[runner[r].server] = 0 /\ tasks[runner[r].server] = r
  /\ \E p \in Procs : proc[p].at = "ready" /\ proc[p].call = r

Pooled(r) ==
  /\ runner[r].at = "open" /\ ~runner[r].cancel
  /\ sessions[runner[r].server] = r /\ tasks[runner[r].server] = r

Closer(p, s) == proc[p].at = "gather" \/ (proc[p].at = "closing" /\ proc[p].server = s)

Closing(r) ==
  /\ runner[r].at \in {"open", "exiting"}
  /\ sessions[runner[r].server] = r
  /\ shut[r].at \in {"asked", "waiting"}
  /\ shut[r].by \in Procs /\ Closer(shut[r].by, runner[r].server)

Places ==
  \A r \in Calls : runner[r].at \in Live =>
    runner[r].server \in Servers /\ (Creating(r) \/ Pooled(r) \/ Closing(r))

\* A runner that could not be opened is forgotten by the get that created it, before
\* anybody can close it: no _shutdown ever raises.
Failures ==
  \A r \in Calls :
    /\ shut[r].at # "raised"
    /\ runner[r].at = "failed" =>
         /\ shut[r].at = "none"
         /\ \A s \in Servers : tasks[s] = r =>
              \E p \in Procs : proc[p].at = "ready" /\ proc[p].call = r

SInv == Alone /\ Stages /\ Places /\ Failures

LEMMA InitSInv == Init => SInv
  BY DEF Init, SInv, Alone, Stages, Places, Failures, Live, Unborn, NoShutdown, NoCall

\* A server's live runners are the one it has: the pool's properties follow.
LEMMA OneLive ==
  ASSUME IInv, SInv, NEW r \in Calls, NEW q \in Calls,
         runner[r].at \in Live, runner[q].at \in Live, runner[r].server = runner[q].server
  PROVE  r = q
  BY DEF SInv, Places, Creating, Pooled, Closing, Calls

LEMMA SerialSafety == IInv /\ SInv => SingleRunner /\ NoOrphan
  <1>1. IInv /\ SInv => SingleRunner
    BY OneLive DEF SingleRunner
  <1>2. SInv => NoOrphan
    BY DEF SInv, Places, Creating, Pooled, Closing, NoOrphan
  <1>3. QED
    BY <1>1, <1>2

\* The runner a task waits for belongs to the task's server.
LEMMA Awaited ==
  ASSUME IInv, SInv, NEW p \in Procs, proc[p].at = "ready"
  PROVE  /\ proc[p].server \in Servers /\ proc[p].call \in Calls /\ proc[p].call # 0
         /\ tasks[proc[p].server] = proc[p].call
         /\ runner[proc[p].call].server = proc[p].server
  <1>1. proc[p].server \in Servers /\ proc[p].call \in 1..calls /\ calls \in 0..MaxCalls
    BY DEF IInv, Reserved, TypeOK
  <1>2. tasks[proc[p].server] = proc[p].call
    BY DEF SInv, Stages
  <1>3. QED
    BY <1>1, <1>2 DEF IInv, TrackedIsNotShutDown, Calls

\* A call that finds what it needs in the pool and ends at once.
LEMMA AnswerSInv ==
  ASSUME IInv, SInv, NEW p \in Procs, NEW c \in CallState,
         proc[p].at = "idle", c.at = "idle", Answer(p, c)
  PROVE  SInv'
  <1>1. /\ proc'[p] = c /\ \A q \in Procs : q # p => proc'[q] = proc[q]
        /\ UNCHANGED <<sessions, tasks, closeLock, runner, shut>>
    BY DEF Answer, pool, IInv, TypeOK
  <1>2. Alone' /\ Stages'
    BY <1>1 DEF SInv, Alone, Stages, IInv, TypeOK
  <1>3. Places'
    <2> SUFFICES ASSUME NEW r \in Calls, runner[r].at \in Live
                 PROVE  runner[r].server \in Servers /\ (Creating(r)' \/ Pooled(r)' \/ Closing(r)')
      BY <1>1 DEF Places, Live
    <2>1. runner[r].server \in Servers /\ (Creating(r) \/ Pooled(r) \/ Closing(r))
      BY DEF SInv, Places
    <2>2. QED
      BY <1>1, <2>1 DEF Creating, Pooled, Closing, Closer
  <1>4. Failures'
    BY <1>1 DEF SInv, Failures
  <1>5. QED
    BY <1>2, <1>3, <1>4 DEF SInv

\* Nobody else is busy on the server of a call that begins.
LEMMA BeginAlone ==
  ASSUME SInv, Serial, NEW p \in Procs, NEW S \in SUBSET Servers, Begin(p, S),
         NEW q \in Procs, proc[q].at # "idle"
  PROVE  q # p /\ proc[q].server \in Servers \ S
  BY DEF Begin, Serial

LEMMA CreateSInv ==
  ASSUME IInv, SInv, Serial, NEW p \in Procs, NEW s \in Servers, Begin(p, {s}),
         NEW c \in CallState, c.op = "get", c.server = s, c.call = calls + 1,
         sessions[s] = 0, Create(p, c)
  PROVE  SInv'
  <1> DEFINE born == [Unborn EXCEPT !.at = "opening", !.server = s]
             r == calls + 1
  <1>1. \A q \in Procs : proc[q].at # "idle" => q # p /\ proc[q].server \in Servers \ {s}
    BY BeginAlone
  <1>2. \A q \in Procs : q # p => proc'[q] = proc[q]
    BY DEF Create, IInv, TypeOK
  <1>3. /\ proc'[p].at = "ready" /\ proc'[p].op = "get" /\ proc'[p].server = s
        /\ proc'[p].call = r
    <2>1. proc'[p] = [c EXCEPT !.at = "ready"]
      BY DEF Create, Await, IInv, TypeOK
    <2>2. QED
      BY <2>1 DEF CallState
  <1>4. r \in Calls /\ runner[r] = Unborn /\ shut[r].at = "none"
    BY DEF Begin, IInv, TypeOK, Fresh, Calls
  <1>5. /\ runner'[r] = born /\ \A q \in Calls : q # r => runner'[q] = runner[q]
        /\ tasks'[s] = r /\ \A t \in Servers : t # s => tasks'[t] = tasks[t]
        /\ UNCHANGED <<sessions, closeLock, shut>>
    BY <1>4 DEF Create, Track, IInv, TypeOK
  <1>6. born.at = "opening" /\ ~born.cancel /\ born.server = s
    BY DEF Unborn
  <1> HIDE DEF born, r
  <1>7. Alone'
    <2> SUFFICES ASSUME NEW x \in Procs, NEW y \in Procs,
                        proc'[x].at # "idle", proc'[y].at # "idle", x # y
                 PROVE  proc'[x].server \in Servers /\ proc'[x].server # proc'[y].server
      BY DEF Alone
    <2>1. CASE x = p
      BY <1>1, <1>2, <1>3, <2>1
    <2>2. CASE y = p
      BY <1>1, <1>2, <1>3, <2>2
    <2>3. CASE x # p /\ y # p
      BY <1>2, <2>3 DEF SInv, Alone
    <2>4. QED
      BY <2>1, <2>2, <2>3
  <1>8. Stages'
    <2>1. closeLock # None => closeLock \in Procs /\ proc'[closeLock] = proc[closeLock]
      BY <1>1, <1>2 DEF SInv, Stages, IInv, TypeOK
    <2>2. \A q \in Procs : proc[q].at # "gather"
      BY <1>1 DEF SInv, Stages
    <2>3. ASSUME NEW q \in Procs, q # p
          PROVE  proc'[q].at = "ready" => tasks'[proc'[q].server] = proc'[q].call
      BY <1>1, <1>2, <1>5, <2>3 DEF SInv, Stages
    <2>4. closeLock' # None => proc'[closeLock'].at = "gather"
      BY <1>5, <2>1 DEF SInv, Stages
    <2>5. QED
      BY <1>2, <1>3, <1>5, <2>2, <2>3, <2>4 DEF SInv, Stages
  <1>9. \A q \in Calls : runner[q].at \in Live => runner[q].server # s
    <2> SUFFICES ASSUME NEW q \in Calls, runner[q].at \in Live, runner[q].server = s
                 PROVE  FALSE
      OBVIOUS
    <2>1. Creating(q) \/ Pooled(q) \/ Closing(q)
      BY DEF SInv, Places
    <2>2. q # 0
      BY DEF Calls
    <2>3. Creating(q)
      BY <2>1, <2>2 DEF Pooled, Closing
    <2>4. PICK x \in Procs : proc[x].at = "ready" /\ proc[x].call = q
      BY <2>3 DEF Creating
    <2>5. QED
      BY <1>1, <2>4, Awaited
  <1>10. Places'
    <2> SUFFICES ASSUME NEW q \in Calls, runner'[q].at \in Live
                 PROVE  runner'[q].server \in Servers /\ (Creating(q)' \/ Pooled(q)' \/ Closing(q)')
      BY DEF Places, Live
    <2>1. CASE q = r
      BY <1>3, <1>5, <1>6, <2>1 DEF Creating
    <2>2. CASE q # r
      <3>1. runner[q].server \in Servers /\ (Creating(q) \/ Pooled(q) \/ Closing(q))
        BY <1>5, <2>2 DEF SInv, Places
      <3>2. runner[q].server # s /\ runner'[q] = runner[q]
        BY <1>5, <1>9, <2>2
      <3>3. CASE Creating(q)
        BY <1>1, <1>2, <1>5, <3>1, <3>2, <3>3 DEF Creating
      <3>4. CASE Pooled(q)
        BY <1>5, <3>1, <3>2, <3>4 DEF Pooled
      <3>5. CASE Closing(q)
        BY <1>1, <1>2, <1>5, <3>1, <3>2, <3>5 DEF Closing, Closer
      <3>6. QED
        BY <3>1, <3>2, <3>3, <3>4, <3>5
    <2>3. QED
      BY <2>1, <2>2
  <1>11. Failures'
    <2> SUFFICES ASSUME NEW q \in Calls
                 PROVE  /\ shut'[q].at # "raised"
                        /\ runner'[q].at = "failed" =>
                             /\ shut'[q].at = "none"
                             /\ \A t \in Servers : tasks'[t] = q =>
                                  \E x \in Procs : proc'[x].at = "ready" /\ proc'[x].call = q
      BY DEF Failures
    <2>1. CASE q = r
      BY <1>4, <1>5, <1>6, <2>1
    <2>2. CASE q # r
      BY <1>1, <1>2, <1>5, <2>2 DEF SInv, Failures
    <2>3. QED
      BY <2>1, <2>2
  <1>12. QED
    BY <1>7, <1>8, <1>10, <1>11 DEF SInv

LEMMA GetSInv ==
  ASSUME IInv, SInv, Serial, NEW p \in Procs, NEW s \in Servers, Get(p, s)
  PROVE  SInv'
  <1> DEFINE c == Call(p, "get", s)
  <1>1. /\ Begin(p, {s}) /\ proc[p].at = "idle" /\ calls < MaxCalls /\ sessions[s] \in 0..MaxCalls
    BY DEF Get, Begin, IInv, TypeOK
  <1>2. c \in CallState /\ c.op = "get" /\ c.server = s /\ c.call = calls + 1
    BY <1>1, CallFields DEF Call, IInv
  <1>3. LockFree(s)
    <2>1. lock[s] = None
      BY <1>1, BeginAlone DEF IInv, TypeOK, LockHeld
    <2>2. QED
      BY <2>1 DEF LockFree, SInv, Stages
  <1> HIDE DEF c
  <1>4. CASE Answer(p, Return(c, sessions[s]))
    BY <1>1, <1>2, <1>4, CallTypes, AnswerSInv
  <1>5. CASE sessions[s] = 0 /\ Create(p, c)
    BY <1>1, <1>2, <1>5, CreateSInv
  <1>6. QED
    BY <1>2, <1>3, <1>4, <1>5 DEF Get, Obtain, c

LEMMA GetReadySInv ==
  ASSUME IInv, SInv, NEW p \in Procs, GetReady(p)
  PROVE  SInv'
  <1> DEFINE c == proc[p]
             r == c.call
             s == c.server
  <1>1. /\ c.at = "ready" /\ s \in Servers /\ r \in Calls /\ r # 0 /\ tasks[s] = r
        /\ runner[r].server = s /\ runner[r].at # "opening"
    BY Awaited DEF GetReady, Ready
  <1>2. sessions[s] \in 0..MaxCalls /\ c \in CallState
    BY <1>1 DEF IInv, TypeOK
  <1>3. PICK d \in {Raise(c), Return(c, sessions[s])} : proc' = [proc EXCEPT ![p] = d]
    BY DEF GetReady, Untrack
  <1>4. proc'[p].at = "idle" /\ \A q \in Procs : q # p => proc'[q] = proc[q]
    BY <1>2, <1>3, CallTypes DEF IInv, TypeOK
  <1>5. UNCHANGED <<sessions, closeLock, runner, shut>>
    BY DEF GetReady
  <1>6. \/ runner[r].at \in {"failed", "cancelled"} /\ tasks' = [tasks EXCEPT ![s] = 0]
        \/ runner[r].at \notin {"failed", "cancelled"} /\ tasks' = tasks
    BY DEF GetReady, Untrack
  <1>7. tasks'[s] \in {0, r} /\ \A t \in Servers : t # s => tasks'[t] = tasks[t]
    BY <1>1, <1>6 DEF IInv, TypeOK
  <1> HIDE DEF c, r, s
  <1>8. \A q \in Procs : proc[q].at = "ready" /\ q # p => proc[q].server # s /\ proc[q].call # r
    BY <1>1, Awaited DEF SInv, Alone, c, s
  <1>9. Alone'
    BY <1>4 DEF SInv, Alone
  <1>10. Stages'
    <2>1. closeLock # None => closeLock \in Procs /\ closeLock # p
      BY <1>1 DEF SInv, Stages, IInv, TypeOK, c
    <2>2. \A q \in Procs : proc[q].at # "gather"
      BY <1>1 DEF SInv, Stages, Alone, c, s, PoolAssumption
    <2>3. \A q \in Procs : proc[q].at = "ready" => proc[q].server \in Servers
      BY Awaited
    <2>4. QED
      BY <1>4, <1>5, <1>7, <1>8, <2>1, <2>2, <2>3 DEF SInv, Stages
  <1>11. Places'
    <2> SUFFICES ASSUME NEW q \in Calls, runner[q].at \in Live
                 PROVE  runner[q].server \in Servers /\ (Creating(q)' \/ Pooled(q)' \/ Closing(q)')
      BY <1>5 DEF Places, Live
    <2>1. runner[q].server \in Servers /\ (Creating(q) \/ Pooled(q) \/ Closing(q))
      BY DEF SInv, Places
    <2>2. tasks'[runner[q].server] = tasks[runner[q].server]
                \/ (tasks[runner[q].server] = r /\ q # r)
      <3>1. runner[q].at \notin {"failed", "cancelled"}
        BY DEF Live
      <3>2. QED
        BY <1>1, <1>6, <1>7, <2>1, <3>1
    <2>3. CASE Creating(q)
      <3>1. PICK x \in Procs : proc[x].at = "ready" /\ proc[x].call = q
        BY <2>3 DEF Creating
      <3>2. x # p
        BY <1>1, <2>3, <3>1 DEF Creating, c, r
      <3>3. QED
        BY <1>4, <1>5, <2>1, <2>2, <2>3, <3>1, <3>2 DEF Creating
    <2>4. CASE Pooled(q)
      BY <1>5, <2>1, <2>2, <2>4 DEF Pooled
    <2>5. CASE Closing(q)
      <3>1. shut[q].by # p
        BY <1>1, <2>5 DEF Closing, Closer, c
      <3>2. QED
        BY <1>4, <1>5, <2>1, <2>5, <3>1 DEF Closing, Closer
    <2>6. QED
      BY <2>1, <2>3, <2>4, <2>5
  <1>12. Failures'
    <2> SUFFICES ASSUME NEW q \in Calls
                 PROVE  /\ shut[q].at # "raised"
                        /\ runner[q].at = "failed" =>
                             /\ shut[q].at = "none"
                             /\ \A t \in Servers : tasks'[t] = q =>
                                  \E x \in Procs : proc'[x].at = "ready" /\ proc'[x].call = q
      BY <1>5 DEF Failures
    <2>1. shut[q].at # "raised" /\ (runner[q].at = "failed" => shut[q].at = "none")
      BY DEF SInv, Failures
    <2>2. ASSUME runner[q].at = "failed", NEW t \in Servers, tasks'[t] = q
          PROVE  \E x \in Procs : proc'[x].at = "ready" /\ proc'[x].call = q
      <3>1. tasks[t] = q /\ q # 0
        BY <1>1, <1>7, <2>2 DEF Calls
      <3>2. PICK x \in Procs : proc[x].at = "ready" /\ proc[x].call = q
        BY <2>2, <3>1 DEF SInv, Failures
      <3>3. x # p
        <4>1. ASSUME x = p PROVE FALSE
          <5>1. q = r /\ t = s
            BY <1>1, <3>1, <3>2, <4>1 DEF IInv, TrackedIsNotShutDown, c, r
          <5>2. QED
            BY <1>1, <1>6, <2>2, <3>1, <5>1 DEF IInv, TypeOK
        <4>2. QED
          BY <4>1
      <3>4. QED
        BY <1>4, <3>2, <3>3
    <2>3. QED
      BY <2>1, <2>2
  <1>13. QED
    BY <1>9, <1>10, <1>11, <1>12 DEF SInv

-----------------------------------------------------------------------------
\* A live runner whose own entries a step leaves alone stays where it is.
LEMMA PlaceKept ==
  ASSUME SInv, NEW q \in Calls, runner[q].at \in Live,
         runner'[q] = runner[q], shut'[q] = shut[q], UNCHANGED <<tasks, proc>>,
         sessions'[runner[q].server] = sessions[runner[q].server]
  PROVE  runner'[q].server \in Servers /\ (Creating(q)' \/ Pooled(q)' \/ Closing(q)')
  <1>1. runner[q].server \in Servers /\ (Creating(q) \/ Pooled(q) \/ Closing(q))
    BY DEF SInv, Places
  <1>2. QED
    BY <1>1 DEF Creating, Pooled, Closing, Closer

LEMMA RunnerSInv ==
  ASSUME IInv, SInv, Serial, NEW r \in Calls, Runner(r)
  PROVE  SInv'
  <1> DEFINE s == runner[r].server
  <1>1. UNCHANGED <<tasks, lock, closeLock, shut, proc, calls>>
    BY DEF Runner
  <1>2. runner[r].at \in Live /\ runner[r] \in RunnerState /\ r # 0
    BY DEF Runner, Respond, Unwind, Leave, Opened, OpenFailed, Stopped, Cancelled, Exited,
           ExitFailed, Crashed, IInv, TypeOK, Live, Calls
  <1>3. s \in Servers /\ (Creating(r) \/ Pooled(r) \/ Closing(r))
    BY <1>2 DEF SInv, Places
  <1>4. PICK at \in {"open", "exiting"} \cup Done :
          /\ runner' = [runner EXCEPT ![r].at = at]
          /\ \/ at = "open" /\ runner[r].at = "opening" /\ sessions' = [sessions EXCEPT ![s] = r]
             \/ at = "exiting" /\ runner[r].at = "open" /\ runner[r].stop /\ sessions' = sessions
             \/ /\ at \in Done /\ sessions' = [sessions EXCEPT ![s] = 0]
                /\ at = "failed" => runner[r].at = "opening"
    <2>1. ~ Crashed(r) /\ ~ ExitFailed(r)
      BY <1>3 DEF Crashed, ExitFailed, Serial, Creating, Pooled, Closing
    <2>2. ASSUME Opened(r) PROVE ~runner[r].stop /\ runner[r].at = "opening"
      BY <1>3, <2>2 DEF Opened, Creating, Pooled, Closing, IInv, TrackedIsNotShutDown, Calls
    <2>3. CASE Opened(r)
      BY <2>2, <2>3 DEF Opened
    <2>4. CASE Stopped(r)
      BY <2>4 DEF Stopped
    <2>5. CASE OpenFailed(r)
      BY <2>5 DEF OpenFailed, Finish, Done
    <2>6. CASE Exited(r)
      BY <2>6 DEF Exited, Finish, Done
    <2>7. CASE Cancelled(r)
      BY <2>7 DEF Cancelled, Finish, Done
    <2>8. QED
      BY <2>1, <2>3, <2>4, <2>5, <2>6, <2>7 DEF Runner, Respond, Unwind, Leave
  <1>5. /\ runner'[r].at = at /\ runner'[r].server = s
        /\ runner'[r].stop = runner[r].stop /\ runner'[r].cancel = runner[r].cancel
        /\ \A q \in Calls : q # r => runner'[q] = runner[q]
    BY <1>2, <1>4 DEF IInv, TypeOK, RunnerState
  <1>6. /\ at = "open" => sessions'[s] = r
        /\ at = "exiting" => sessions'[s] = sessions[s]
        /\ \A t \in Servers : t # s => sessions'[t] = sessions[t]
    BY <1>3, <1>4 DEF IInv, TypeOK, Done
  <1>7. runner[r].stop => ~Creating(r) /\ ~Pooled(r)
    BY <1>2, <1>3 DEF Creating, Pooled, IInv, TrackedIsNotShutDown
  <1>8. Alone' /\ Stages'
    BY <1>1 DEF SInv, Alone, Stages
  <1>9. Places'
    <2> SUFFICES ASSUME NEW q \in Calls, runner'[q].at \in Live
                 PROVE  runner'[q].server \in Servers /\ (Creating(q)' \/ Pooled(q)' \/ Closing(q)')
      BY DEF Places, Live
    <2>1. CASE q # r
      <3>1. runner'[q] = runner[q] /\ runner[q].server \in Servers
        BY <1>5, <2>1 DEF SInv, Places
      <3>2. runner[q].server # s
        BY <1>2, <2>1, <3>1, OneLive
      <3>3. QED
        BY <1>1, <1>6, <3>1, <3>2, PlaceKept
    <2>2. CASE q = r /\ at = "open"
      <3>1. Creating(r)
        BY <1>3, <1>4, <2>2 DEF Pooled, Closing, Done
      <3>2. QED
        BY <1>1, <1>3, <1>5, <1>6, <2>2, <3>1 DEF Creating, Pooled
    <2>3. CASE q = r /\ at = "exiting"
      <3>1. Closing(r)
        BY <1>3, <1>4, <1>7, <2>3 DEF Done
      <3>2. QED
        BY <1>1, <1>3, <1>5, <1>6, <2>3, <3>1 DEF Closing, Closer
    <2>4. QED
      BY <1>5, <2>1, <2>2, <2>3 DEF Done, Live
  <1>10. Failures'
    <2> SUFFICES ASSUME NEW q \in Calls
                 PROVE  /\ shut[q].at # "raised"
                        /\ runner'[q].at = "failed" =>
                             /\ shut[q].at = "none"
                             /\ \A t \in Servers : tasks[t] = q =>
                                  \E x \in Procs : proc[x].at = "ready" /\ proc[x].call = q
      BY <1>1 DEF Failures
    <2>1. CASE q # r
      BY <1>5, <2>1 DEF SInv, Failures
    <2>2. CASE q = r /\ at = "failed"
      <3>1. Creating(r)
        BY <1>3, <1>4, <2>2 DEF Pooled, Closing, Done
      <3>2. tasks[s] = r /\ shut[r].at = "none"
        BY <1>2, <1>3, <3>1 DEF Creating, IInv, TrackedIsNotShutDown
      <3>3. QED
        BY <2>2, <3>1, <3>2 DEF Creating
    <2>3. CASE q = r /\ at # "failed"
      BY <1>5, <2>3 DEF SInv, Failures
    <2>4. QED
      BY <2>1, <2>2, <2>3
  <1>11. QED
    BY <1>8, <1>9, <1>10 DEF SInv

LEMMA ShutdownSInv ==
  ASSUME IInv, SInv, NEW r \in Calls, Shutdown(r)
  PROVE  SInv'
  <1>1. UNCHANGED <<sessions, tasks, lock, closeLock, proc, calls>>
    BY DEF Shutdown
  <1>2. /\ runner[r] \in RunnerState /\ shut[r] \in ShutdownState
        /\ shut[r].at \in {"asked", "waiting"}
    BY DEF Shutdown, ShutdownStart, ShutdownTimeout, ShutdownDone, IInv, TypeOK
  <1>3. /\ \A q \in Calls : q # r => runner'[q] = runner[q] /\ shut'[q] = shut[q]
        /\ runner'[r].at = runner[r].at /\ runner'[r].server = runner[r].server
        /\ shut'[r].by = shut[r].by
        /\ \/ shut'[r].at = "waiting"
           \/ shut'[r].at = "ok" /\ runner[r].at \in Done
    <2>1. CASE ShutdownStart(r)
      BY <1>2, <2>1 DEF ShutdownStart, IInv, TypeOK, RunnerState, ShutdownState
    <2>2. CASE ShutdownTimeout(r)
      BY <1>2, <2>2 DEF ShutdownTimeout, IInv, TypeOK, RunnerState
    <2>3. CASE ShutdownDone(r)
      <3>1. runner[r].at # "failed"
        BY <1>2 DEF SInv, Failures
      <3>2. shut' = [shut EXCEPT ![r].at = "ok"] /\ runner' = runner /\ runner[r].at \in Done
        BY <2>3, <3>1 DEF ShutdownDone
      <3>3. QED
        BY <1>2, <3>2 DEF IInv, TypeOK, ShutdownState
    <2>4. QED
      BY <2>1, <2>2, <2>3 DEF Shutdown
  <1>4. Alone' /\ Stages'
    BY <1>1 DEF SInv, Alone, Stages
  <1>5. Places'
    <2> SUFFICES ASSUME NEW q \in Calls, runner'[q].at \in Live
                 PROVE  runner'[q].server \in Servers /\ (Creating(q)' \/ Pooled(q)' \/ Closing(q)')
      BY DEF Places, Live
    <2>1. CASE q # r
      BY <1>1, <1>3, <2>1, PlaceKept
    <2>2. CASE q = r
      <3>1. runner[r].at \in Live /\ shut'[r].at = "waiting"
        BY <1>3, <2>2 DEF Live, Done
      <3>2. runner[r].server \in Servers /\ (Creating(r) \/ Pooled(r) \/ Closing(r))
        BY <3>1 DEF SInv, Places
      <3>3. Closing(r)
        BY <1>2, <3>2 DEF Creating, Pooled, IInv, TrackedIsNotShutDown, Calls
      <3>4. QED
        BY <1>1, <1>3, <2>2, <3>1, <3>2, <3>3 DEF Closing, Closer
    <2>3. QED
      BY <2>1, <2>2
  <1>6. Failures'
    <2> SUFFICES ASSUME NEW q \in Calls
                 PROVE  /\ shut'[q].at # "raised"
                        /\ runner'[q].at = "failed" =>
                             /\ shut'[q].at = "none"
                             /\ \A t \in Servers : tasks[t] = q =>
                                  \E x \in Procs : proc[x].at = "ready" /\ proc[x].call = q
      BY <1>1 DEF Failures
    <2>1. CASE q # r
      BY <1>3, <2>1 DEF SInv, Failures
    <2>2. CASE q = r
      BY <1>2, <1>3, <2>2 DEF SInv, Failures
    <2>3. QED
      BY <2>1, <2>2
  <1>7. QED
    BY <1>4, <1>5, <1>6 DEF SInv

-----------------------------------------------------------------------------
LEMMA CloseSInv ==
  ASSUME IInv, SInv, Serial, NEW p \in Procs, NEW s \in Servers, Close(p, s)
  PROVE  SInv'
  <1> DEFINE c == Call(p, "close", s)
             r == tasks[s]
  <1>1. /\ Begin(p, {s}) /\ proc[p].at = "idle" /\ calls < MaxCalls
        /\ \A q \in Procs : proc[q].at # "idle" => q # p /\ proc[q].server \in Servers \ {s}
    <2>1. Begin(p, {s})
      BY DEF Close
    <2>2. QED
      BY <2>1, BeginAlone DEF Begin
  <1>2. c \in CallState /\ c.server = s /\ c.op = "close" /\ 0 \in 0..MaxCalls
    BY <1>1, CallFields DEF IInv, Call
  <1> HIDE DEF c
  <1>3. CASE Answer(p, Return(c, 0))
    BY <1>1, <1>2, <1>3, CallTypes, AnswerSInv
  <1>4. CASE /\ r # 0
             /\ tasks' = [tasks EXCEPT ![s] = 0]
             /\ runner' = [runner EXCEPT ![r].stop = TRUE]
             /\ shut' = [shut EXCEPT ![r] = [at |-> "waiting", by |-> p]]
             /\ proc' = [proc EXCEPT ![p] = Await(c, "closing")]
             /\ UNCHANGED <<sessions, lock, closeLock>>
    <2>1. r \in Calls /\ runner[r].server = s /\ runner[r] \in RunnerState
      BY <1>4 DEF IInv, TypeOK, TrackedIsNotShutDown, Calls
    <2>2. /\ proc'[p].at = "closing" /\ proc'[p].op = "close" /\ proc'[p].server = s
          /\ \A q \in Procs : q # p => proc'[q] = proc[q]
      <3>1. Await(c, "closing") = [c EXCEPT !.at = "closing"]
        BY DEF Await
      <3>2. QED
        BY <1>2, <1>4, <3>1 DEF IInv, TypeOK, CallState
    <2>3. /\ runner'[r].at = runner[r].at /\ runner'[r].server = s
          /\ shut'[r].at = "waiting" /\ shut'[r].by = p
          /\ \A q \in Calls : q # r => runner'[q] = runner[q] /\ shut'[q] = shut[q]
      BY <1>4, <2>1 DEF IInv, TypeOK, RunnerState
    <2>4. tasks'[s] = 0 /\ \A t \in Servers : t # s => tasks'[t] = tasks[t]
      BY <1>4 DEF IInv, TypeOK
    <2>5. UNCHANGED <<sessions, closeLock>>
      BY <1>4
    <2> HIDE DEF r
    <2>6. \A x \in Procs : ~(proc[x].at = "ready" /\ proc[x].call = r)
      BY <1>1, <2>1, Awaited
    <2>7. Alone'
      <3> SUFFICES ASSUME NEW x \in Procs, NEW y \in Procs,
                          proc'[x].at # "idle", proc'[y].at # "idle", x # y
                   PROVE  proc'[x].server \in Servers /\ proc'[x].server # proc'[y].server
        BY DEF Alone
      <3>1. CASE x = p
        BY <1>1, <2>2, <3>1
      <3>2. CASE y = p
        BY <1>1, <2>2, <3>2
      <3>3. CASE x # p /\ y # p
        BY <2>2, <3>3 DEF SInv, Alone
      <3>4. QED
        BY <3>1, <3>2, <3>3
    <2>8. Stages'
      <3>1. closeLock # None => closeLock \in Procs /\ proc[closeLock].at = "gather"
        BY DEF SInv, Stages, IInv, TypeOK
      <3>2. \A q \in Procs : proc[q].at # "gather"
        BY <1>1 DEF SInv, Stages
      <3>3. closeLock' = None
        BY <2>5, <3>1, <3>2
      <3>4. ASSUME NEW q \in Procs, q # p
            PROVE  proc'[q].at = "ready" => tasks'[proc'[q].server] = proc'[q].call
        BY <1>1, <2>2, <2>4, <3>4 DEF SInv, Stages
      <3>5. QED
        BY <2>2, <3>2, <3>3, <3>4 DEF SInv, Stages
    <2>9. Places'
      <3> SUFFICES ASSUME NEW q \in Calls, runner'[q].at \in Live
                   PROVE  runner'[q].server \in Servers /\ (Creating(q)' \/ Pooled(q)' \/ Closing(q)')
        BY DEF Places, Live
      <3>1. runner[q].at \in Live
        BY <2>1, <2>3
      <3>2. runner[q].server \in Servers /\ (Creating(q) \/ Pooled(q) \/ Closing(q))
        BY <3>1 DEF SInv, Places
      <3>3. CASE q = r
        <4>1. ~Creating(q)
          BY <2>6, <3>3 DEF Creating
        <4>2. runner[q].at \in {"open", "exiting"} /\ sessions[s] = q
          BY <2>1, <3>2, <3>3, <4>1 DEF Pooled, Closing
        <4>3. QED
          BY <2>2, <2>3, <2>5, <3>3, <4>2 DEF Closing, Closer
      <3>4. CASE q # r
        <4>1. runner[q].server # s \/ (~Creating(q) /\ ~Pooled(q))
          BY <3>4 DEF Creating, Pooled, r
        <4>2. runner'[q] = runner[q] /\ shut'[q] = shut[q]
          BY <2>3, <3>4
        <4>3. CASE Creating(q)
          BY <1>1, <2>2, <2>4, <2>5, <3>2, <4>1, <4>2, <4>3 DEF Creating
        <4>4. CASE Pooled(q)
          BY <2>4, <2>5, <3>2, <4>1, <4>2, <4>4 DEF Pooled
        <4>5. CASE Closing(q)
          BY <1>1, <2>2, <2>5, <3>2, <4>2, <4>5 DEF Closing, Closer
        <4>6. QED
          BY <3>2, <4>3, <4>4, <4>5
      <3>5. QED
        BY <3>3, <3>4
    <2>10. Failures'
      <3> SUFFICES ASSUME NEW q \in Calls
                   PROVE  /\ shut'[q].at # "raised"
                          /\ runner'[q].at = "failed" =>
                               /\ shut'[q].at = "none"
                               /\ \A t \in Servers : tasks'[t] = q =>
                                    \E x \in Procs : proc'[x].at = "ready" /\ proc'[x].call = q
        BY DEF Failures
      <3>1. CASE q = r
        <4>1. runner[r].at # "failed"
          BY <2>1, <2>6 DEF SInv, Failures, r
        <4>2. QED
          BY <2>3, <3>1, <4>1
      <3>2. CASE q # r
        <4>1. \A t \in Servers : tasks'[t] = q => tasks[t] = q
          BY <2>4 DEF Calls
        <4>2. QED
          BY <1>1, <2>2, <2>3, <3>2, <4>1 DEF SInv, Failures
      <3>3. QED
        BY <3>1, <3>2
    <2>11. QED
      BY <2>7, <2>8, <2>9, <2>10 DEF SInv
  <1>5. QED
    BY <1>3, <1>4 DEF Close, Untrack, c

\* When close_all begins every runner that lives is pooled, and so is tracked.
LEMMA CloseAllFinds ==
  ASSUME IInv, SInv, Serial, NEW p \in Procs, Begin(p, Servers)
  PROVE  /\ closeLock = None
         /\ \A q \in Procs : proc[q].at = "idle"
         /\ \A r \in Calls : runner[r].at \in Live => runner[r].server \in Servers /\ Pooled(r)
         /\ \A r \in Calls : runner[r].at = "failed" => \A s \in Servers : tasks[s] # r
  <1>1. \A q \in Procs : proc[q].at = "idle"
    BY DEF Begin, Serial
  <1>2. closeLock = None
    BY <1>1 DEF SInv, Stages, IInv, TypeOK
  <1>3. \A r \in Calls : runner[r].at \in Live => runner[r].server \in Servers /\ Pooled(r)
    BY <1>1 DEF SInv, Places, Creating, Closing, Closer
  <1>4. \A r \in Calls : runner[r].at = "failed" => \A s \in Servers : tasks[s] # r
    BY <1>1 DEF SInv, Failures
  <1>5. QED
    BY <1>1, <1>2, <1>3, <1>4

LEMMA CloseAllSInv ==
  ASSUME IInv, SInv, Serial, NEW p \in Procs, CloseAll(p)
  PROVE  SInv'
  <1> DEFINE c == Call(p, "close_all", None)
             tracked == {tasks[s] : s \in Servers} \ {0}
  <1>1. Begin(p, Servers) /\ calls < MaxCalls
    BY DEF CloseAll, Begin
  <1>2. c \in CallState /\ c.server = None /\ c.op = "close_all" /\ 0 \in 0..MaxCalls
    BY <1>1, CallFields DEF IInv, Call
  <1>3. /\ closeLock = None /\ \A q \in Procs : proc[q].at = "idle"
        /\ \A r \in Calls : runner[r].at \in Live => runner[r].server \in Servers /\ Pooled(r)
        /\ \A r \in Calls : runner[r].at = "failed" => \A s \in Servers : tasks[s] # r
    BY <1>1, CloseAllFinds
  <1> HIDE DEF c
  <1>4. CASE Answer(p, Return(c, 0))
    BY <1>2, <1>3, <1>4, CallTypes, AnswerSInv
  <1>5. CASE /\ tasks' = [s \in Servers |-> 0]
             /\ closeLock' = p
             /\ shut' = [r \in Calls |-> IF r \in tracked THEN [at |-> "asked", by |-> p]
                                                          ELSE shut[r]]
             /\ proc' = [proc EXCEPT ![p] = Await(c, "gather")]
             /\ UNCHANGED <<sessions, lock, runner>>
    <2>1. /\ proc'[p].at = "gather" /\ proc'[p].op = "close_all" /\ proc'[p].server = None
          /\ \A q \in Procs : q # p => proc'[q] = proc[q]
      <3>1. Await(c, "gather") = [c EXCEPT !.at = "gather"]
        BY DEF Await
      <3>2. QED
        BY <1>2, <1>5, <3>1 DEF IInv, TypeOK, CallState
    <2>2. Alone' /\ Stages'
      BY <1>3, <1>5, <2>1 DEF Alone, Stages
    <2>3. Places'
      <3> SUFFICES ASSUME NEW q \in Calls, runner[q].at \in Live
                   PROVE  runner[q].server \in Servers /\ Closing(q)'
        BY <1>5 DEF Places, Live
      <3>1. runner[q].server \in Servers /\ Pooled(q) /\ q \in tracked
        BY <1>3 DEF Pooled, Calls
      <3>2. shut'[q] = [at |-> "asked", by |-> p]
        BY <1>5, <3>1
      <3>3. QED
        BY <1>5, <2>1, <3>1, <3>2 DEF Pooled, Closing, Closer
    <2>4. Failures'
      <3> SUFFICES ASSUME NEW q \in Calls
                   PROVE  /\ shut'[q].at # "raised"
                          /\ runner[q].at = "failed" =>
                               shut'[q].at = "none" /\ \A s \in Servers : tasks'[s] # q
        BY <1>5 DEF Failures
      <3>1. CASE q \in tracked
        BY <1>3, <1>5, <3>1 DEF Calls
      <3>2. CASE q \notin tracked
        BY <1>5, <3>2 DEF SInv, Failures, Calls
      <3>3. QED
        BY <3>1, <3>2
    <2>5. QED
      BY <2>2, <2>3, <2>4 DEF SInv
  <1>6. QED
    BY <1>3, <1>4, <1>5 DEF CloseAll, Gather, c

\* close and close_all return when every _shutdown they made has, none of which raised.
LEMMA AllClosed ==
  ASSUME SInv, NEW p \in Procs, CloseReturns(p), NEW r \in Calls, shut[r].by = p
  PROVE  shut[r].at = "ok"
  BY DEF CloseReturns, ShutdownsOf, SInv, Failures

\* Nothing lives when close_all returns.
LEMMA GatherDone ==
  ASSUME IInv, SInv, NEW p \in Procs, CloseReturns(p), proc[p].at = "gather",
         NEW r \in Calls
  PROVE  runner[r].at \notin Live
  <1> SUFFICES ASSUME runner[r].at \in Live PROVE FALSE
    OBVIOUS
  <1>1. \A q \in Procs : q # p => proc[q].at = "idle"
    BY DEF SInv, Alone, Stages
  <1>2. runner[r].server \in Servers /\ (Creating(r) \/ Pooled(r) \/ Closing(r))
    BY DEF SInv, Places
  <1>3. \A s \in Servers : tasks[s] # r
    BY DEF SInv, Stages, Calls
  <1>4. Closing(r)
    BY <1>2, <1>3 DEF Creating, Pooled
  <1>5. shut[r].by = p
    BY <1>1, <1>4 DEF Closing, Closer
  <1>6. QED
    BY <1>4, <1>5, AllClosed DEF Closing

LEMMA CloseReturnsSInv ==
  ASSUME IInv, SInv, NEW p \in Procs, CloseReturns(p)
  PROVE  SInv'
  <1>1. UNCHANGED <<tasks, lock, runner, calls>> /\ proc[p].at \in {"closing", "gather"}
    BY DEF CloseReturns
  <1>2. proc'[p].at = "idle" /\ \A q \in Procs : q # p => proc'[q] = proc[q]
    <2>1. proc[p] \in CallState /\ 0 \in 0..MaxCalls
      BY DEF IInv, TypeOK
    <2>2. PICK d \in {Return(proc[p], 0), Raise(proc[p])} : proc' = [proc EXCEPT ![p] = d]
      BY DEF CloseReturns
    <2>3. d.at = "idle"
      BY <2>1, CallTypes
    <2>4. QED
      BY <2>2, <2>3 DEF IInv, TypeOK
  <1>3. \A r \in Calls : /\ shut'[r].at = shut[r].at
                         /\ shut[r].by # p => shut'[r].by = shut[r].by
    BY DEF CloseReturns, IInv, TypeOK, ShutdownState
  <1>4. proc[p].at = "closing" => sessions' = sessions
    BY DEF CloseReturns
  <1>5. Alone'
    BY <1>2 DEF SInv, Alone
  <1>6. Stages'
    <2>1. closeLock' # None => closeLock' \in Procs /\ closeLock' # p /\ closeLock' = closeLock
      BY DEF CloseReturns, SInv, Stages, IInv, TypeOK
    <2>2. QED
      BY <1>1, <1>2, <2>1 DEF SInv, Stages
  <1>7. Places'
    <2> SUFFICES ASSUME NEW r \in Calls, runner[r].at \in Live
                 PROVE  runner[r].server \in Servers /\ (Creating(r)' \/ Pooled(r)' \/ Closing(r)')
      BY <1>1 DEF Places, Live
    <2>1. proc[p].at = "closing" /\ sessions' = sessions
      BY <1>1, <1>4, GatherDone
    <2>2. runner[r].server \in Servers /\ (Creating(r) \/ Pooled(r) \/ Closing(r))
      BY DEF SInv, Places
    <2>3. CASE Creating(r)
      <3>1. PICK x \in Procs : proc[x].at = "ready" /\ proc[x].call = r
        BY <2>3 DEF Creating
      <3>2. proc'[x] = proc[x]
        BY <1>2, <2>1, <3>1
      <3>3. QED
        BY <1>1, <2>1, <2>2, <2>3, <3>1, <3>2 DEF Creating
    <2>4. CASE Pooled(r)
      BY <1>1, <2>1, <2>2, <2>4 DEF Pooled
    <2>5. CASE Closing(r)
      <3>1. shut[r].by # p
        BY <2>5, AllClosed DEF Closing
      <3>2. QED
        BY <1>1, <1>2, <1>3, <2>1, <2>2, <2>5, <3>1 DEF Closing, Closer
    <2>6. QED
      BY <2>2, <2>3, <2>4, <2>5
  <1>8. Failures'
    BY <1>1, <1>2, <1>3 DEF SInv, Failures
  <1>9. QED
    BY <1>5, <1>6, <1>7, <1>8 DEF SInv

-----------------------------------------------------------------------------
LEMMA NextSInv == Serial /\ IInv /\ SInv /\ [Next]_vars => SInv'
  <1> SUFFICES ASSUME Serial, IInv, SInv, [Next]_vars PROVE SInv'
    OBVIOUS
  <1>1. ASSUME NEW p \in Procs
        PROVE  ~GetLocked(p) /\ ~CancelGet(p) /\ ~CloseAllLocked(p)
    BY DEF GetLocked, CancelGet, CloseAllLocked, Serial, SInv, Stages
  <1>2. ASSUME NEW p \in Procs, NEW s \in Servers, Get(p, s) PROVE SInv'
    BY <1>2, GetSInv
  <1>3. ASSUME NEW p \in Procs, NEW s \in Servers, Close(p, s) PROVE SInv'
    BY <1>3, CloseSInv
  <1>4. ASSUME NEW p \in Procs, GetReady(p) PROVE SInv'
    BY <1>4, GetReadySInv
  <1>5. ASSUME NEW p \in Procs, CloseAll(p) PROVE SInv'
    BY <1>5, CloseAllSInv
  <1>6. ASSUME NEW p \in Procs, CloseReturns(p) PROVE SInv'
    BY <1>6, CloseReturnsSInv
  <1>7. ASSUME NEW r \in Calls, Runner(r) PROVE SInv'
    BY <1>7, RunnerSInv
  <1>8. ASSUME NEW r \in Calls, Shutdown(r) PROVE SInv'
    BY <1>8, ShutdownSInv
  <1>9. CASE Finished \/ UNCHANGED vars
    <2>1. UNCHANGED vars
      BY <1>9 DEF Finished
    <2>2. QED
      BY <2>1 DEF vars, pool, SInv, Alone, Stages, Places, Failures, Creating, Pooled,
                  Closing, Closer
  <1>10. QED
    BY <1>1, <1>2, <1>3, <1>4, <1>5, <1>6, <1>7, <1>8, <1>9 DEF Next

LEMMA SerialInvariant == ASSUME Serial PROVE Spec => [](IInv /\ SInv)
  <1>1. Init => IInv /\ SInv
    BY InitIInv, InitSInv
  <1>2. IInv /\ SInv /\ [Next]_vars => (IInv /\ SInv)'
    BY NextIInv, NextSInv
  <1>3. QED
    BY <1>1, <1>2, PTL DEF Spec

\* While calls on a server do not overlap and nobody is cancelled, a server that hangs
\* or cannot be opened never makes the pool start a second process beside a live one.
THEOREM SerialSingleRunner == ASSUME Serial PROVE Spec => []SingleRunner
  BY SerialInvariant, SerialSafety, PTL

\* ... and no runner is lost: whatever lives is tracked or being shut down.
THEOREM SerialNoOrphan == ASSUME Serial PROVE Spec => []NoOrphan
  BY SerialInvariant, SerialSafety, PTL

\* A call stays the operation it is.
LEMMA CallOps ==
  ASSUME NEW c \in CallState, NEW x
  PROVE  Await(c, x).op = c.op /\ Return(c, x).op = c.op /\ Raise(c).op = c.op
  BY DEF CallState, Await, Return, Raise

LEMMA CloseAllStep ==
  ASSUME Serial, IInv, SInv, [Next]_vars, NEW p \in Procs, Over(p), proc'[p].op = "close_all",
         NEW r \in Calls
  PROVE  runner'[r].at \notin Live
  <1>1. /\ proc'[p] # proc[p] /\ proc'[p].at = "idle"
        /\ \A q \in Procs : ~GetLocked(q) /\ ~CancelGet(q) /\ ~CloseAllLocked(q)
    BY DEF Over, GetLocked, CancelGet, CloseAllLocked, Serial, SInv, Stages
  <1>2. ASSUME NEW q \in Procs, NEW d, d.op # "close_all", proc' = [proc EXCEPT ![q] = d]
        PROVE  FALSE
    <2>1. proc'[q] = d /\ \A x \in Procs : x # q => proc'[x] = proc[x]
      BY <1>2 DEF IInv, TypeOK
    <2>2. QED
      BY <1>1, <1>2, <2>1
  <1>3. ASSUME NEW q \in Procs, NEW s \in Servers, Get(q, s) PROVE FALSE
    <2> DEFINE c == Call(q, "get", s)
    <2>1. c \in CallState /\ c.op = "get"
      BY <1>3, CallFields DEF Get, Begin, IInv, Call
    <2> HIDE DEF c
    <2>2. PICK x : \/ proc' = [proc EXCEPT ![q] = Return(c, x)]
                   \/ proc' = [proc EXCEPT ![q] = Await(c, x)]
      BY <1>3 DEF Get, Obtain, Create, Answer, c
    <2>3. QED
      BY <1>2, <2>1, <2>2, CallOps
  <1>4. ASSUME NEW q \in Procs, NEW s \in Servers, Close(q, s) PROVE FALSE
    <2> DEFINE c == Call(q, "close", s)
    <2>1. c \in CallState /\ c.op = "close"
      BY <1>4, CallFields DEF Close, Begin, IInv, Call
    <2> HIDE DEF c
    <2>2. PICK x : \/ proc' = [proc EXCEPT ![q] = Return(c, x)]
                   \/ proc' = [proc EXCEPT ![q] = Await(c, x)]
      BY <1>4 DEF Close, Answer, c
    <2>3. QED
      BY <1>2, <2>1, <2>2, CallOps
  <1>5. ASSUME NEW q \in Procs, GetReady(q) PROVE FALSE
    <2>1. proc[q] \in CallState /\ proc[q].op = "get"
      BY <1>5 DEF GetReady, SInv, Stages, IInv, TypeOK
    <2>2. \/ proc' = [proc EXCEPT ![q] = Raise(proc[q])]
          \/ proc' = [proc EXCEPT ![q] = Return(proc[q], sessions[proc[q].server])]
      BY <1>5 DEF GetReady
    <2>3. QED
      BY <1>2, <2>1, <2>2, CallOps
  <1>6. ASSUME NEW q \in Procs, CloseAll(q) PROVE runner'[r].at \notin Live
    <2> DEFINE c == Call(q, "close_all", None)
    <2>1. /\ Begin(q, Servers) /\ closeLock = None
          /\ \A x \in Calls : runner[x].at \in Live => runner[x].server \in Servers /\ Pooled(x)
      BY <1>6, CloseAllFinds DEF CloseAll
    <2>2. c \in CallState
      BY <2>1, CallFields DEF Begin, IInv
    <2> HIDE DEF c
    <2>3. Gather(q, c)
      BY <1>6, <2>1 DEF CloseAll, c
    <2>4. CASE {tasks[s] : s \in Servers} \ {0} = {} /\ Answer(q, Return(c, 0))
      <3>1. runner' = runner
        BY <2>4 DEF Answer, pool
      <3>2. runner[r].at \notin Live
        BY <2>1, <2>4 DEF Pooled, Calls
      <3>3. QED
        BY <3>1, <3>2 DEF Live
    <2>5. CASE proc' = [proc EXCEPT ![q] = Await(c, "gather")]
      <3>1. proc'[q].at = "gather" /\ \A x \in Procs : x # q => proc'[x] = proc[x]
        BY <2>2, <2>5 DEF IInv, TypeOK, CallState, Await
      <3>2. QED
        BY <1>1, <3>1
    <2>6. QED
      BY <2>3, <2>4, <2>5 DEF Gather
  <1>7. ASSUME NEW q \in Procs, CloseReturns(q) PROVE runner'[r].at \notin Live
    <2>1. proc[q] \in CallState /\ proc[q].at \in {"closing", "gather"} /\ runner' = runner
      BY <1>7 DEF CloseReturns, IInv, TypeOK
    <2>2. CASE proc[q].at = "gather"
      BY <1>7, <2>1, <2>2, GatherDone DEF Live
    <2>3. CASE proc[q].at = "closing"
      <3>1. proc[q].op = "close"
        BY <2>3 DEF SInv, Stages
      <3>2. \/ proc' = [proc EXCEPT ![q] = Raise(proc[q])]
            \/ proc' = [proc EXCEPT ![q] = Return(proc[q], 0)]
        BY <1>7 DEF CloseReturns
      <3>3. QED
        BY <1>2, <2>1, <3>1, <3>2, CallOps
    <2>4. QED
      BY <2>1, <2>2, <2>3
  <1>8. ASSUME NEW q \in Calls, Runner(q) \/ Shutdown(q) PROVE FALSE
    BY <1>1, <1>8 DEF Runner, Shutdown
  <1>9. CASE Finished \/ UNCHANGED vars
    BY <1>1, <1>9 DEF Finished, vars
  <1>10. QED
    BY <1>1, <1>3, <1>4, <1>5, <1>6, <1>7, <1>8, <1>9 DEF Next

\* ... and when close_all returns every session has been torn down.
THEOREM SerialCloseAll == ASSUME Serial PROVE Spec => CloseAllClosesAll
  <1>1. IInv /\ SInv /\ [Next]_vars =>
          [\A p \in Procs : Over(p) /\ proc'[p].op = "close_all" =>
             \A r \in Calls : runner'[r].at \notin Live]_vars
    BY CloseAllStep
  <1>2. QED
    BY <1>1, SerialInvariant, PTL DEF Spec, CloseAllClosesAll

-----------------------------------------------------------------------------
(* The pool implements SessionPool *)

Ended == {r \in Calls : runner[r].at \in Done}

\* A runner that has ended or could not be opened is over.
LEMMA RunnerMaps ==
  ASSUME Serial, IInv, SInv, NEW r \in Calls, Runner(r)
  PROVE  Pool!Next \/ UNCHANGED <<sessions, Ended>>
  <1>1. runner[r].at \in Live /\ runner[r] \in RunnerState /\ r # 0 /\ r \notin Ended
    BY DEF Runner, Respond, Unwind, Leave, Opened, OpenFailed, Stopped, Cancelled, Exited,
           ExitFailed, Crashed, IInv, TypeOK, Live, Calls, Ended, Done
  <1>2. PICK s \in Servers : s = runner[r].server /\ (Creating(r) \/ Pooled(r) \/ Closing(r))
    BY <1>1 DEF SInv, Places
  <1>3. ASSUME NEW at, runner' = [runner EXCEPT ![r].at = at]
        PROVE  Ended' = IF at \in Done THEN Ended \cup {r} ELSE Ended
    <2>1. runner'[r].at = at /\ \A q \in Calls : q # r => runner'[q] = runner[q]
      BY <1>1, <1>3 DEF IInv, TypeOK, RunnerState
    <2>2. QED
      BY <1>1, <2>1 DEF Ended, Done
  <1>4. CASE Opened(r)
    <2>1. Creating(r)
      BY <1>2, <1>4 DEF Opened, Pooled, Closing
    <2>2. sessions[s] = 0 /\ \A t \in Servers : sessions[t] # r
      BY <1>1, <1>2, <2>1 DEF Creating, IInv, PooledSessionIsHeld
    <2>3. sessions' = [sessions EXCEPT ![s] = r] /\ Ended' = Ended
      <3>1. PICK at \in {"open", "exiting"} : runner' = [runner EXCEPT ![r].at = at]
        BY <1>4 DEF Opened
      <3>2. QED
        BY <1>2, <1>3, <1>4, <3>1 DEF Opened, Done
    <2>4. Pool!Establish(s, r)
      BY <1>1, <2>2, <2>3 DEF Pool!Establish, Ended
    <2>5. QED
      BY <1>2, <2>4 DEF Pool!Next
  <1>5. CASE Stopped(r)
    <2>1. runner' = [runner EXCEPT ![r].at = "exiting"] /\ sessions' = sessions
      BY <1>5 DEF Stopped
    <2>2. runner'[r].at = "exiting" /\ \A q \in Calls : q # r => runner'[q] = runner[q]
      BY <1>1, <2>1 DEF IInv, TypeOK, RunnerState
    <2>3. Ended' = Ended
      BY <1>1, <2>2 DEF Ended, Done
    <2>4. QED
      BY <2>1, <2>3
  <1>6. CASE OpenFailed(r)
    <2>1. Creating(r)
      BY <1>2, <1>6 DEF OpenFailed, Pooled, Closing
    <2>2. sessions[s] = 0 /\ \A t \in Servers : sessions[t] # r
      BY <1>1, <1>2, <2>1 DEF Creating, IInv, PooledSessionIsHeld
    <2>3. sessions' = sessions /\ Ended' = Ended \cup {r}
      BY <1>2, <1>3, <1>6, <2>2 DEF OpenFailed, Finish, Done, IInv, TypeOK
    <2>4. Pool!Abandon(r)
      BY <2>2, <2>3 DEF Pool!Abandon, Ended
    <2>5. QED
      BY <2>4 DEF Pool!Next
  <1>7. CASE Exited(r) \/ Cancelled(r)
    <2>1. sessions[s] = r
      BY <1>2, <1>7 DEF Exited, Cancelled, Creating, Pooled, Closing
    <2>2. sessions' = [sessions EXCEPT ![s] = 0] /\ Ended' = Ended \cup {r}
      BY <1>2, <1>3, <1>7 DEF Exited, Cancelled, Finish, Done
    <2>3. Pool!End(s)
      BY <1>1, <2>1, <2>2 DEF Pool!End, Ended
    <2>4. \E t \in Servers : Pool!End(t)
      BY <1>2, <2>3
    <2>5. QED
      BY <2>4 DEF Pool!Next
  <1>8. ~Crashed(r) /\ ~ExitFailed(r)
    BY <1>2 DEF Crashed, ExitFailed, Serial, Creating, Pooled, Closing
  <1>9. QED
    BY <1>4, <1>5, <1>6, <1>7, <1>8 DEF Runner, Respond, Unwind, Leave

LEMMA StepMaps ==
  ASSUME Serial, IInv, SInv, [Next]_vars
  PROVE  Pool!Next \/ UNCHANGED <<sessions, Ended>>
  <1>1. ASSUME UNCHANGED <<sessions, runner>> PROVE UNCHANGED <<sessions, Ended>>
    BY <1>1 DEF Ended
  <1>2. ASSUME sessions' = sessions, runner' \in [Calls -> RunnerState],
               \A r \in Calls : runner'[r].at \in Done <=> runner[r].at \in Done
        PROVE  UNCHANGED <<sessions, Ended>>
    BY <1>2 DEF Ended
  <1>3. IInv'
    BY NextIInv
  <1>4. runner \in [Calls -> RunnerState] /\ runner' \in [Calls -> RunnerState]
    BY <1>3 DEF IInv, TypeOK
  <1>5. ASSUME NEW p \in Procs
        PROVE  ~GetLocked(p) /\ ~CancelGet(p) /\ ~CloseAllLocked(p)
    BY DEF GetLocked, CancelGet, CloseAllLocked, Serial, SInv, Stages
  <1>6. ASSUME NEW p \in Procs, NEW s \in Servers, Get(p, s)
        PROVE  UNCHANGED <<sessions, Ended>>
    <2> DEFINE c == Call(p, "get", s)
    <2>1. CASE Answer(p, Return(c, sessions[c.server])) \/ Answer(p, Await(c, "lock"))
      BY <1>1, <2>1 DEF Answer, pool
    <2>2. CASE Create(p, c)
      <3>1. calls + 1 \in Calls /\ runner[calls + 1] = Unborn
        <4>1. calls \in Nat /\ calls < MaxCalls /\ calls + 1 > calls
          BY <1>6 DEF Get, Begin, IInv, TypeOK
        <4>2. QED
          BY <4>1 DEF IInv, Fresh, Calls
      <3>2. c.call = calls + 1 /\ sessions' = sessions
        BY <2>2 DEF Create, Call
      <3>3. runner' = [runner EXCEPT ![calls + 1] = [Unborn EXCEPT !.at = "opening", !.server = s]]
        BY <2>2 DEF Create, Call
      <3>4. /\ runner'[calls + 1].at = "opening" /\ runner[calls + 1].at = "unborn"
            /\ \A q \in Calls : q # calls + 1 => runner'[q] = runner[q]
        BY <1>4, <3>1, <3>3 DEF Unborn
      <3>5. \A q \in Calls : runner'[q].at \in Done <=> runner[q].at \in Done
        BY <3>4 DEF Done
      <3>6. QED
        BY <1>2, <1>4, <3>2, <3>5
    <2>3. QED
      BY <1>6, <2>1, <2>2 DEF Get, Obtain
  <1>7. ASSUME NEW p \in Procs, NEW s \in Servers, Close(p, s)
        PROVE  UNCHANGED <<sessions, Ended>>
    <2> DEFINE r == tasks[s]
    <2>1. CASE r = 0
      BY <1>1, <1>7, <2>1 DEF Close, Answer, pool
    <2>2. CASE r # 0
      <3>1. r \in Calls /\ sessions' = sessions /\ runner' = [runner EXCEPT ![r].stop = TRUE]
        BY <1>7, <2>2 DEF Close, IInv, TypeOK, Calls
      <3>2. runner[r] \in RunnerState
        BY <1>4, <3>1
      <3>3. runner'[r].at = runner[r].at /\ \A q \in Calls : q # r => runner'[q] = runner[q]
        BY <1>4, <3>1, <3>2 DEF RunnerState
      <3>4. QED
        BY <1>2, <1>4, <3>1, <3>3
    <2>3. QED
      BY <2>1, <2>2
  <1>8. ASSUME NEW p \in Procs, GetReady(p) PROVE UNCHANGED <<sessions, Ended>>
    BY <1>1, <1>8 DEF GetReady
  <1>9. ASSUME NEW p \in Procs, CloseAll(p) PROVE UNCHANGED <<sessions, Ended>>
    BY <1>1, <1>9 DEF CloseAll, Gather, Answer, pool
  <1>10. ASSUME NEW p \in Procs, CloseReturns(p) PROVE UNCHANGED <<sessions, Ended>>
    <2>1. runner' = runner /\ sessions \in [Servers -> 0..MaxCalls]
      BY <1>10 DEF CloseReturns, IInv, TypeOK
    <2>2. CASE proc[p].at = "gather"
      <3>1. \A s \in Servers : sessions[s] = 0
        BY <1>10, <2>1, <2>2, GatherDone DEF IInv, PooledSessionIsHeld, Live, Calls
      <3>2. sessions' = sessions
        BY <1>10, <2>1, <3>1 DEF CloseReturns
      <3>3. QED
        BY <1>1, <2>1, <3>2
    <2>3. CASE proc[p].at # "gather"
      BY <1>1, <1>10, <2>1, <2>3 DEF CloseReturns
    <2>4. QED
      BY <2>2, <2>3
  <1>11. ASSUME NEW r \in Calls, Runner(r) PROVE Pool!Next \/ UNCHANGED <<sessions, Ended>>
    BY <1>11, RunnerMaps
  <1>12. ASSUME NEW r \in Calls, Shutdown(r) PROVE UNCHANGED <<sessions, Ended>>
    <2>1. runner[r] \in RunnerState /\ sessions' = sessions
      BY <1>4, <1>12 DEF Shutdown
    <2>2. /\ runner'[r].at = runner[r].at
          /\ \A q \in Calls : q # r => runner'[q] = runner[q]
      BY <1>4, <1>12, <2>1 DEF Shutdown, ShutdownStart, ShutdownTimeout, ShutdownDone, RunnerState
    <2>3. QED
      BY <1>2, <1>4, <2>1, <2>2
  <1>13. CASE Finished \/ UNCHANGED vars
    BY <1>1, <1>13 DEF Finished, vars, pool
  <1>14. QED
    BY <1>5, <1>6, <1>7, <1>8, <1>9, <1>10, <1>11, <1>12, <1>13 DEF Next

\* ... and its callers see a SessionPool: no session is overwritten, dropped or popped by
\* another's runner.
THEOREM SerialImplementsPool == ASSUME Serial PROVE Spec => PoolSpec
  <1>1. Init => Pool!Init
    BY DEF Init, Pool!Init, Unborn, Done
  <1>2. IInv /\ SInv /\ [Next]_vars => [Pool!Next]_<<sessions, Ended>>
    BY StepMaps
  <1>3. QED
    BY <1>1, <1>2, SerialInvariant, PTL DEF Spec, PoolSpec, Pool!Spec, Ended
=============================================================================
