---------------------------- MODULE ToolboxProofs ----------------------------
(* The tool calls of a turn, for any tools, files, agents and profiles, and any *)
(* number of calls and of tasks side by side: a call and its processes, where a *)
(* tool may leave its marks, and what edits outlive.                           *)
EXTENDS Toolbox, TLAPS, FiniteSetTheorems, SequenceTheorems, WellFoundedInduction

\* The outputs among the files: the output of call n is kept as file n.
Right(kept) == \A n \in DOMAIN kept \cap Nat : kept[n] = <<n>>

IsCall(r) ==
  /\ r = [at |-> r.at, of |-> r.of, form |-> r.form, tries |-> r.tries, ok |-> r.ok,
          update |-> r.update]
  /\ Right(r.update.files)
IsProcess(p) ==
  p = [call |-> p.call, kind |-> p.kind, at |-> p.at, view |-> p.view, old |-> p.old,
       text |-> p.text, ok |-> p.ok, orphan |-> p.orphan, try |-> p.try]

\* Calls are numbered as they are issued, a task's before those of its subagent; a
\* process is that of a call.
CallsListed ==
  /\ \E n \in Nat : DOMAIN calls = 1..n
  /\ calls = [c \in DOMAIN calls |-> calls[c]]
  /\ \A c \in DOMAIN calls : /\ IsCall(calls[c]) /\ calls[c].form \in Forms
                             /\ calls[c].of \in {0} \cup DOMAIN calls
  /\ batch \subseteq DOMAIN calls
ProcsListed == \A p \in procs : IsProcess(p) /\ p.call \in DOMAIN calls

\* A run is there for the agent and for each task that is under way.
RunsListed ==
  /\ DOMAIN files = {0} \cup {c \in batch : calls[c].at = "delegated"}
  /\ \A c \in batch : calls[c].at = "delegated" => calls[c].of = 0

\* A process runs where the map of its agent sends its call, orphaned or not: the
\* process itself, a command outside, a worker in the mounts of its profile.
AgentIsConfigs == agent.config \in Configs /\ agent.main = Agent(agent.config)
RunsWhereSent(p) ==
  \/ /\ p.kind = "process" /\ Where(Caller(p.call), calls[p.call].form) = "process"
     /\ Actual(Caller(p.call), calls[p.call].form) \in FileTools \cap Rewriting
  \/ /\ p.kind = "command" /\ Where(Caller(p.call), calls[p.call].form) = "process"
     /\ Actual(Caller(p.call), calls[p.call].form) \in Programs
  \/ /\ p.kind \in DOMAIN Profiles /\ Where(Caller(p.call), calls[p.call].form) = p.kind
     /\ \A q \in Paths : p.view[q] = "write" => \E m \in Profiles[p.kind].write : Within(q, m)

Formed == CallsListed /\ ProcsListed
Awaited == AnsweredIsOver /\ RunsListed
IInv ==
  /\ Formed
  /\ AgentIsConfigs
  /\ Awaited
  /\ \A p \in procs : RunsWhereSent(p)

\* The files of each run hold outputs as their calls gave them, the agent's those
\* the conversation refers to among them.
Outputs == (\A run \in DOMAIN files : Right(files[run])) /\ chat \subseteq DOMAIN files[0] \cap Nat

USE ToolboxAssumption

-----------------------------------------------------------------------------
(* Records *)

LEMMA Moved ==
  ASSUME NEW r, IsCall(r), NEW at
  PROVE  LET s == [r EXCEPT !.at = at] IN
         IsCall(s) /\ s.at = at /\ s.form = r.form /\ s.of = r.of
  <1>1. [r EXCEPT !.at = at] =
          [at |-> at, of |-> r.of, form |-> r.form, tries |-> r.tries, ok |-> r.ok,
           update |-> r.update]
    BY DEF IsCall
  <1>2. QED
    BY <1>1 DEF IsCall

\* What a process keeps for good.
SameProcess(p, q) ==
  IsProcess(q) /\ q.call = p.call /\ q.kind = p.kind /\ q.view = p.view

LEMMA Moves ==
  ASSUME NEW p, IsProcess(p), NEW at
  PROVE  LET q == [p EXCEPT !.at = at] IN
         SameProcess(p, q) /\ q.orphan = p.orphan /\ q.ok = p.ok /\ q.text = p.text /\ q.old = p.old
  <1>1. [p EXCEPT !.at = at] =
          [call |-> p.call, kind |-> p.kind, at |-> at, view |-> p.view, old |-> p.old,
           text |-> p.text, ok |-> p.ok, orphan |-> p.orphan, try |-> p.try]
    BY DEF IsProcess
  <1>2. QED
    BY <1>1 DEF IsProcess, SameProcess

LEMMA Ends ==
  ASSUME NEW p, IsProcess(p), NEW ok
  PROVE  LET q == [p EXCEPT !.ok = ok] IN SameProcess(p, q) /\ q.orphan = p.orphan
  <1>1. [p EXCEPT !.ok = ok] =
          [call |-> p.call, kind |-> p.kind, at |-> p.at, view |-> p.view, old |-> p.old,
           text |-> p.text, ok |-> ok, orphan |-> p.orphan, try |-> p.try]
    BY DEF IsProcess
  <1>2. QED
    BY <1>1 DEF IsProcess, SameProcess

\* What it has read and what it is to write.
ReadAs(p, at, text, old) == [p EXCEPT !.at = at, !.text = text, !.old = old]
LEMMA Reads ==
  ASSUME NEW p, IsProcess(p), NEW at, NEW text, NEW old
  PROVE  LET q == ReadAs(p, at, text, old) IN
         /\ SameProcess(p, q) /\ q.orphan = p.orphan
         /\ q.at = at /\ q.text = text /\ q.old = old
  <1> DEFINE rec(a, t, o) ==
               [call |-> p.call, kind |-> p.kind, at |-> a, view |-> p.view, old |-> o,
                text |-> t, ok |-> p.ok, orphan |-> p.orphan, try |-> p.try]
  <1>1. ReadAs(p, at, text, old) = [[[p EXCEPT !.at = at] EXCEPT !.text = text] EXCEPT !.old = old]
    BY DEF IsProcess, ReadAs
  <1>2. [p EXCEPT !.at = at] = rec(at, p.text, p.old)
    BY DEF IsProcess
  <1>3. [rec(at, p.text, p.old) EXCEPT !.text = text] = rec(at, text, p.old)
    OBVIOUS
  <1>4. [rec(at, text, p.old) EXCEPT !.old = old] = rec(at, text, old)
    OBVIOUS
  <1>5. ReadAs(p, at, text, old) = rec(at, text, old)
    BY <1>1, <1>2, <1>3, <1>4
  <1>6. QED
    BY <1>5 DEF IsProcess, SameProcess

LEMMA Leaves ==
  ASSUME NEW p, IsProcess(p), NEW b
  PROVE  LET q == [p EXCEPT !.orphan = b] IN SameProcess(p, q) /\ q.orphan = b
  <1>1. [p EXCEPT !.orphan = b] =
          [call |-> p.call, kind |-> p.kind, at |-> p.at, view |-> p.view, old |-> p.old,
           text |-> p.text, ok |-> p.ok, orphan |-> b, try |-> p.try]
    BY DEF IsProcess
  <1>2. QED
    BY <1>1 DEF IsProcess, SameProcess

-----------------------------------------------------------------------------
(* The calls *)

\* Every call remains that of its run, in its form.
SameCalls ==
  /\ DOMAIN calls \subseteq DOMAIN calls'
  /\ \A c \in DOMAIN calls : calls'[c].form = calls[c].form /\ calls'[c].of = calls[c].of

\* A step that makes one call another, of the same form.
LEMMA OneCall ==
  ASSUME CallsListed, NEW c \in DOMAIN calls, NEW r, IsCall(r), r.form = calls[c].form,
         r.of = calls[c].of, calls' = [calls EXCEPT ![c] = r], batch' \subseteq batch
  PROVE  /\ CallsListed' /\ calls'[c] = r /\ DOMAIN calls' = DOMAIN calls
         /\ \A d \in DOMAIN calls : d # c => calls'[d] = calls[d]
         /\ SameCalls
  <1>1. DOMAIN calls' = DOMAIN calls
    OBVIOUS
  <1>2. calls'[c] = r /\ \A d \in DOMAIN calls : d # c => calls'[d] = calls[d]
    OBVIOUS
  <1>3. calls' = [d \in DOMAIN calls' |-> calls'[d]]
    OBVIOUS
  <1>4. \A d \in DOMAIN calls : /\ IsCall(calls'[d]) /\ calls'[d].form = calls[d].form
                                /\ calls'[d].of = calls[d].of
    BY <1>2 DEF CallsListed
  <1>5. CallsListed'
    BY <1>1, <1>3, <1>4 DEF CallsListed
  <1>6. QED
    BY <1>1, <1>2, <1>4, <1>5 DEF SameCalls

\* So a call remains its agent's.
LEMMA SameCaller ==
  ASSUME CallsListed, SameCalls, UNCHANGED agent, NEW c \in DOMAIN calls
  PROVE  Caller(c)' = Caller(c)
  <1>1. calls[c].of \in {0} \cup DOMAIN calls /\ calls'[c].of = calls[c].of
    BY DEF CallsListed, SameCalls
  <1>2. QED
    BY <1>1 DEF Caller, Runner, SameCalls

\* Processes that are those there were, with other fields, run where they did.
LEMMA ProcsKept ==
  ASSUME IInv, CallsListed', UNCHANGED agent, SameCalls,
         \A q \in procs' : \E p \in procs : SameProcess(p, q),
         Awaited'
  PROVE  IInv'
  <1>1. ASSUME NEW q \in procs'
        PROVE  IsProcess(q) /\ q.call \in DOMAIN calls' /\ RunsWhereSent(q)'
    <2>1. PICK p \in procs : SameProcess(p, q)
      OBVIOUS
    <2>2. p.call \in DOMAIN calls /\ RunsWhereSent(p)
      BY DEF IInv, Formed, ProcsListed
    <2>3. /\ Caller(p.call)' = Caller(p.call) /\ calls'[p.call].form = calls[p.call].form
          /\ p.call \in DOMAIN calls'
      BY <2>2, SameCaller DEF SameCalls, IInv, Formed
    <2>4. q.call = p.call /\ q.kind = p.kind /\ q.view = p.view /\ IsProcess(q)
      BY <2>1 DEF SameProcess
    <2>5. QED
      BY <2>2, <2>3, <2>4 DEF RunsWhereSent
  <1>2. AgentIsConfigs'
    BY DEF IInv, AgentIsConfigs
  <1>3. QED
    BY <1>1, <1>2 DEF IInv, Formed, ProcsListed

LEMMA SameProcs ==
  ASSUME ProcsListed, NEW p \in procs
  PROVE  SameProcess(p, p)
  BY DEF ProcsListed, SameProcess

\* A call that is not under way as a task has no run, and one of its own has one.
LEMMA RunOf ==
  ASSUME IInv, NEW c \in batch
  PROVE  /\ c \in DOMAIN calls /\ c # 0 /\ calls[c].of \in DOMAIN files
         /\ c \in DOMAIN files <=> calls[c].at = "delegated"
         /\ calls[c].of # 0 => calls[c].of \in batch /\ calls[calls[c].of].at = "delegated"
  <1>1. c \in DOMAIN calls /\ c # 0
    BY DEF IInv, Formed, CallsListed
  <1>2. calls[c].of # 0 => calls[c].of \in batch /\ calls[calls[c].of].at = "delegated"
    BY DEF IInv, Awaited, AnsweredIsOver, BatchOf
  <1>3. QED
    BY <1>1, <1>2 DEF IInv, Awaited, RunsListed

LEMMA RunIs ==
  ASSUME IInv, NEW run \in DOMAIN files, run # 0
  PROVE  run \in batch /\ run \in DOMAIN calls /\ calls[run].at = "delegated" /\ calls[run].of = 0
  BY DEF IInv, Awaited, RunsListed, Formed, CallsListed

\* A call is answered or started that is no task under way; those awaited go on.
LEMMA AwaitedOn ==
  ASSUME IInv, NEW c \in DOMAIN calls, calls[c].at # "delegated", calls'[c].at # "delegated",
         DOMAIN calls' = DOMAIN calls, SameCalls,
         \A d \in DOMAIN calls : d # c => calls'[d] = calls[d],
         UNCHANGED <<batch, files>>,
         \A p \in procs' : ~p.orphan =>
            /\ p.call \in batch /\ calls'[p.call].at = "waiting"
            /\ \A q \in procs' \ {p} : q.call = p.call => q.orphan
  PROVE  Awaited'
  <1>1. batch \subseteq DOMAIN calls
    BY DEF IInv, Formed, CallsListed
  <1>2. \A d \in batch : (calls'[d].at = "delegated" <=> calls[d].at = "delegated")
                         /\ calls'[d].of = calls[d].of
    BY <1>1 DEF SameCalls
  <1>3. RunsListed'
    BY <1>2 DEF IInv, Awaited, RunsListed
  <1>4. ASSUME NEW d \in batch, calls'[d].of # 0
        PROVE  LET task == calls'[d].of IN
               task \in batch /\ calls'[task].of = 0 /\ calls'[task].at = "delegated"
    <2>1. calls'[d].of = calls[d].of
      BY <1>2
    <2>2. calls[d].of \in batch /\ calls[calls[d].of].of = 0 /\ calls[calls[d].of].at = "delegated"
      BY <1>4, <2>1 DEF IInv, Awaited, AnsweredIsOver, BatchOf
    <2>3. QED
      BY <1>2, <2>1, <2>2
  <1>5. AnsweredIsOver'
    BY <1>4 DEF AnsweredIsOver, BatchOf
  <1>6. QED
    BY <1>3, <1>5 DEF Awaited

\* What becomes of a call that is answered.
LEMMA AnswerMakes ==
  ASSUME CallsListed, NEW c \in DOMAIN calls, NEW ok, NEW update, Answer(c, ok, update),
         Right(update.files), batch' \subseteq batch
  PROVE  /\ CallsListed' /\ DOMAIN calls' = DOMAIN calls /\ SameCalls
         /\ \A d \in DOMAIN calls : d # c => calls'[d] = calls[d]
         /\ calls'[c].at = "done" /\ calls'[c].ok = ok /\ calls'[c].update = update
  <1> DEFINE r == [calls[c] EXCEPT !.at = "done", !.ok = ok, !.update = update]
  <1>1. calls' = [calls EXCEPT ![c] = r] /\ IsCall(calls[c])
    BY DEF Answer, CallsListed
  <1>2. /\ IsCall(r) /\ r.form = calls[c].form /\ r.of = calls[c].of
        /\ r.at = "done" /\ r.ok = ok /\ r.update = update
    <2> DEFINE old == calls[c]
    <2>1. IsCall(old)
      BY <1>1
    <2> HIDE DEF old
    <2> DEFINE rec(at, o, u) ==
                 [at |-> at, of |-> old.of, form |-> old.form, tries |-> old.tries, ok |-> o,
                  update |-> u]
    <2>2. r = [[[old EXCEPT !.at = "done"] EXCEPT !.ok = ok] EXCEPT !.update = update]
      BY <2>1 DEF IsCall, old
    <2>3. [old EXCEPT !.at = "done"] = rec("done", old.ok, old.update)
      BY <2>1 DEF IsCall
    <2>4. [rec("done", old.ok, old.update) EXCEPT !.ok = ok] = rec("done", ok, old.update)
      OBVIOUS
    <2>5. [rec("done", ok, old.update) EXCEPT !.update = update] = rec("done", ok, update)
      OBVIOUS
    <2> HIDE DEF r
    <2>6. r = rec("done", ok, update)
      BY <2>2, <2>3, <2>4, <2>5
    <2>7. QED
      BY <2>6 DEF IsCall, old
  <1> HIDE DEF r
  <1>3. QED
    BY <1>1, <1>2, OneCall

\* A call is answered that had no process, or whose last one is gone.
LEMMA AnswerIInv ==
  ASSUME IInv, NEW c \in DOMAIN calls, NEW ok, NEW update, Answer(c, ok, update),
         calls[c].at # "delegated",
         Right(update.files), UNCHANGED <<agent, batch, files>>, procs' \subseteq procs,
         \A p \in procs' : p.call = c => p.orphan
  PROVE  IInv'
  <1>1. /\ CallsListed' /\ DOMAIN calls' = DOMAIN calls /\ SameCalls
        /\ \A d \in DOMAIN calls : d # c => calls'[d] = calls[d]
        /\ calls'[c].at = "done"
    BY AnswerMakes DEF IInv, Formed
  <1>2. ASSUME NEW p \in procs', ~p.orphan
        PROVE  /\ p.call \in batch /\ calls'[p.call].at = "waiting"
               /\ \A q \in procs' \ {p} : q.call = p.call => q.orphan
    <2>1. /\ p.call \in batch /\ calls[p.call].at = "waiting"
          /\ \A q \in procs \ {p} : q.call = p.call => q.orphan
      BY <1>2 DEF IInv, Awaited, AnsweredIsOver
    <2>2. p.call \in DOMAIN calls /\ p.call # c
      BY <1>2, <2>1 DEF IInv, Formed, CallsListed
    <2>3. QED
      BY <2>1, <2>2, <1>1
  <1>3. Awaited'
    BY <1>1, <1>2, AwaitedOn
  <1>4. \A q \in procs' : \E p \in procs : SameProcess(p, q)
    BY SameProcs DEF IInv, Formed
  <1>5. QED
    BY <1>1, <1>3, <1>4, ProcsKept

\* A call that is issued has no process but those of attempts that were given up.
LEMMA IssuedAlone ==
  ASSUME IInv, NEW c, calls[c].at # "waiting", NEW p \in procs, p.call = c
  PROVE  p.orphan
  BY DEF IInv, Awaited, AnsweredIsOver

LEMMA AnswerIssued ==
  ASSUME IInv, NEW c \in batch, calls[c].at = "issued", UNCHANGED <<agent, batch, procs, files>>,
         \E ok, update : Right(update.files) /\ Answer(c, ok, update)
  PROVE  IInv'
  <1>1. c \in DOMAIN calls
    BY DEF IInv, Formed, CallsListed
  <1>2. QED
    BY <1>1, IssuedAlone, AnswerIInv

\* What a call has to say of the files agrees with the outputs they hold.
LEMMA NothingSaid == Right(NoUpdate.files) /\ Right(<<>>)
  BY EmptySeq DEF Right, NoUpdate

LEMMA StoredRight ==
  ASSUME NEW c, NEW tool, NEW large
  PROVE  Right(Stored(c, tool, large).files)
  <1> DEFINE kept == [output \in {c} |-> <<c>>]
  <1>1. [NoUpdate EXCEPT !.files = kept].files = kept
    BY DEF NoUpdate
  <1>2. Right(kept)
    BY DEF Right
  <1> HIDE DEF kept
  <1>3. QED
    BY <1>1, <1>2, NothingSaid DEF Stored, kept

LEMMA TextAnswers ==
  ASSUME NEW c, NEW ok, AnswerText(c, ok)
  PROVE  \E update : Right(update.files) /\ Answer(c, ok, update)
  BY StoredRight, NothingSaid DEF AnswerText

LEMMA MemoryRight ==
  ASSUME NEW kept, Right(kept), NEW c, NEW name, name \notin Nat, NEW olds
  PROVE  /\ Right(WriteMemory(kept, c, name).files)
         /\ Right(EditMemory(kept, c, name, olds).files)
  BY DEF Right, WriteMemory, EditMemory

LEMMA InProcessAnswers ==
  ASSUME IInv, Outputs, NEW c \in batch, InProcess(c)
  PROVE  \E ok, update : Right(update.files) /\ Answer(c, ok, update)
  <1> DEFINE form == Form(c)
             kept == KeptFor(c)
  <1>1. Right(kept)
    BY RunOf DEF Outputs, KeptFor
  <1>2. form.name \notin Nat
    <2>1. calls[c].form \in Forms
      BY DEF IInv, Formed, CallsListed
    <2>2. "name" \in DOMAIN calls[c].form /\ calls[c].form.name \notin Nat
      BY <2>1, BindingAssumption
    <2>3. QED
      BY <2>2 DEF Form
  <1>3. \/ \E ok : AnswerText(c, ok)
        \/ Catalog(c, form) \/ SkillCatalog(c, form)
        \/ Memory(c, form) \/ Todos(c, form)
    BY DEF InProcess
  <1>4. Memory(c, form) => \E ok, update : Right(update.files) /\ Answer(c, ok, update)
    <2> HIDE DEF form
    <2>1. /\ Right(WriteMemory(kept, c, form.name).files)
          /\ Right(EditMemory(kept, c, form.name, form.olds).files)
      BY <1>1, <1>2, MemoryRight
    <2>2. QED
      BY <2>1, TextAnswers, NothingSaid DEF Memory
  <1> HIDE DEF form
  <1>5. Todos(c, form) => \E ok, update : Right(update.files) /\ Answer(c, ok, update)
    BY TextAnswers, NothingSaid DEF Todos
  <1>6. Catalog(c, form) \/ SkillCatalog(c, form) \/ (\E ok : AnswerText(c, ok))
          => \E ok, update : Right(update.files) /\ Answer(c, ok, update)
    BY TextAnswers DEF Catalog, SkillCatalog
  <1>7. QED
    BY <1>3, <1>4, <1>5, <1>6

\* A process of its own for a call that is issued.
LEMMA StartIInv ==
  ASSUME IInv, NEW c \in batch, calls[c].at = "issued", NEW kind, NEW view,
         Started(c, Process(c, kind, view)), UNCHANGED <<agent, batch, files>>,
         RunsWhereSent(Process(c, kind, view))
  PROVE  IInv'
  <1> DEFINE r == [calls[c] EXCEPT !.at = "waiting"]
             new == Process(c, kind, view)
  <1>1. c \in DOMAIN calls /\ IsCall(calls[c])
    BY DEF IInv, Formed, CallsListed
  <1>2. calls' = [calls EXCEPT ![c] = r] /\ procs' = procs \cup {new}
    BY DEF Started
  <1>3. IsCall(r) /\ r.at = "waiting" /\ r.form = calls[c].form /\ r.of = calls[c].of
    BY <1>1, Moved
  <1>4. IsProcess(new) /\ new.call = c /\ ~new.orphan
    BY DEF IsProcess, Process
  <1> HIDE DEF r, new
  <1>5. /\ CallsListed' /\ DOMAIN calls' = DOMAIN calls /\ calls'[c] = r /\ SameCalls
        /\ \A d \in DOMAIN calls : d # c => calls'[d] = calls[d]
    BY <1>1, <1>2, <1>3, OneCall DEF IInv, Formed
  <1>6. \A p \in procs : p.call = c => p.orphan
    BY IssuedAlone
  <1>7. Awaited'
    <2>1. ASSUME NEW p \in procs', ~p.orphan
          PROVE  /\ p.call \in batch /\ calls'[p.call].at = "waiting"
                 /\ \A q \in procs' \ {p} : q.call = p.call => q.orphan
      <3>1. CASE p = new
        BY <1>2, <1>3, <1>4, <1>5, <1>6, <3>1
      <3>2. CASE p # new
        <4>1. /\ p \in procs /\ p.call \in batch /\ calls[p.call].at = "waiting" /\ p.call # c
              /\ \A q \in procs \ {p} : q.call = p.call => q.orphan
          BY <1>2, <1>6, <2>1, <3>2 DEF IInv, Awaited, AnsweredIsOver
        <4>2. p.call \in DOMAIN calls
          BY <4>1 DEF IInv, Formed, ProcsListed
        <4>3. QED
          BY <1>2, <1>4, <1>5, <4>1, <4>2
      <3>3. QED
        BY <3>1, <3>2
    <2>2. QED
      BY <1>1, <1>3, <1>5, <2>1, AwaitedOn
  <1>8. ASSUME NEW p \in procs'
        PROVE  IsProcess(p) /\ p.call \in DOMAIN calls' /\ RunsWhereSent(p)'
    <2>1. IsProcess(p) /\ p.call \in DOMAIN calls /\ RunsWhereSent(p)
      BY <1>1, <1>2, <1>4 DEF IInv, Formed, ProcsListed, new
    <2>2. Caller(p.call)' = Caller(p.call) /\ calls'[p.call].form = calls[p.call].form
      BY <1>5, <2>1, SameCaller DEF SameCalls, IInv, Formed
    <2>3. QED
      BY <1>5, <2>1, <2>2 DEF RunsWhereSent
  <1>9. QED
    BY <1>5, <1>7, <1>8 DEF IInv, Formed, ProcsListed, AgentIsConfigs

-----------------------------------------------------------------------------
(* The processes *)

\* Nothing is said of calls or runs; processes stay those of their calls.
LEMMA SameAwaited ==
  ASSUME IInv, UNCHANGED <<calls, batch, files>>,
         \A p \in procs' : ~p.orphan =>
            /\ p.call \in batch /\ calls[p.call].at = "waiting"
            /\ \A q \in procs' \ {p} : q.call = p.call => q.orphan
  PROVE  Awaited' /\ CallsListed' /\ SameCalls
  <1>1. RunsListed'
    BY DEF IInv, Awaited, RunsListed
  <1>2. \A c \in batch : LET task == calls[c].of IN
          task # 0 => task \in BatchOf(0) /\ calls[task].at = "delegated"
    BY DEF IInv, Awaited, AnsweredIsOver
  <1>3. AnsweredIsOver'
    BY <1>2 DEF AnsweredIsOver, BatchOf
  <1>4. CallsListed' /\ SameCalls
    BY DEF IInv, Formed, CallsListed, SameCalls
  <1>5. QED
    BY <1>1, <1>3, <1>4 DEF Awaited

\* A step of a process makes it one that is at another point.
LEMMA BecomesIInv ==
  ASSUME IInv, NEW p \in procs, NEW q, SameProcess(p, q), q.orphan = p.orphan, Becomes(p, q),
         UNCHANGED <<agent, calls, batch, files>>
  PROVE  IInv'
  <1>1. procs' = (procs \ {p}) \cup {q} /\ q.call = p.call
    BY DEF Becomes, SameProcess
  <1>2. ASSUME NEW x \in procs', ~x.orphan
        PROVE  /\ x.call \in batch /\ calls[x.call].at = "waiting"
               /\ \A y \in procs' \ {x} : y.call = x.call => y.orphan
    <2>1. CASE x = q
      BY <1>1, <1>2, <2>1 DEF IInv, Awaited, AnsweredIsOver
    <2>2. CASE x # q
      BY <1>1, <1>2, <2>2 DEF IInv, Awaited, AnsweredIsOver
    <2>3. QED
      BY <2>1, <2>2
  <1>3. \A y \in procs' : \E x \in procs : SameProcess(x, y)
    BY <1>1, SameProcs DEF IInv, Formed
  <1>4. Awaited' /\ CallsListed' /\ SameCalls
    BY <1>2, SameAwaited
  <1>5. QED
    BY <1>3, <1>4, ProcsKept

\* Whatever a process does it stays that of its call, and it changes what its view
\* lets it write.
LEMMA StepIInv ==
  ASSUME IInv, NEW p \in procs, ProcessStep(p)
  PROVE  IInv' /\ (UNCHANGED disk \/ \E s : Changes(p, Left(disk, p.view, s)))
  <1>1. IsProcess(p) /\ UNCHANGED <<agent, calls, batch, files>>
    BY DEF IInv, Formed, ProcsListed, ProcessStep
  <1>2. ASSUME NEW at, NEW ok, Becomes(p, [p EXCEPT !.at = at, !.ok = ok])
        PROVE  IInv'
    <2> DEFINE m == [p EXCEPT !.at = at]
               q == [p EXCEPT !.at = at, !.ok = ok]
    <2>1. SameProcess(p, m) /\ m.orphan = p.orphan
      BY <1>1, Moves
    <2>2. q = [m EXCEPT !.ok = ok]
      BY <1>1 DEF IsProcess
    <2> HIDE DEF m
    <2>3. SameProcess(m, [m EXCEPT !.ok = ok]) /\ [m EXCEPT !.ok = ok].orphan = m.orphan
      BY <2>1, Ends DEF SameProcess
    <2>4. Becomes(p, q)
      BY <1>2
    <2> HIDE DEF q
    <2>5. SameProcess(p, q) /\ q.orphan = p.orphan
      BY <2>1, <2>2, <2>3 DEF SameProcess
    <2>6. QED
      BY <1>1, <2>4, <2>5, BecomesIInv
  <1>3. ASSUME NEW text, NEW old, Becomes(p, ReadAs(p, "read", text, old))
        PROVE  IInv'
    <2>1. SameProcess(p, ReadAs(p, "read", text, old)) /\ ReadAs(p, "read", text, old).orphan = p.orphan
      BY <1>1, Reads
    <2>2. QED
      BY <1>1, <1>3, <2>1, BecomesIInv
  <1>4. CASE Read(p)
    <2>1. PICK form, s : IF form.tool \in Rewriting /\ s.ok
            THEN /\ UNCHANGED <<disk, by>>
                 /\ Becomes(p, ReadAs(p, "read", s.d[Target(p)], TextAt(Seen(disk, p.view), Target(p))))
            ELSE /\ Changes(p, Left(disk, p.view, s))
                 /\ Becomes(p, [p EXCEPT !.at = "over", !.ok = s.ok])
      BY <1>4 DEF Read, ReadAs
    <2>2. QED
      BY <2>1, <1>2, <1>3
  <1>5. CASE Open(p)
    <2>1. PICK s : /\ Changes(p, Left(disk, p.view, s))
                   /\ Becomes(p, [p EXCEPT !.at = IF s.ok THEN "open" ELSE "over", !.ok = s.ok])
      BY <1>5 DEF Open
    <2>2. QED
      BY <2>1, <1>2
  <1>6. CASE Write(p)
    <2>1. PICK s : Changes(p, Left(disk, p.view, s)) /\ Becomes(p, [p EXCEPT !.at = "over"])
      BY <1>6 DEF Write
    <2>2. QED
      BY <1>1, <2>1, Moves, BecomesIInv
  <1>7. QED
    BY <1>4, <1>5, <1>6 DEF ProcessStep

\* Its answer is that of a call that has no other process.
LEMMA ProcessAnswers ==
  ASSUME IInv, NEW p \in procs, ~p.orphan, NEW ok, AnswerText(p.call, ok),
         procs' = procs \ {p}, UNCHANGED <<agent, batch, files>>
  PROVE  IInv'
  <1>1. p.call \in DOMAIN calls
    BY DEF IInv, Formed, ProcsListed
  <1>2. /\ \A q \in procs' : q.call = p.call => q.orphan
        /\ calls[p.call].at # "delegated"
    BY DEF IInv, Awaited, AnsweredIsOver
  <1>3. PICK update : Right(update.files) /\ Answer(p.call, ok, update)
    BY TextAnswers
  <1>4. QED
    BY <1>1, <1>2, <1>3, AnswerIInv

LEMMA ExitIInv ==
  ASSUME IInv, NEW p \in procs, Exit(p)
  PROVE  IInv'
  <1>1. CASE p.orphan /\ UNCHANGED calls
    <2>1. procs' \subseteq procs /\ UNCHANGED <<agent, batch, calls, files>>
      BY <1>1 DEF Exit
    <2>2. \A x \in procs' : ~x.orphan =>
            /\ x.call \in batch /\ calls[x.call].at = "waiting"
            /\ \A y \in procs' \ {x} : y.call = x.call => y.orphan
      BY <2>1 DEF IInv, Awaited, AnsweredIsOver
    <2>3. Awaited' /\ CallsListed' /\ SameCalls
      BY <2>1, <2>2, SameAwaited
    <2>4. \A y \in procs' : \E x \in procs : SameProcess(x, y)
      BY <2>1, SameProcs DEF IInv, Formed
    <2>5. QED
      BY <2>1, <2>3, <2>4, ProcsKept
  <1>2. CASE ~p.orphan /\ \E ok : AnswerText(p.call, ok)
    BY <1>2, ProcessAnswers DEF Exit
  <1>3. QED
    BY <1>1, <1>2 DEF Exit

LEMMA TimeoutIInv ==
  ASSUME IInv, NEW p \in procs, Timeout(p)
  PROVE  IInv'
  BY ProcessAnswers DEF Timeout, Kill

-----------------------------------------------------------------------------
(* Tasks *)

\* A task's run begins with none of its calls.
LEMMA DelegateIInv ==
  ASSUME IInv, NEW c \in batch, Delegate(c)
  PROVE  IInv' /\ SameCalls
  <1> DEFINE r == [calls[c] EXCEPT !.at = "delegated"]
  <1>1. c \in DOMAIN calls /\ IsCall(calls[c]) /\ calls[c].at = "issued"
    BY DEF IInv, Formed, CallsListed, Delegate, Ready
  <1>2. calls' = [calls EXCEPT ![c] = r] /\ UNCHANGED <<agent, batch, procs>>
    BY DEF Delegate
  <1>3. IsCall(r) /\ r.at = "delegated" /\ r.form = calls[c].form /\ r.of = calls[c].of
    BY <1>1, Moved
  <1> HIDE DEF r
  <1>4. /\ CallsListed' /\ DOMAIN calls' = DOMAIN calls /\ calls'[c] = r /\ SameCalls
        /\ \A d \in DOMAIN calls : d # c => calls'[d] = calls[d]
    BY <1>1, <1>2, <1>3, OneCall DEF IInv, Formed
  <1>5. calls[c].of = 0 /\ DOMAIN files' = DOMAIN files \cup {c}
    BY DEF Delegate, Subs
  <1>6. \A d \in batch : /\ calls'[d].of = calls[d].of
                         /\ calls'[d].at = "delegated" <=> (calls[d].at = "delegated" \/ d = c)
    BY <1>3, <1>4 DEF SameCalls, IInv, Formed, CallsListed
  <1>7. RunsListed'
    BY <1>2, <1>5, <1>6 DEF RunsListed, IInv, Awaited
  <1>8. AnsweredIsOver'
    <2>1. ASSUME NEW p \in procs, ~p.orphan
          PROVE  p.call \in batch /\ calls'[p.call].at = "waiting"
      <3>1. p.call \in batch /\ calls[p.call].at = "waiting" /\ p.call # c
        BY <1>1, <2>1 DEF IInv, Awaited, AnsweredIsOver
      <3>2. QED
        BY <3>1, <1>4 DEF IInv, Formed, CallsListed
    <2>2. ASSUME NEW d \in batch, calls'[d].of # 0
          PROVE  LET task == calls'[d].of IN
                 task \in batch /\ calls'[task].of = 0 /\ calls'[task].at = "delegated"
      <3>1. calls[d].of \in batch /\ calls[calls[d].of].of = 0
            /\ calls[calls[d].of].at = "delegated" /\ calls'[d].of = calls[d].of
        BY <1>6, <2>2 DEF IInv, Awaited, AnsweredIsOver, BatchOf
      <3>2. QED
        BY <3>1, <1>6
    <2>3. \A p \in procs : ~p.orphan => \A q \in procs \ {p} : q.call = p.call => q.orphan
      BY DEF IInv, Awaited, AnsweredIsOver
    <2>4. QED
      BY <1>2, <2>1, <2>2, <2>3 DEF AnsweredIsOver, BatchOf
  <1>9. \A y \in procs' : \E x \in procs : SameProcess(x, y)
    BY <1>2, SameProcs DEF IInv, Formed
  <1>10. QED
    BY <1>2, <1>4, <1>7, <1>8, <1>9, ProcsKept DEF Awaited

\* A task under way is over, and none of its calls is left.
LEMMA RunOver ==
  ASSUME IInv, NEW c \in DOMAIN files \ {0}, Ended(c), CallsListed', UNCHANGED agent,
         DOMAIN calls' = DOMAIN calls, SameCalls, batch' \subseteq batch,
         \A d \in batch \ batch' : calls[d].of = c,
         \A d \in batch' : calls[d].of # c,
         calls'[c].at # "delegated", \A d \in DOMAIN calls : d # c => calls'[d] = calls[d],
         \A q \in procs' : \E p \in procs : SameProcess(p, q),
         \A q \in procs' : ~q.orphan => q \in procs /\ q.call \in batch' /\ q.call # c,
         \A q \in procs' : ~q.orphan => \A y \in procs' \ {q} : y.call = q.call => y.orphan
  PROVE  IInv'
  <1>1. c \in batch /\ c \in DOMAIN calls /\ calls[c].at = "delegated" /\ calls[c].of = 0
    BY RunIs
  <1>2. \A d \in batch : /\ d \in DOMAIN calls /\ calls'[d].of = calls[d].of
                         /\ d # c => calls'[d] = calls[d]
    BY DEF SameCalls, IInv, Formed, CallsListed
  <1>3. \A d \in batch : calls[d].of = 0 => d \in batch'
    BY <1>1
  <1>4. RunsListed'
    <2>1. DOMAIN files' = DOMAIN files \ {c}
      BY DEF Ended
    <2>2. DOMAIN files = {0} \cup {d \in batch : calls[d].at = "delegated"}
          /\ \A d \in batch : calls[d].at = "delegated" => calls[d].of = 0
      BY DEF IInv, Awaited, RunsListed
    <2>3. \A d \in batch' : d \in batch /\ (calls'[d].at = "delegated"
                                            <=> calls[d].at = "delegated" /\ d # c)
      BY <1>2
    <2>4. \A d : d \in DOMAIN files' <=> d = 0 \/ (d \in batch' /\ calls'[d].at = "delegated")
      BY <1>1, <1>3, <2>1, <2>2, <2>3
    <2>5. \A d \in batch' : calls'[d].at = "delegated" => calls'[d].of = 0
      BY <1>2, <2>2, <2>3
    <2>6. DOMAIN files' = {0} \cup {d \in batch' : calls'[d].at = "delegated"}
      BY <2>4
    <2>7. QED
      BY <2>5, <2>6 DEF RunsListed
  <1>5. AnsweredIsOver'
    <2>1. ASSUME NEW p \in procs', ~p.orphan
          PROVE  p.call \in batch' /\ calls'[p.call].at = "waiting"
      BY <1>2, <2>1 DEF IInv, Awaited, AnsweredIsOver
    <2>2. ASSUME NEW d \in batch', calls'[d].of # 0
          PROVE  LET task == calls'[d].of IN
                 task \in batch' /\ calls'[task].of = 0 /\ calls'[task].at = "delegated"
      <3>1. d \in batch /\ calls[d].of # c
        OBVIOUS
      <3>2. calls'[d].of = calls[d].of /\ calls[d].of \in batch /\ calls[calls[d].of].of = 0
            /\ calls[calls[d].of].at = "delegated"
        BY <1>2, <2>2, <3>1 DEF IInv, Awaited, AnsweredIsOver, BatchOf
      <3>3. QED
        BY <1>2, <1>3, <3>1, <3>2
    <2>3. QED
      BY <2>1, <2>2 DEF AnsweredIsOver, BatchOf
  <1>6. QED
    BY <1>4, <1>5, ProcsKept DEF Awaited

\* The answer of a task is that of the run, or a failure.
LEMMA TaskAnswered ==
  ASSUME IInv, NEW c \in DOMAIN files \ {0}, Ended(c), NEW ok, NEW update, Right(update.files),
         Answer(c, ok, update), UNCHANGED <<agent, procs>>, batch' = batch \ BatchOf(c),
         Active(c) = {}
  PROVE  IInv' /\ SameCalls
  <1>1. c \in batch /\ c \in DOMAIN calls /\ calls[c].at = "delegated" /\ calls[c].of = 0
    BY RunIs
  <1>2. /\ CallsListed' /\ DOMAIN calls' = DOMAIN calls /\ SameCalls /\ calls'[c].at = "done"
        /\ \A d \in DOMAIN calls : d # c => calls'[d] = calls[d]
    BY <1>1, AnswerMakes DEF IInv, Formed
  <1>3. ASSUME NEW q \in procs, ~q.orphan
        PROVE  /\ q.call \in batch' /\ q.call # c
               /\ \A y \in procs \ {q} : y.call = q.call => y.orphan
    <2>1. /\ q.call \in batch /\ calls[q.call].at = "waiting"
          /\ \A y \in procs \ {q} : y.call = q.call => y.orphan
      BY <1>3 DEF IInv, Awaited, AnsweredIsOver
    <2>2. QED
      BY <1>1, <2>1 DEF Active
  <1>4. (\A d \in batch \ batch' : calls[d].of = c) /\ (\A d \in batch' : calls[d].of # c)
    BY DEF BatchOf
  <1>5. \A q \in procs' : \E p \in procs : SameProcess(p, q)
    BY SameProcs DEF IInv, Formed
  <1>6. QED
    BY <1>2, <1>3, <1>4, <1>5, RunOver

LEMMA TaskIInv ==
  ASSUME IInv, Outputs, NEW c, TaskEnds(c)
  PROVE  IInv' /\ SameCalls
  <1>1. c \in DOMAIN files \ {0} /\ Right(files[c])
    BY DEF TaskEnds, Outputs
  <1>2. PICK ok, update : Right(update.files) /\ Answer(c, ok, update)
    BY <1>1, NothingSaid DEF TaskEnds
  <1>3. batch' = batch \ BatchOf(c) /\ Active(c) = {} /\ UNCHANGED <<agent, procs>> /\ Ended(c)
    BY DEF TaskEnds, Active
  <1>4. QED
    BY <1>1, <1>2, <1>3, TaskAnswered

-----------------------------------------------------------------------------
(* Attempts and turns that are given up *)

\* What is orphaned stays what it was.
LEMMA OrphanedProcs ==
  ASSUME ProcsListed, NEW S, Orphaned(S)
  PROVE  /\ \A q \in procs' : \E p \in procs : SameProcess(p, q)
         /\ \A q \in procs' : q \in procs \/ q.orphan
         /\ \A q \in procs' : ~q.orphan => q \notin S
         /\ \A q \in procs' : \E p \in procs : q.call = p.call /\ (q = p \/ (p \in S /\ q.orphan))
  <1> SUFFICES ASSUME NEW q \in procs'
               PROVE  \E p \in procs :
                        /\ SameProcess(p, q) /\ (p \notin S => q = p)
                        /\ p \in S => q.orphan
    BY DEF SameProcess
  <1>1. PICK p \in procs : q = IF p \in S THEN [p EXCEPT !.orphan = TRUE] ELSE p
    BY DEF Orphaned
  <1>2. IsProcess(p) /\ SameProcess(p, p)
    BY SameProcs DEF ProcsListed
  <1>3. CASE p \in S
    <2>1. \E b : b = TRUE /\ q = [p EXCEPT !.orphan = b]
      BY <1>1, <1>3
    <2>2. PICK b : b = TRUE /\ q = [p EXCEPT !.orphan = b]
      BY <2>1
    <2>3. SameProcess(p, q) /\ q.orphan = b
      BY <1>2, <2>2, Leaves
    <2>4. QED
      BY <1>3, <2>2, <2>3
  <1>4. CASE p \notin S
    BY <1>1, <1>2, <1>4
  <1>5. QED
    BY <1>3, <1>4

\* The calls of a turn that is given up have orphans only.
LEMMA TurnDropped ==
  ASSUME IInv, GiveUp, UNCHANGED agent
  PROVE  IInv'
  <1>1. UNCHANGED calls /\ batch' = {} /\ DOMAIN files' = {0}
    BY DEF GiveUp
  <1>2. \A q \in procs' : q.orphan
    BY OrphanedProcs DEF GiveUp, IInv, Formed
  <1>3. Awaited'
    BY <1>1, <1>2 DEF Awaited, AnsweredIsOver, RunsListed
  <1>4. CallsListed' /\ SameCalls
    BY <1>1 DEF IInv, Formed, CallsListed, SameCalls
  <1>5. \A q \in procs' : \E p \in procs : SameProcess(p, q)
    BY OrphanedProcs DEF GiveUp, IInv, Formed
  <1>6. QED
    BY <1>3, <1>4, <1>5, ProcsKept

\* What becomes of a call that is tried again.
LEMMA RetryMakes ==
  ASSUME CallsListed, NEW c \in DOMAIN calls, batch' \subseteq batch,
         calls' = [calls EXCEPT ![c] = [@ EXCEPT !.at = "issued", !.tries = calls[c].tries + 1]]
  PROVE  /\ CallsListed' /\ DOMAIN calls' = DOMAIN calls /\ SameCalls
         /\ \A d \in DOMAIN calls : d # c => calls'[d] = calls[d]
         /\ calls'[c].at = "issued"
  <1> DEFINE old == calls[c]
             r == [old EXCEPT !.at = "issued", !.tries = old.tries + 1]
             rec(at, n) == [at |-> at, of |-> old.of, form |-> old.form, tries |-> n,
                            ok |-> old.ok, update |-> old.update]
  <1>1. IsCall(old)
    BY DEF CallsListed
  <1>2. calls' = [calls EXCEPT ![c] = r]
    BY <1>1 DEF IsCall
  <1> HIDE DEF old
  <1>3. r = [[old EXCEPT !.at = "issued"] EXCEPT !.tries = old.tries + 1]
    BY <1>1 DEF IsCall
  <1>4. [old EXCEPT !.at = "issued"] = rec("issued", old.tries)
    BY <1>1 DEF IsCall
  <1>5. [rec("issued", old.tries) EXCEPT !.tries = old.tries + 1] = rec("issued", old.tries + 1)
    OBVIOUS
  <1> HIDE DEF r
  <1>6. r = rec("issued", old.tries + 1)
    BY <1>3, <1>4, <1>5
  <1>7. IsCall(r) /\ r.form = old.form /\ r.of = old.of /\ r.at = "issued"
    <2>1. r.update = old.update /\ r.form = old.form /\ r.of = old.of
      BY <1>6
    <2>2. Right(r.update.files)
      BY <1>1, <2>1 DEF IsCall
    <2>3. QED
      BY <1>6, <2>1, <2>2 DEF IsCall
  <1>8. r.form = calls[c].form /\ r.of = calls[c].of
    BY <1>7 DEF old
  <1>9. QED
    BY <1>2, <1>7, <1>8, OneCall

\* An attempt that takes too long leaves an orphan, a task's those of its run, and
\* another one starts.
LEMMA RetryIInv ==
  ASSUME IInv, NEW c \in batch, calls[c].at \in {"waiting", "delegated"}, UNCHANGED agent,
         Orphaned({p \in procs : p.call = c \/ calls[p.call].of = c}),
         calls' = [calls EXCEPT ![c] = [@ EXCEPT !.at = "issued", !.tries = calls[c].tries + 1]],
         batch' = batch \ BatchOf(c), Ended(c)
  PROVE  IInv'
  <1> DEFINE S == {p \in procs : p.call = c \/ calls[p.call].of = c}
  <1>1. c \in DOMAIN calls /\ ProcsListed
    BY DEF IInv, Formed, CallsListed
  <1>2. /\ CallsListed' /\ DOMAIN calls' = DOMAIN calls /\ SameCalls /\ calls'[c].at = "issued"
        /\ \A d \in DOMAIN calls : d # c => calls'[d] = calls[d]
    BY <1>1, RetryMakes DEF IInv, Formed
  <1>3. /\ \A q \in procs' : \E p \in procs : SameProcess(p, q)
        /\ \A q \in procs' : q \in procs \/ q.orphan
        /\ \A q \in procs' : ~q.orphan => q \notin S
    BY <1>1, OrphanedProcs
  <1>4. ASSUME NEW q \in procs', ~q.orphan
        PROVE  /\ q \in procs /\ q.call \in batch' /\ q.call # c
               /\ \A y \in procs' \ {q} : y.call = q.call => y.orphan
    <2>1. q \in procs /\ q \notin S
      BY <1>3, <1>4
    <2>2. q.call \in batch /\ \A y \in procs \ {q} : y.call = q.call => y.orphan
      BY <1>4, <2>1 DEF IInv, Awaited, AnsweredIsOver
    <2>3. QED
      BY <1>3, <2>1, <2>2 DEF BatchOf
  <1>5. (\A d \in batch \ batch' : calls[d].of = c) /\ (\A d \in batch' : calls[d].of # c)
    BY DEF BatchOf
  <1>6. CASE calls[c].at = "delegated"
    <2>1. c \in DOMAIN files \ {0}
      BY <1>6, RunOf
    <2>2. QED
      BY <1>2, <1>3, <1>4, <1>5, <2>1, RunOver
  <1>7. CASE calls[c].at # "delegated"
    <2>1. \A d \in batch : calls[d].of # c
      BY <1>1, <1>7, RunOf
    <2>2. batch' = batch /\ c \notin DOMAIN files
      BY <1>7, <2>1, RunOf DEF BatchOf
    <2>3. DOMAIN files' = DOMAIN files
      BY <2>2 DEF Ended
    <2>4. RunsListed'
      <3>1. \A d \in batch : (calls'[d].at = "delegated" <=> calls[d].at = "delegated")
                             /\ calls'[d].of = calls[d].of
        BY <1>2, <1>7 DEF SameCalls, IInv, Formed, CallsListed
      <3>2. QED
        BY <2>2, <2>3, <3>1 DEF IInv, Awaited, RunsListed
    <2>5. ASSUME NEW p \in procs', ~p.orphan
          PROVE  calls'[p.call].at = "waiting"
      <3>1. calls[p.call].at = "waiting" /\ p.call # c /\ p.call \in DOMAIN calls
        BY <1>4, <2>5 DEF IInv, Awaited, AnsweredIsOver, Formed, ProcsListed
      <3>2. QED
        BY <1>2, <3>1
    <2>6. ASSUME NEW d \in batch, calls'[d].of # 0
          PROVE  LET task == calls'[d].of IN
                 task \in batch /\ calls'[task].of = 0 /\ calls'[task].at = "delegated"
      <3>1. calls'[d].of = calls[d].of /\ d \in DOMAIN calls
        BY <1>2 DEF SameCalls, IInv, Formed, CallsListed
      <3>2. calls[d].of \in batch /\ calls[calls[d].of].of = 0
            /\ calls[calls[d].of].at = "delegated"
        BY <2>6, <3>1 DEF IInv, Awaited, AnsweredIsOver, BatchOf
      <3>3. QED
        BY <1>2, <1>7, <3>1, <3>2 DEF IInv, Formed, CallsListed
    <2>7. AnsweredIsOver'
      BY <1>4, <2>2, <2>5, <2>6 DEF AnsweredIsOver, BatchOf
    <2>8. QED
      BY <1>2, <1>3, <2>4, <2>7, ProcsKept DEF Awaited
  <1>8. QED
    BY <1>6, <1>7

LEMMA AttemptIInv ==
  ASSUME IInv, NEW c \in batch, AttemptTimesOut(c)
  PROVE  IInv'
  BY RetryIInv, TurnDropped DEF AttemptTimesOut

-----------------------------------------------------------------------------
(* Messages *)

\* New calls go behind those there were.
LEMMA MessageIInv ==
  ASSUME IInv, NEW run, Message(run)
  PROVE  IInv' /\ SameCalls
  <1>0. PICK n \in Nat : \E forms \in [1..n -> Forms] :
          /\ calls' = calls \o [i \in 1..n |-> Issued(run, forms[i])]
          /\ batch' = batch \cup (Len(calls) + 1)..(Len(calls) + n)
    <2>1. PICK n \in 1..MaxBatch, forms \in UNION {[1..k -> {f \in Forms : Bindable(run, f)}] : k \in 1..MaxBatch} :
            /\ forms \in [1..n -> {f \in Forms : Bindable(run, f)}]
            /\ calls' = calls \o [i \in 1..n |-> Issued(run, forms[i])]
            /\ batch' = batch \cup (Len(calls) + 1)..(Len(calls) + n)
      BY Zenon DEF Message
    <2>2. n \in Nat /\ forms \in [1..n -> Forms]
      BY <2>1
    <2>3. QED
      BY <2>1, <2>2
  <1>1. PICK forms \in [1..n -> Forms] :
          /\ calls' = calls \o [i \in 1..n |-> Issued(run, forms[i])]
          /\ batch' = batch \cup (Len(calls) + 1)..(Len(calls) + n)
    BY <1>0
  <1> DEFINE new == [i \in 1..n |-> Issued(run, forms[i])]
             S == {calls[c] : c \in DOMAIN calls} \cup {new[i] : i \in 1..n}
  <1>2. PICK m \in Nat : DOMAIN calls = 1..m
    BY DEF IInv, Formed, CallsListed
  <1>3. calls \in Seq(S) /\ Len(calls) = m
    <2>1. calls \in [1..m -> S]
      BY <1>2 DEF IInv, Formed, CallsListed
    <2> HIDE DEF S
    <2>2. QED
      BY <2>1
  <1>4. new \in Seq(S) /\ Len(new) = n
    <2>1. new \in [1..n -> S]
      OBVIOUS
    <2> HIDE DEF S, new
    <2>2. QED
      BY <2>1
  <1>5. calls' = calls \o new
    BY <1>1
  <1>6. \A i \in 1..n : /\ IsCall(new[i]) /\ new[i].form \in Forms /\ new[i].of = run
                        /\ new[i].at = "issued"
    BY NothingSaid DEF IsCall, Issued
  <1> HIDE DEF new, S
  <1>7. calls' \in Seq(S) /\ Len(calls') = m + n
    BY <1>3, <1>4, <1>5, ConcatProperties
  <1>8. \A i \in 1..(m + n) : calls'[i] = IF i <= m THEN calls[i] ELSE new[i - m]
    BY <1>3, <1>4, <1>5, ConcatProperties
  <1>9. DOMAIN calls' = 1..(m + n) /\ calls' = [c \in DOMAIN calls' |-> calls'[c]]
    BY <1>7
  <1>10. /\ DOMAIN calls \subseteq DOMAIN calls'
         /\ \A c \in DOMAIN calls : calls'[c] = calls[c]
    BY <1>2, <1>8, <1>9
  <1>11. run \in {0} \cup DOMAIN calls
    BY RunIs DEF Message
  <1>12. ASSUME NEW c \in DOMAIN calls', c \notin DOMAIN calls
         PROVE  /\ IsCall(calls'[c]) /\ calls'[c].form \in Forms /\ calls'[c].of = run
                /\ calls'[c].at = "issued"
    <2>1. c \in 1..(m + n) /\ c - m \in 1..n /\ ~(c <= m)
      BY <1>2, <1>9, <1>12
    <2>2. calls'[c] = new[c - m]
      BY <1>8, <2>1
    <2>3. QED
      BY <1>6, <2>1, <2>2
  <1>13. batch' \subseteq DOMAIN calls' /\ batch \subseteq batch'
         /\ \A c \in batch' : c \in batch \/ c \notin DOMAIN calls
    <2>1. batch \subseteq 1..m
      BY <1>2 DEF IInv, Formed, CallsListed
    <2>2. batch' = batch \cup (m + 1)..(m + n)
      BY <1>1, <1>3
    <2>3. QED
      BY <1>2, <1>9, <2>1, <2>2
  <1>14. CallsListed'
    <2>1. m + n \in Nat
      OBVIOUS
    <2>2. \A c \in DOMAIN calls' : /\ IsCall(calls'[c]) /\ calls'[c].form \in Forms
                                   /\ calls'[c].of \in {0} \cup DOMAIN calls'
      BY <1>10, <1>11, <1>12 DEF IInv, Formed, CallsListed
    <2>3. QED
      BY <1>9, <1>13, <2>1, <2>2, Zenon DEF CallsListed
  <1>15. UNCHANGED <<agent, procs, files>> /\ SameCalls
    BY <1>10 DEF Message, SameCalls
  <1>16. \A y \in procs' : \E x \in procs : SameProcess(x, y)
    BY <1>15, SameProcs DEF IInv, Formed
  <1>17. \A c \in batch : c \in DOMAIN calls /\ c \in DOMAIN calls' /\ calls'[c] = calls[c]
    BY <1>10 DEF IInv, Formed, CallsListed
  <1>18. RunsListed'
    <2>1. \A c \in batch' : calls'[c].at = "delegated" <=> c \in batch /\ calls[c].at = "delegated"
      BY <1>12, <1>13, <1>17
    <2>2. \A c \in batch' : calls'[c].at = "delegated" => calls'[c].of = 0
      BY <1>17, <2>1 DEF IInv, Awaited, RunsListed
    <2>3. \A c : c \in DOMAIN files <=> c = 0 \/ (c \in batch' /\ calls'[c].at = "delegated")
      BY <1>13, <2>1 DEF IInv, Awaited, RunsListed
    <2>4. DOMAIN files = {0} \cup {c \in batch' : calls'[c].at = "delegated"}
      BY <2>3
    <2>5. QED
      BY <1>15, <2>2, <2>4 DEF RunsListed
  <1>19. AnsweredIsOver'
    <2>1. ASSUME NEW p \in procs, ~p.orphan
          PROVE  p.call \in batch' /\ calls'[p.call].at = "waiting"
      BY <1>13, <1>17, <2>1 DEF IInv, Awaited, AnsweredIsOver
    <2>2. ASSUME NEW d \in batch', calls'[d].of # 0
          PROVE  LET task == calls'[d].of IN
                 task \in batch' /\ calls'[task].of = 0 /\ calls'[task].at = "delegated"
      <3>1. CASE d \in batch
        <4>1. calls'[d] = calls[d]
          BY <1>17, <3>1
        <4>2. calls[d].of \in batch /\ calls[calls[d].of].of = 0
              /\ calls[calls[d].of].at = "delegated"
          BY <2>2, <3>1, <4>1 DEF IInv, Awaited, AnsweredIsOver, BatchOf
        <4>3. QED
          BY <1>13, <1>17, <4>1, <4>2
      <3>2. CASE d \notin batch
        <4>1. calls'[d].of = run
          BY <1>12, <1>13, <3>2
        <4>2. run \in batch /\ calls[run].of = 0 /\ calls[run].at = "delegated"
          BY <2>2, <4>1, RunIs DEF Message
        <4>3. QED
          BY <1>13, <1>17, <4>1, <4>2
      <3>3. QED
        BY <3>1, <3>2
    <2>3. \A p \in procs : ~p.orphan => \A q \in procs \ {p} : q.call = p.call => q.orphan
      BY DEF IInv, Awaited, AnsweredIsOver
    <2>4. QED
      BY <1>15, <2>1, <2>2, <2>3 DEF AnsweredIsOver, BatchOf
  <1>20. QED
    BY <1>14, <1>15, <1>16, <1>18, <1>19, ProcsKept DEF Awaited

LEMMA StepEndsIInv ==
  ASSUME IInv, NEW run, StepEnds(run)
  PROVE  IInv' /\ SameCalls
  <1>1. run \in DOMAIN files /\ UNCHANGED <<agent, procs>> /\ batch' = batch \ BatchOf(run)
        /\ Active(run) = {}
    BY DEF StepEnds
  <1>2. CASE UNCHANGED calls /\ DOMAIN files' = DOMAIN files
    <2>1. \A c \in batch : calls[c].of = run => calls[c].at = "done"
      BY <1>1 DEF Active, BatchOf
    <2>2. \A c \in batch : c \in batch' <=> calls[c].of # run
      BY <1>1 DEF BatchOf
    <2>3. RunsListed'
      <3>1. \A c \in batch' : calls[c].at = "delegated" => calls[c].of = 0
        BY <1>1 DEF IInv, Awaited, RunsListed
      <3>2. DOMAIN files = {0} \cup {c \in batch' : calls[c].at = "delegated"}
        BY <1>1, <2>1, <2>2 DEF IInv, Awaited, RunsListed
      <3>3. QED
        BY <1>2, <3>1, <3>2 DEF RunsListed
    <2>4. ASSUME NEW p \in procs, ~p.orphan
          PROVE  p.call \in batch' /\ calls[p.call].at = "waiting"
      <3>1. p.call \in batch /\ calls[p.call].at = "waiting"
        BY <2>4 DEF IInv, Awaited, AnsweredIsOver
      <3>2. QED
        BY <2>1, <2>2, <3>1
    <2>5. ASSUME NEW d \in batch', calls[d].of # 0
          PROVE  LET task == calls[d].of IN
                 task \in batch' /\ calls[task].of = 0 /\ calls[task].at = "delegated"
      <3>1. calls[d].of \in batch /\ calls[calls[d].of].of = 0
            /\ calls[calls[d].of].at = "delegated"
        BY <1>1, <2>5 DEF IInv, Awaited, AnsweredIsOver, BatchOf
      <3>2. QED
        BY <2>1, <2>2, <3>1
    <2>6. \A p \in procs : ~p.orphan => \A q \in procs \ {p} : q.call = p.call => q.orphan
      BY DEF IInv, Awaited, AnsweredIsOver
    <2>7. AnsweredIsOver'
      BY <1>1, <1>2, <2>4, <2>5, <2>6 DEF AnsweredIsOver, BatchOf
    <2>8. CallsListed' /\ SameCalls
      BY <1>1, <1>2 DEF IInv, Formed, CallsListed, SameCalls
    <2>9. \A y \in procs' : \E x \in procs : SameProcess(x, y)
      BY <1>1, SameProcs DEF IInv, Formed
    <2>10. QED
      BY <1>1, <2>3, <2>7, <2>8, <2>9, ProcsKept DEF Awaited
  <1>3. CASE run # 0 /\ Answer(run, FALSE, NoUpdate) /\ Ended(run)
    BY <1>1, <1>3, NothingSaid, TaskAnswered
  <1>4. \/ UNCHANGED calls /\ DOMAIN files' = DOMAIN files
        \/ run # 0 /\ Answer(run, FALSE, NoUpdate) /\ Ended(run)
    BY DEF StepEnds
  <1>5. QED
    BY <1>2, <1>3, <1>4

-----------------------------------------------------------------------------
(* The start of a process *)

\* The call's form keeps its fields; its tool is the one the catalog's stands for.
LEMMA ActualForm ==
  ASSUME IInv, NEW c \in batch
  PROVE  c \in DOMAIN calls /\ Form(c).tool = Actual(Caller(c), calls[c].form)
  <1>1. c \in DOMAIN calls /\ calls[c].form \in Forms
    BY DEF IInv, Formed, CallsListed
  <1>2. "tool" \in DOMAIN calls[c].form
    BY <1>1, BindingAssumption
  <1>3. QED
    BY <1>1, <1>2 DEF Form

LEMMA RewriteIInv ==
  ASSUME IInv, NEW c \in batch, Rewrite(c)
  PROVE  IInv'
  <1>1. RunsWhereSent(Process(c, "process", Everything))
    BY ActualForm DEF Rewrite, Here, Sent, RunsWhereSent, Process
  <1>2. QED
    BY <1>1, StartIInv DEF Rewrite, Ready

LEMMA ProgramIInv ==
  ASSUME IInv, NEW c \in batch, RunProgram(c)
  PROVE  IInv'
  <1>1. RunsWhereSent(Process(c, "command", Everything))
    BY ActualForm DEF RunProgram, Here, Sent, RunsWhereSent, Process
  <1>2. QED
    BY <1>1, StartIInv DEF RunProgram, Ready

\* What a view lets a worker write is under a directory its profile lets it write.
LEMMA ViewWrites ==
  ASSUME NEW d, NEW profile, NEW q \in Paths, View(d, profile)[q] = "write"
  PROVE  \E m \in profile.write : Within(q, m)
  BY DEF View, Mounted

LEMMA WorkerIInv ==
  ASSUME IInv, NEW c \in batch, StartWorker(c)
  PROVE  IInv'
  <1> DEFINE backend == Where(Caller(c), calls[c].form)
  <1>1. backend \in DOMAIN Profiles /\ Started(c, Process(c, backend, View(disk, Profiles[backend])))
    BY DEF StartWorker, Sent
  <1>2. RunsWhereSent(Process(c, backend, View(disk, Profiles[backend])))
    BY <1>1, ViewWrites DEF RunsWhereSent, Process
  <1> HIDE DEF backend
  <1>3. QED
    BY <1>1, <1>2, StartIInv DEF StartWorker, Ready

-----------------------------------------------------------------------------
(* The invariant *)

LEMMA InitIInv ==
  ASSUME Init
  PROVE  IInv /\ Outputs
  <1>1. calls = <<>> /\ batch = {} /\ procs = {} /\ chat = {} /\ files = [run \in {0} |-> <<>>]
    BY DEF Init
  <1>2. CallsListed
    BY <1>1 DEF CallsListed
  <1>3. AgentIsConfigs
    BY DEF Init, AgentIsConfigs
  <1>4. Outputs
    BY <1>1, NothingSaid DEF Outputs
  <1>5. Awaited
    BY <1>1 DEF Awaited, AnsweredIsOver, RunsListed
  <1>6. QED
    BY <1>1, <1>2, <1>3, <1>4, <1>5 DEF IInv, Formed, ProcsListed

LEMMA NextIInv ==
  ASSUME IInv, Outputs, [Next]_vars
  PROVE  IInv'
  <1>1. ASSUME NEW run, Message(run) \/ StepEnds(run) \/ TaskEnds(run)
        PROVE  IInv'
    BY <1>1, MessageIInv, StepEndsIInv, TaskIInv
  <1>2. CASE Cancel
    BY <1>2, TurnDropped DEF Cancel
  <1>3. ASSUME NEW c \in batch, Starts(c)
        PROVE  IInv'
    <2>1. CASE Blocked(c)
      BY <2>1, AnswerIssued, NothingSaid DEF Blocked, Ready
    <2>2. CASE InProcess(c)
      BY <2>2, InProcessAnswers, AnswerIssued DEF InProcess, Ready
    <2>3. CASE RunProgram(c)
      BY <2>3, ProgramIInv
    <2>4. CASE StartWorker(c)
      BY <2>4, WorkerIInv
    <2>5. CASE Rewrite(c)
      BY <2>5, RewriteIInv
    <2>6. CASE Delegate(c)
      BY <2>6, DelegateIInv
    <2>7. QED
      BY <1>3, <2>1, <2>2, <2>3, <2>4, <2>5, <2>6 DEF Starts
  <1>4. ASSUME NEW c \in batch, AttemptTimesOut(c)
        PROVE  IInv'
    BY <1>4, AttemptIInv
  <1>5. ASSUME NEW p \in procs, ProcessStep(p) \/ Exit(p) \/ Timeout(p)
        PROVE  IInv'
    BY <1>5, StepIInv, ExitIInv, TimeoutIInv
  <1>6. CASE UNCHANGED vars
    BY <1>6 DEF vars, IInv, Formed, CallsListed, ProcsListed, AgentIsConfigs, Awaited, RunsListed,
                AnsweredIsOver, BatchOf, RunsWhereSent, Caller, Runner
  <1>7. QED
    BY <1>1, <1>2, <1>3, <1>4, <1>5, <1>6 DEF Next

-----------------------------------------------------------------------------
(* The files of the state *)

\* A nonempty set of numbers has a least element.
LEMMA Least ==
  ASSUME NEW T \in SUBSET Nat, T # {}
  PROVE  \E m \in T : \A k \in T : m <= k
  <1>1. PICK m \in T : \A k \in T : ~(<<k, m>> \in OpToRel(<, Nat))
    BY NatLessThanWellFounded, WFMin, Zenon
  <1>2. ASSUME NEW k \in T PROVE m <= k
    <2>1. ~(k < m)
      BY <1>1 DEF OpToRel
    <2>2. QED
      BY <2>1
  <1>3. QED
    BY <1>2

\* f[n]: the files once the updates of the calls up to n are merged; D: the calls
\* that have one.
Merges(f, base, D, over) ==
  f = [n \in Nat |-> IF n = 0 THEN base
                     ELSE IF n \in D THEN FileReducer(f[n - 1], over[n]) ELSE f[n - 1]]

LEMMA MergeDefined ==
  ASSUME NEW base, NEW M \in Nat, NEW D, D \subseteq 1..M, NEW over
  PROVE  \E f : Merges(f, base, D, over)
  <1> DEFINE Val(f, n) == IF n = 0 THEN base
                          ELSE IF n \in D THEN FileReducer(f[n - 1], over[n]) ELSE f[n - 1]
             Good(n, f) == f = [x \in 0..n |-> Val(f, x)]
             Bad == {n \in Nat : ~\E f : Good(n, f)}
  <1>1. Bad = {}
    <2> SUFFICES ASSUME Bad # {} PROVE FALSE
      OBVIOUS
    <2>1. PICK n \in Bad : \A k \in Bad : n <= k
      BY Least
    <2>2. CASE n = 0
      <3>1. Good(0, [x \in 0..0 |-> base])
        OBVIOUS
      <3>2. QED
        BY <2>1, <2>2, <3>1
    <2>3. CASE n # 0
      <3>1. n \in Nat /\ n - 1 \in Nat /\ n - 1 < n
        BY <2>3
      <3>2. n - 1 \notin Bad
        <4> HIDE DEF Bad
        <4>1. QED
          BY <2>1, <3>1
      <3>3. PICK g : Good(n - 1, g)
        BY <3>1, <3>2
      <3> DEFINE top == Val(g, n)
                 f == [x \in 0..n |-> IF x = n THEN top ELSE g[x]]
      <3>4. ASSUME NEW x \in 0..n
            PROVE  f[x] = Val(f, x)
        <4>1. x # 0 => x - 1 \in 0..(n - 1) /\ x - 1 # n /\ f[x - 1] = g[x - 1]
          BY <3>1
        <4>2. Val(f, x) = Val(g, x)
          BY <4>1
        <4>3. CASE x = n
          BY <4>2, <4>3
        <4>4. CASE x # n
          <5>1. x \in 0..(n - 1)
            BY <3>1, <4>4
          <5>2. g[x] = Val(g, x)
            BY <3>3, <5>1
          <5>3. QED
            BY <4>2, <4>4, <5>2
        <4>5. QED
          BY <4>3, <4>4
      <3>5. Good(n, f)
        BY <3>4
      <3>6. QED
        BY <2>1, <3>5
    <2>4. QED
      BY <2>2, <2>3
  <1>2. PICK g : Good(M, g)
    BY <1>1
  <1> DEFINE f == [x \in Nat |-> IF x \in 0..M THEN g[x] ELSE g[M]]
  <1>3. ASSUME NEW x \in Nat
        PROVE  f[x] = Val(f, x)
    <2>1. CASE x \in 0..M
      <3>1. x # 0 => x - 1 \in 0..M /\ f[x - 1] = g[x - 1]
        BY <2>1
      <3>2. g[x] = Val(g, x)
        BY <1>2, <2>1
      <3>3. QED
        BY <2>1, <3>1, <3>2
    <2>2. CASE x \notin 0..M
      <3>1. x # 0 /\ x \notin D /\ x - 1 \in Nat /\ (x - 1 \in 0..M => x - 1 = M)
        BY <2>2
      <3>2. f[x - 1] = g[M]
        BY <3>1
      <3>3. QED
        BY <2>2, <3>1, <3>2
    <2>3. QED
      BY <2>1, <2>2
  <1>4. f = [x \in Nat |-> Val(f, x)]
    BY <1>3
  <1> HIDE DEF f
  <1>5. Merges(f, base, D, over)
    BY <1>4 DEF Merges
  <1>6. QED
    BY <1>5

\* One update put over the files: both are there, and outputs stay right.
LEMMA ReducerRight ==
  ASSUME NEW kept, NEW update
  PROVE  /\ DOMAIN FileReducer(kept, update) = DOMAIN kept \cup DOMAIN update
         /\ Right(kept) /\ Right(update) => Right(FileReducer(kept, update))
  BY DEF FileReducer, Right

\* All updates of a step put over them.
LEMMA MergeRight ==
  ASSUME CallsListed, NEW run, Right(files[run])
  PROVE  /\ Right(Merge(run)) /\ DOMAIN files[run] \subseteq DOMAIN Merge(run)
         /\ \A c \in BatchOf(run) : DOMAIN calls[c].update.files \subseteq DOMAIN Merge(run)
  <1> DEFINE D == {c \in BatchOf(run) : calls[c].update.files # <<>>}
             over == [c \in D |-> calls[c].update.files]
             Is(f) == f = [n \in Nat |->
                             IF n = 0 THEN files[run]
                             ELSE IF n \in BatchOf(run) /\ calls[n].update.files # <<>>
                             THEN FileReducer(f[n - 1], calls[n].update.files) ELSE f[n - 1]]
             K == CHOOSE f : Is(f)
  <1>1. PICK m \in Nat : DOMAIN calls = 1..m /\ Len(calls) = m
    <2>1. PICK m \in Nat : DOMAIN calls = 1..m
      BY DEF CallsListed
    <2> DEFINE S == {calls[c] : c \in 1..m}
    <2>2. calls \in [1..m -> S]
      BY <2>1 DEF CallsListed
    <2> HIDE DEF S
    <2>3. QED
      BY <2>1, <2>2
  <1>2. BatchOf(run) \subseteq 1..m /\ \A c \in BatchOf(run) : Right(calls[c].update.files)
    BY <1>1 DEF CallsListed, IsCall, BatchOf
  <1>3. \E f : Is(f)
    <2>1. D \subseteq 1..m
      BY <1>2
    <2>2. \A n : n \in D <=> n \in BatchOf(run) /\ calls[n].update.files # <<>>
      OBVIOUS
    <2>3. \A n \in D : over[n] = calls[n].update.files
      OBVIOUS
    <2> HIDE DEF D, over
    <2>4. PICK f : Merges(f, files[run], D, over)
      BY <2>1, MergeDefined
    <2>5. Is(f)
      BY <2>2, <2>3, <2>4 DEF Merges
    <2> HIDE DEF Is
    <2>6. QED
      BY <2>5
  <1> HIDE DEF Is
  <1>4. Is(K)
    BY <1>3
  <1>5. Merge(run) = K[m]
    BY <1>1 DEF Merge, Is
  <1> HIDE DEF K
  <1>6. /\ K[0] = files[run]
        /\ \A n \in Nat \ {0} :
             K[n] = IF n \in BatchOf(run) /\ calls[n].update.files # <<>>
                    THEN FileReducer(K[n - 1], calls[n].update.files) ELSE K[n - 1]
    BY <1>4 DEF Is
  <1> DEFINE Fine(n) == /\ Right(K[n]) /\ DOMAIN files[run] \subseteq DOMAIN K[n]
                        /\ \A c \in BatchOf(run) : c <= n => DOMAIN calls[c].update.files \subseteq DOMAIN K[n]
             Bad == {n \in Nat : ~Fine(n)}
  <1>7. Fine(0)
    BY <1>2, <1>6
  <1>8. ASSUME NEW n \in Nat \ {0}, Fine(n - 1)
        PROVE  Fine(n)
    <2>1. n - 1 \in Nat /\ \A c \in BatchOf(run) : c <= n => c <= n - 1 \/ c = n
      BY <1>2
    <2>2. CASE n \in BatchOf(run) /\ calls[n].update.files # <<>>
      <3>1. K[n] = FileReducer(K[n - 1], calls[n].update.files) /\ Right(calls[n].update.files)
        BY <1>2, <1>6, <2>2
      <3>2. DOMAIN K[n] = DOMAIN K[n - 1] \cup DOMAIN calls[n].update.files /\ Right(K[n])
        BY <1>8, <3>1, ReducerRight
      <3>3. QED
        BY <1>8, <2>1, <3>2
    <2>3. CASE ~(n \in BatchOf(run) /\ calls[n].update.files # <<>>)
      <3>1. K[n] = K[n - 1]
        BY <1>6, <2>3
      <3>2. n \in BatchOf(run) => DOMAIN calls[n].update.files = {}
        BY <2>3, EmptySeq
      <3>3. QED
        BY <1>8, <2>1, <3>1, <3>2
    <2>4. QED
      BY <2>2, <2>3
  <1> HIDE DEF Fine
  <1>9. Bad = {}
    <2> SUFFICES ASSUME Bad # {} PROVE FALSE
      OBVIOUS
    <2>1. PICK n \in Bad : \A k \in Bad : n <= k
      BY Least
    <2>2. n \in Nat /\ n # 0 /\ n - 1 \in Nat /\ ~(n <= n - 1)
      BY <1>7, <2>1
    <2>3. n - 1 \notin Bad
      <3> HIDE DEF Bad
      <3>1. QED
        BY <2>1, <2>2
    <2>4. QED
      BY <1>8, <2>1, <2>2, <2>3
  <1>10. Fine(m)
    BY <1>9
  <1>11. \A c \in BatchOf(run) : c <= m
    BY <1>2
  <1>12. QED
    BY <1>5, <1>10, <1>11 DEF Fine

\* The files of a run, at each step.
LEMMA RunOutputs ==
  ASSUME IInv, Outputs, NEW run, Message(run) \/ StepEnds(run) \/ TaskEnds(run)
  PROVE  Outputs'
  <1>1. CASE UNCHANGED <<files, chat>>
    BY <1>1 DEF Outputs
  <1>2. CASE Ended(run) /\ run # 0 /\ UNCHANGED chat
    BY <1>2 DEF Ended, Outputs
  <1>3. CASE /\ run \in DOMAIN files /\ files' = [files EXCEPT ![run] = Merge(run)]
             /\ chat' = IF run = 0 THEN chat \cup {c \in BatchOf(run) : c \in DOMAIN calls[c].update.files}
                        ELSE chat
    <2>1. BatchOf(run) \subseteq Nat
      BY DEF IInv, Formed, CallsListed, BatchOf
    <2>2. /\ Right(Merge(run)) /\ DOMAIN files[run] \subseteq DOMAIN Merge(run)
          /\ \A c \in BatchOf(run) : DOMAIN calls[c].update.files \subseteq DOMAIN Merge(run)
      BY <1>3, MergeRight DEF IInv, Formed, Outputs
    <2>3. /\ DOMAIN files' = DOMAIN files /\ files'[run] = Merge(run)
          /\ \A other \in DOMAIN files : other # run => files'[other] = files[other]
      BY <1>3
    <2>4. \A other \in DOMAIN files' : Right(files'[other])
      BY <2>2, <2>3 DEF Outputs
    <2>5. 0 \in DOMAIN files
      BY DEF IInv, Awaited, RunsListed
    <2>6. chat' \subseteq DOMAIN files'[0] \cap Nat
      BY <1>3, <2>1, <2>2, <2>3, <2>5 DEF Outputs
    <2>7. QED
      BY <2>4, <2>6 DEF Outputs
  <1>4. QED
    BY <1>1, <1>2, <1>3 DEF Message, StepEnds, TaskEnds

LEMMA NextOutputs ==
  ASSUME IInv, Outputs, [Next]_vars
  PROVE  Outputs'
  <1>1. CASE \E run : Message(run) \/ StepEnds(run) \/ TaskEnds(run)
    BY <1>1, RunOutputs
  <1>2. CASE GiveUp /\ UNCHANGED chat
    BY <1>2 DEF GiveUp, Outputs, IInv, Awaited, RunsListed
  <1>3. ASSUME NEW c \in batch, Delegate(c)
        PROVE  Outputs'
    <2>1. c # 0 /\ calls[c].of \in DOMAIN files /\ Right(KeptFor(c))
      BY RunOf DEF Outputs, KeptFor
    <2>2. /\ DOMAIN files' = DOMAIN files \cup {c} /\ files'[c] = KeptFor(c) /\ UNCHANGED chat
          /\ \A run \in DOMAIN files : run # c => files'[run] = files[run]
      BY <1>3 DEF Delegate
    <2>3. 0 \in DOMAIN files
      BY DEF IInv, Awaited, RunsListed
    <2>4. QED
      BY <2>1, <2>2, <2>3 DEF Outputs
  <1>4. ASSUME NEW c \in batch, Ended(c), UNCHANGED chat
        PROVE  Outputs'
    BY <1>4, RunOf DEF Ended, Outputs, IInv, Awaited, RunsListed
  <1>5. CASE UNCHANGED <<files, chat>>
    BY <1>5 DEF Outputs
  <1>6. ASSUME NEW c \in batch, Starts(c) \/ AttemptTimesOut(c)
        PROVE  Outputs'
    BY <1>2, <1>3, <1>4, <1>5, <1>6
       DEF Starts, Blocked, InProcess, Rewrite, RunProgram, StartWorker, AttemptTimesOut
  <1>7. ASSUME NEW p \in procs, ProcessStep(p) \/ Exit(p) \/ Timeout(p)
        PROVE  Outputs'
    BY <1>5, <1>7 DEF ProcessStep, Exit, Timeout
  <1>8. Cancel => GiveUp /\ UNCHANGED chat
    BY DEF Cancel
  <1>9. UNCHANGED vars => UNCHANGED <<files, chat>>
    BY DEF vars
  <1>10. QED
    BY <1>1, <1>2, <1>5, <1>6, <1>7, <1>8, <1>9 DEF Next

-----------------------------------------------------------------------------
(* Answers and outputs *)

\* A command or a worker that nobody gave up is that of a call still awaited, which
\* has no other, a subagent's of a task still awaited: whatever ends first, the
\* process, its timeout, the task, its attempt's timeout or the turn, a call is
\* answered once and no earlier attempt answers for it.
THEOREM AnsweredCallsAreOver == Spec => []AnsweredIsOver
  <1>1. Init => IInv /\ Outputs
    BY InitIInv
  <1>2. IInv /\ Outputs /\ [Next]_vars => IInv' /\ Outputs'
    BY NextIInv, NextOutputs
  <1>3. IInv => AnsweredIsOver
    BY DEF IInv, Awaited
  <1>4. QED
    BY <1>1, <1>2, <1>3, PTL DEF Spec

\* An output the conversation refers to can be read, whatever the calls beside it
\* and after it store, write to memory, or hand back from a subagent.
THEOREM OutputsAreKept == Spec => []OutputsStay
  <1>1. Init => IInv /\ Outputs
    BY InitIInv
  <1>2. IInv /\ Outputs /\ [Next]_vars => IInv' /\ Outputs'
    BY NextIInv, NextOutputs
  <1>3. IInv /\ Outputs => OutputsStay
    BY DEF IInv, Awaited, RunsListed, Outputs, Right, OutputsStay
  <1>4. QED
    BY <1>1, <1>2, <1>3, PTL DEF Spec

-----------------------------------------------------------------------------
(* Where the disk is changed *)

\* The configuration's bindings, one for each profile.
LEMMA BindingsOf ==
  ASSUME IInv, NEW i \in DOMAIN Bindings(agent.config)
  PROVE  LET bindings == Bindings(agent.config) IN
         /\ bindings[i].backend \in DOMAIN Profiles \cup {None}
         /\ agent.main.map = SandboxMap(bindings)
  <1>1. agent.config \in Configs /\ agent.main = Agent(agent.config)
    BY DEF IInv, AgentIsConfigs
  <1>2. agent.main.map = SandboxMap(Bindings(agent.config))
    BY <1>1 DEF Agent, Assembled
  <1> DEFINE P == [patterns : SUBSET [neg : BOOLEAN, names : SUBSET Tools,
                                      cat : {"impl", "mcp", "internal", "*"}],
                   backend : DOMAIN Profiles \cup {None}]
  <1>3. agent.config.profiles \in Seq(P)
    BY <1>1, BindingAssumption
  <1>4. ASSUME NEW b \in P
        PROVE  b.backend \in DOMAIN Profiles \cup {None}
    OBVIOUS
  <1> HIDE DEF P
  <1>5. Bindings(agent.config) \in Seq(P)
    BY <1>3 DEF Bindings
  <1>6. Bindings(agent.config)[i] \in P
    BY <1>5
  <1>7. QED
    BY <1>2, <1>4, <1>6

\* One profile matches a tool that is boxed.
LEMMA OneBinding ==
  ASSUME NEW S, Cardinality(S) = 1, IsFiniteSet(S)
  PROVE  \E i \in S : S = {i} /\ (CHOOSE j \in S : TRUE) = i
  <1>1. PICK i : S = {i}
    BY FS_Singleton
  <1>2. QED
    BY <1>1

\* The entry of a map that is there.
Free(bindings) ==
  {t \in Of("impl") \cup Of("internal") : Bypassed(bindings, t)}
    \cup Of("mcp") \cup CatalogTools \cup SkillTools
Entry(bindings, t) ==
  IF t \in Free(bindings) THEN None ELSE bindings[CHOOSE i \in Binding(bindings, t) : TRUE].backend

LEMMA MapEntries ==
  ASSUME NEW bindings, bindings # <<>>
  PROVE  LET map == SandboxMap(bindings) IN
         /\ map # <<>>
         /\ \A t \in DOMAIN map : /\ map[t] = Entry(bindings, t)
                                  /\ t \in Free(bindings) \/ Boxed(bindings, t)
  <1> DEFINE boxed == {t \in Of("impl") \cup Of("internal") : Boxed(bindings, t)}
             map == [t \in boxed \cup Free(bindings) |-> Entry(bindings, t)]
  <1>1. SandboxMap(bindings) = map
    BY DEF SandboxMap, Free, Entry
  <1>2. "fetch_tools" \in DOMAIN map
    BY DEF Free, CatalogTools
  <1>3. map # <<>>
    BY <1>2
  <1>4. \A t \in DOMAIN map : map[t] = Entry(bindings, t)
                              /\ (t \in Free(bindings) \/ Boxed(bindings, t))
    OBVIOUS
  <1>5. QED
    BY <1>1, <1>3, <1>4, Zenon

\* The tool a call is for, by name or through the catalog.
Named(form) == IF form.tool = "run_tool" THEN form.of ELSE form.tool

\* What the map says of a call that is not blocked.
LEMMA SentThere ==
  ASSUME IInv, NEW form, Bindings(agent.config) # <<>>, Where(agent.main, form) # "blocked"
  PROVE  LET bindings == Bindings(agent.config) t == Actual(agent.main, form) IN
         /\ t \in Free(bindings) \/ Boxed(bindings, t)
         /\ Where(agent.main, form) =
              IF Entry(bindings, t) = None THEN "process" ELSE Entry(bindings, t)
  <1>1. agent.main.map = SandboxMap(Bindings(agent.config))
    BY DEF IInv, AgentIsConfigs, Agent, Assembled
  <1>2. QED
    BY <1>1, MapEntries DEF Where, WhereOf

\* A profile's tool runs in its sandbox, and no other profile has the tool.
LEMMA BoxedEntry ==
  ASSUME IInv, NEW t, Boxed(Bindings(agent.config), t)
  PROVE  LET bindings == Bindings(agent.config) IN
         \E i \in DOMAIN bindings : /\ Binding(bindings, t) = {i}
                                    /\ bindings[i].backend \in DOMAIN Profiles
                                    /\ bindings[CHOOSE j \in Binding(bindings, t) : TRUE] = bindings[i]
  <1> DEFINE bindings == Bindings(agent.config)
             S == Binding(bindings, t)
  <1>1. IsFiniteSet(DOMAIN bindings)
    <2> DEFINE P == [patterns : SUBSET [neg : BOOLEAN, names : SUBSET Tools,
                                        cat : {"impl", "mcp", "internal", "*"}],
                     backend : DOMAIN Profiles \cup {None}]
    <2>1. agent.config.profiles \in Seq(P)
      BY BindingAssumption DEF IInv, AgentIsConfigs
    <2> HIDE DEF P
    <2>2. bindings \in Seq(P)
      BY <2>1 DEF Bindings
    <2>3. DOMAIN bindings = 1..Len(bindings) /\ Len(bindings) \in Nat
      BY <2>2
    <2>4. QED
      BY <2>3, FS_Interval
  <1>2. S \subseteq DOMAIN bindings /\ Cardinality(S) = 1
    BY DEF Binding, Boxed
  <1>3. IsFiniteSet(S)
    BY <1>1, <1>2, FS_Subset
  <1>4. PICK i \in S : S = {i} /\ (CHOOSE j \in S : TRUE) = i
    BY <1>2, <1>3, OneBinding
  <1>5. bindings[i].backend # None
    BY <1>4 DEF Boxed, Bypassed
  <1>6. bindings[i].backend \in DOMAIN Profiles
    BY <1>2, <1>4, <1>5, BindingsOf
  <1>7. QED
    BY <1>2, <1>4, <1>6

LEMMA HereBypassed ==
  ASSUME IInv, NEW form, Bindings(agent.config) # <<>>, Where(agent.main, form) = "process",
         Actual(agent.main, form) \in FileTools \cup Programs
  PROVE  Bypassed(Bindings(agent.config), Named(form))
  <1> DEFINE bindings == Bindings(agent.config)
             t == Actual(agent.main, form)
  <1>1. t \notin CatalogTools \cup SkillTools
    BY DEF FileTools, Programs, CatalogTools, SkillTools
  <1>2. t = Named(form)
    BY <1>1 DEF Actual, Proxied, Named, CatalogTools
  <1>3. t \in Free(bindings) \/ Boxed(bindings, t)
    BY SentThere
  <1>4. CASE t \in Free(bindings)
    <2>1. t \notin Of("mcp")
      BY BindingAssumption DEF Of
    <2>2. QED
      BY <1>1, <1>2, <1>4, <2>1 DEF Free
  <1>5. CASE Boxed(bindings, t)
    <2>1. ~Bypassed(bindings, t) /\ (t \notin Free(bindings) => Entry(bindings, t) \in DOMAIN Profiles)
      BY <1>5, BoxedEntry DEF Boxed, Entry
    <2>2. t \in Free(bindings) => t \in Of("mcp")
      BY <1>1, <2>1 DEF Free
    <2>3. t \notin Of("mcp")
      BY BindingAssumption DEF Of
    <2>4. "process" \notin DOMAIN Profiles
      BY BindingAssumption
    <2>5. Entry(bindings, t) \in DOMAIN Profiles /\ Entry(bindings, t) # None
      BY <1>5, <2>1, <2>2, <2>3, BoxedEntry DEF Entry, Boxed, Bypassed
    <2>6. QED
      BY <2>4, <2>5, SentThere
  <1>6. QED
    BY <1>3, <1>4, <1>5

LEMMA BoxedThere ==
  ASSUME IInv, NEW form, Bindings(agent.config) # <<>>, Where(agent.main, form) \in DOMAIN Profiles
  PROVE  \E i \in DOMAIN Bindings(agent.config) :
           /\ Bindings(agent.config)[i].backend = Where(agent.main, form)
           /\ Binding(Bindings(agent.config), Named(form)) = {i}
  <1> DEFINE bindings == Bindings(agent.config)
             t == Actual(agent.main, form)
  <1>1. Where(agent.main, form) \notin {"process", "blocked"}
    BY BindingAssumption
  <1>2. t \notin Free(bindings) /\ Boxed(bindings, t) /\ Where(agent.main, form) = Entry(bindings, t)
    BY <1>1, SentThere DEF Entry
  <1>3. t = Named(form)
    BY <1>2 DEF Actual, Proxied, Named, Free, CatalogTools
  <1>4. QED
    BY <1>2, <1>3, BoxedEntry DEF Entry

\* The call a change is laid to, from where, and what it changed.
BoundBy(from, form, changed) ==
  LET bindings == Bindings(agent.config)
  IN IF from \in {"process", "command"} THEN Bypassed(bindings, Named(form))
     ELSE /\ \E i \in DOMAIN bindings :
               bindings[i].backend = from /\ Binding(bindings, Named(form)) = {i}
          /\ \A p \in changed : \E m \in Profiles[from].write : Within(p, m)

LEMMA ProcessBound ==
  ASSUME IInv, NEW p \in procs, NEW s, Changes(p, Left(disk, p.view, s)), disk' # disk,
         Bindings(agent.config) # <<>>, calls[p.call].of = 0
  PROVE  /\ by' = [call |-> p.call, from |-> p.kind]
         /\ BoundBy(p.kind, calls[p.call].form, {q \in Paths : disk'[q] # disk[q]})
  <1> DEFINE form == calls[p.call].form
  <1>1. by' = [call |-> p.call, from |-> p.kind] /\ disk' = Left(disk, p.view, s)
    BY DEF Changes
  <1>2. RunsWhereSent(p) /\ Caller(p.call) = agent.main
    BY DEF IInv, Caller, Runner
  <1>3. CASE /\ p.kind \in {"process", "command"} /\ Where(agent.main, form) = "process"
             /\ Actual(agent.main, form) \in FileTools \cup Programs
    BY <1>1, <1>3, HereBypassed DEF BoundBy
  <1>4. CASE /\ p.kind \in DOMAIN Profiles /\ Where(agent.main, form) = p.kind
             /\ \A q \in Paths : p.view[q] = "write" =>
                                \E m \in Profiles[p.kind].write : Within(q, m)
    <2>1. p.kind \notin {"process", "command"}
      BY <1>4, BindingAssumption
    <2>2. \A q \in Paths : disk'[q] # disk[q] => p.view[q] = "write"
      BY <1>1 DEF Left
    <2>3. \E i \in DOMAIN Bindings(agent.config) :
            /\ Bindings(agent.config)[i].backend = p.kind
            /\ Binding(Bindings(agent.config), Named(form)) = {i}
      BY <1>4, BoxedThere
    <2>4. QED
      BY <1>1, <1>4, <2>1, <2>2, <2>3 DEF BoundBy
  <1>5. QED
    BY <1>2, <1>3, <1>4 DEF RunsWhereSent

\* A call answered in the process changes the disk by a file tool.
LEMMA InProcessBound ==
  ASSUME IInv, NEW c \in batch, InProcess(c), disk' # disk, calls[c].of = 0,
         Bindings(agent.config) # <<>>
  PROVE  BoundBy("process", calls[c].form, {})
  <1>1. Form(c).tool \in FileTools
    BY DEF InProcess
  <1>2. Where(agent.main, calls[c].form) = "process"
    BY DEF InProcess, Here, Sent, Caller, Runner
  <1>3. Actual(agent.main, calls[c].form) \in FileTools
    BY <1>1, ActualForm DEF Caller, Runner
  <1>4. QED
    BY <1>1, <1>2, <1>3, HereBypassed DEF BoundBy

\* A step that changes the disk is that of a call in the process or of a process,
\* and leaves the call what it was.
LEMMA Changer ==
  ASSUME IInv, Outputs, [Next]_vars, disk' # disk
  PROVE  /\ by'.call \in DOMAIN calls /\ calls'[by'.call].form = calls[by'.call].form
         /\ calls'[by'.call].of = calls[by'.call].of
         /\ \/ \E c \in batch : InProcess(c) /\ by'.call = c /\ by'.from = "process"
            \/ \E p \in procs : /\ ProcessStep(p) /\ by'.call = p.call /\ by'.from = p.kind
                               /\ \E s : Changes(p, Left(disk, p.view, s))
  <1>1. ASSUME NEW c \in batch, InProcess(c)
        PROVE  /\ c \in DOMAIN calls /\ by'.call = c /\ by'.from = "process"
               /\ calls'[c].form = calls[c].form /\ calls'[c].of = calls[c].of
    <2>1. by' = [call |-> c, from |-> "process"]
      BY <1>1 DEF InProcess
    <2>2. PICK ok, update : Right(update.files) /\ Answer(c, ok, update)
      BY <1>1, InProcessAnswers, Zenon
    <2>3. c \in DOMAIN calls /\ UNCHANGED batch
      BY <1>1 DEF IInv, Formed, CallsListed, InProcess
    <2>4. SameCalls
      BY <2>2, <2>3, AnswerMakes DEF IInv, Formed
    <2>5. QED
      BY <2>1, <2>3, <2>4 DEF SameCalls
  <1>2. ASSUME NEW p \in procs, ProcessStep(p)
        PROVE  /\ p.call \in DOMAIN calls /\ by'.call = p.call /\ by'.from = p.kind
               /\ UNCHANGED calls /\ \E s : Changes(p, Left(disk, p.view, s))
    <2>1. PICK s : Changes(p, Left(disk, p.view, s))
      BY <1>2, StepIInv
    <2>2. by' = [call |-> p.call, from |-> p.kind]
      BY <2>1 DEF Changes
    <2>3. p.call \in DOMAIN calls /\ UNCHANGED calls
      BY <1>2 DEF IInv, Formed, ProcsListed, ProcessStep
    <2>4. QED
      BY <2>1, <2>2, <2>3
  <1>3. ASSUME NEW p \in procs, Exit(p) \/ Timeout(p)
        PROVE  UNCHANGED disk
    BY <1>3 DEF Exit, Timeout
  <1>4. ASSUME NEW c \in batch, AttemptTimesOut(c) \/ Starts(c), ~InProcess(c)
        PROVE  UNCHANGED disk
    BY <1>4 DEF Starts, Blocked, Delegate, Rewrite, RunProgram, StartWorker, AttemptTimesOut
  <1>5. ASSUME NEW run, Message(run) \/ StepEnds(run) \/ TaskEnds(run)
        PROVE  UNCHANGED disk
    BY <1>5 DEF Message, StepEnds, TaskEnds
  <1>6. Cancel \/ UNCHANGED vars => UNCHANGED disk
    BY DEF Cancel, vars
  <1>7. \/ \E c \in batch : InProcess(c)
        \/ \E p \in procs : ProcessStep(p)
    BY <1>3, <1>4, <1>5, <1>6 DEF Next
  <1>8. QED
    BY <1>1, <1>2, <1>7

LEMMA BoundStep ==
  ASSUME IInv, Outputs, [Next]_vars, disk' # disk, calls'[by'.call].of = 0,
         Bindings(agent.config) # <<>>
  PROVE  BoundBy(by'.from, calls'[by'.call].form, {q \in Paths : disk'[q] # disk[q]})
  <1>1. /\ calls'[by'.call].form = calls[by'.call].form /\ calls[by'.call].of = 0
        /\ \/ \E c \in batch : InProcess(c) /\ by'.call = c /\ by'.from = "process"
           \/ \E p \in procs : /\ by'.call = p.call /\ by'.from = p.kind
                              /\ \E s : Changes(p, Left(disk, p.view, s))
    BY Changer
  <1>2. ASSUME NEW c \in batch, InProcess(c), by'.call = c, by'.from = "process"
        PROVE  BoundBy(by'.from, calls[c].form, {q \in Paths : disk'[q] # disk[q]})
    BY <1>1, <1>2, InProcessBound DEF BoundBy
  <1>3. ASSUME NEW p \in procs, by'.call = p.call, by'.from = p.kind,
               NEW s, Changes(p, Left(disk, p.view, s))
        PROVE  BoundBy(by'.from, calls[p.call].form, {q \in Paths : disk'[q] # disk[q]})
    BY <1>1, <1>3, ProcessBound
  <1>4. QED
    BY <1>1, <1>2, <1>3

\* With a sandbox a tool of the agent changes files in the process only if a profile
\* without sandbox has it, else in the sandbox of the one profile that has it and
\* where that lets it write, also when it is called through the catalog, when the
\* call was repeated, timed out or cancelled, and when other calls run beside it.
THEOREM ToolsRunAsBound == Spec => RunsAsBound
  <1>1. Init => IInv /\ Outputs
    BY InitIInv
  <1>2. IInv /\ Outputs /\ [Next]_vars => IInv' /\ Outputs'
    BY NextIInv, NextOutputs
  <1>3. IInv /\ Outputs /\ [Next]_vars =>
          [LET bindings == Bindings(agent.config)
               call == calls'[by'.call]
               form == call.form
               tool == IF form.tool = "run_tool" THEN form.of ELSE form.tool
           IN disk' # disk /\ call.of = 0 /\ bindings # <<>> =>
                IF by'.from \in {"process", "command"} THEN Bypassed(bindings, tool)
                ELSE /\ \E i \in DOMAIN bindings :
                          bindings[i].backend = by'.from /\ Binding(bindings, tool) = {i}
                     /\ \A p \in Paths : disk'[p] # disk[p] =>
                          \E m \in Profiles[by'.from].write : Within(p, m)]_vars
    BY BoundStep DEF BoundBy, Named
  <1>4. QED
    BY <1>1, <1>2, <1>3, PTL DEF Spec, RunsAsBound

-----------------------------------------------------------------------------
(* What an operation does to the lines of the files *)

Things == {Absent, Dir, Denied} \cup Texts

\* The tree an operation works on: what it may write it may also read.
IsSeen(s) == s = [d |-> s.d, view |-> s.view, ok |-> s.ok]
Sound(s) ==
  /\ IsSeen(s)
  /\ s.d \in [Paths -> Things]
  /\ \A q \in Paths : s.view[q] = "write" => s.d[q] # Denied
Leads(s, r) == Sound(r) /\ r.view = s.view
Has(s, q, x) == s.d[q] \in Texts /\ x \in Range(s.d[q])

LEMMA TextIs ==
  ASSUME NEW s, Sound(s), NEW q \in Paths
  PROVE  IsText(s, q) <=> s.d[q] \in Texts
  BY KindsAssumption DEF Sound, Things, IsText

LEMMA FailKeeps ==
  ASSUME NEW s, Sound(s)
  PROVE  Leads(s, Fail(s)) /\ Fail(s).d = s.d /\ ~Fail(s).ok
  <1>1. IsSeen(s)
    BY DEF Sound
  <1>2. ASSUME NEW b
        PROVE  [s EXCEPT !.ok = b] = [d |-> s.d, view |-> s.view, ok |-> b]
    BY <1>1 DEF IsSeen
  <1>3. \E b : b = FALSE /\ Fail(s) = [s EXCEPT !.ok = b]
    BY DEF Fail
  <1>4. PICK b : b = FALSE /\ Fail(s) = [d |-> s.d, view |-> s.view, ok |-> b]
    BY <1>2, <1>3
  <1>5. QED
    BY <1>4 DEF IsSeen, Sound, Leads

LEMMA PutKeeps ==
  ASSUME NEW s, Sound(s), NEW p \in Paths, NEW v \in Texts \cup {Absent}
  PROVE  LET r == Put(s, p, v) IN
         /\ Leads(s, r) /\ (r.ok => s.ok /\ s.view[p] \notin {"read", "denied"})
         /\ \A q \in Paths : r.d[q] = IF r.ok /\ q = p THEN v ELSE s.d[q]
  <1>1. CASE ~s.ok \/ s.view[p] \in {"read", "denied"}
    <2>1. Put(s, p, v) = Fail(s)
      BY <1>1 DEF Put
    <2>2. QED
      BY <2>1, FailKeeps
  <1>2. CASE ~(~s.ok \/ s.view[p] \in {"read", "denied"})
    <2> DEFINE d == [s.d EXCEPT ![p] = v]
    <2>0. IsSeen(s)
      BY DEF Sound
    <2>1. Put(s, p, v) = [d |-> d, view |-> s.view, ok |-> s.ok]
      BY <1>2, <2>0 DEF Put, IsSeen
    <2>2. d \in [Paths -> Things] /\ \A q \in Paths : d[q] = IF q = p THEN v ELSE s.d[q]
      BY DEF Sound, Things
    <2>3. v # Denied
      BY KindsAssumption
    <2> HIDE DEF d
    <2>4. QED
      BY <1>2, <2>1, <2>2, <2>3 DEF IsSeen, Sound, Leads
  <1>3. QED
    BY <1>1, <1>2

\* A directory is made where nothing was.
LEMMA DirsKept ==
  ASSUME NEW s, Sound(s), NEW S
  PROVE  LET r == MakeDirs(s, S) IN
         /\ Leads(s, r) /\ (r.ok => s.ok)
         /\ \A q \in Paths : r.d[q] = s.d[q] \/ (s.d[q] = Absent /\ r.d[q] = Dir)
  <1> DEFINE bad == \E p \in S : \/ Exists(s, p) /\ s.d[p] # Dir
                                 \/ ~Exists(s, p) /\ s.view[p] \in {"read", "denied"}
  <1>1. CASE bad
    <2>1. MakeDirs(s, S) = Fail(s)
      BY <1>1 DEF MakeDirs
    <2>2. QED
      BY <2>1, FailKeeps
  <1>2. CASE ~bad
    <2> DEFINE d == [p \in Paths |-> IF p \in S THEN Dir ELSE s.d[p]]
    <2>1. MakeDirs(s, S) = [s EXCEPT !.d = d]
      BY <1>2 DEF MakeDirs
    <2>2. \A q \in Paths : d[q] = s.d[q] \/ (s.d[q] = Absent /\ d[q] = Dir)
      BY <1>2 DEF Exists
    <2>3. d \in [Paths -> Things]
      BY DEF Sound, Things
    <2> HIDE DEF d
    <2>4. MakeDirs(s, S) = [d |-> d, view |-> s.view, ok |-> s.ok]
      BY <2>1 DEF IsSeen, Sound
    <2>5. QED
      BY <2>2, <2>3, <2>4, KindsAssumption DEF IsSeen, Sound, Leads
  <1>3. QED
    BY <1>1, <1>2

LEMMA MadeHas ==
  ASSUME NEW s, Sound(s), NEW S, NEW q \in Paths, NEW x, Has(s, q, x)
  PROVE  Has(MakeDirs(s, S), q, x)
  BY DirsKept, KindsAssumption DEF Has

\* A file is written where none was.
LEMMA WriteKeeps ==
  ASSUME NEW s, Sound(s), NEW p \in Paths, NEW text \in Texts
  PROVE  LET r == WriteFile(s, p, text) IN
         /\ Leads(s, r) /\ (r.ok => r.d[p] \in Texts)
         /\ \A q \in Paths : \A x : Has(s, q, x) => Has(r, q, x)
  <1>1. CASE Exists(s, p)
    BY <1>1, FailKeeps DEF WriteFile, Has
  <1>2. CASE ~Exists(s, p)
    <2> DEFINE made == MakeDirs(s, Up[p])
    <2>1. Leads(s, made) /\ \A q \in Paths : \A x : Has(s, q, x) => Has(made, q, x)
      BY DirsKept, MadeHas
    <2>2. WriteFile(s, p, text) = Put(made, p, text) /\ s.d[p] \notin Texts
      BY <1>2, KindsAssumption DEF WriteFile, Exists
    <2> DEFINE r == Put(made, p, text)
    <2> HIDE DEF made
    <2>3. /\ Leads(made, r)
          /\ \A q \in Paths : r.d[q] = IF r.ok /\ q = p THEN text ELSE made.d[q]
      BY <2>1, PutKeeps DEF Leads
    <2> HIDE DEF r
    <2>4. QED
      BY <2>1, <2>2, <2>3 DEF Leads, Has, r
  <1>3. QED
    BY <1>1, <1>2

\* The place of a line, the first one, holds that line.
LEMMA MatchFound ==
  ASSUME NEW text \in Texts, NEW line \in Range(text)
  PROVE  FindMatch(text, line) \in DOMAIN text /\ text[FindMatch(text, line)] = line
  <1> DEFINE T == {i \in DOMAIN text : text[i] = line}
  <1>1. DOMAIN text \subseteq Nat \ {0} /\ \A i \in DOMAIN text : 1..(i - 1) \subseteq DOMAIN text
    BY DEF Texts
  <1>2. T \in SUBSET Nat /\ T # {}
    BY <1>1 DEF Range
  <1>3. PICK m \in T : \A k \in T : m <= k
    BY <1>2, Least
  <1>4. \A j \in 1..(m - 1) : text[j] # line
    BY <1>1, <1>3
  <1>5. \E i \in DOMAIN text : text[i] = line /\ \A j \in 1..(i - 1) : text[j] # line
    BY <1>3, <1>4
  <1>6. QED
    BY <1>5 DEF FindMatch

LEMMA EditKeeps ==
  ASSUME NEW s, Sound(s), NEW p \in Paths, NEW olds, NEW new \in Nat
  PROVE  LET r == EditFile(s, p, olds, new) IN
         /\ Leads(s, r) /\ (r.ok => r.d[p] \in Texts)
         /\ \A q \in Paths : \A x : Has(s, q, x) => Has(r, q, x) \/ (q = p /\ x \in Range(olds))
  <1>1. CASE ~IsText(s, p) \/ ~Found(s.d[p], olds) \/ Overlap(s.d[p], olds)
    BY <1>1, FailKeeps DEF EditFile, Has
  <1>2. CASE IsText(s, p) /\ Found(s.d[p], olds) /\ ~Overlap(s.d[p], olds)
    <2> DEFINE text == s.d[p]
               after == Replaced(text, olds, new)
    <2>1. EditFile(s, p, olds, new) = Put(s, p, after)
      BY <1>2 DEF EditFile
    <2>2. text \in Texts /\ \A k \in DOMAIN olds : olds[k] \in Range(text)
      BY <1>2, TextIs DEF Found
    <2> HIDE DEF text
    <2>3. after \in Texts
      BY <2>2 DEF Replaced, Texts
    <2>4. ASSUME NEW x \in Range(text), x \notin Range(olds)
          PROVE  x \in Range(after)
      <3>1. PICK i \in DOMAIN text : text[i] = x
        BY DEF Range
      <3>2. i \notin {FindMatch(text, olds[k]) : k \in DOMAIN olds}
        BY <2>2, <2>4, <3>1, MatchFound DEF Range
      <3>3. after[i] = x /\ i \in DOMAIN after
        BY <3>1, <3>2 DEF Replaced
      <3>4. QED
        BY <3>3 DEF Range
    <2> HIDE DEF after
    <2>5. QED
      BY <2>1, <2>3, <2>4, PutKeeps DEF Has, text
  <1>3. QED
    BY <1>1, <1>2

LEMMA InsertKeeps ==
  ASSUME NEW s, Sound(s), NEW p \in Paths, NEW line \in Nat, NEW new \in Nat
  PROVE  LET r == InsertAtLine(s, p, line, new) IN
         /\ Leads(s, r) /\ (r.ok => r.d[p] \in Texts)
         /\ \A q \in Paths : \A x : Has(s, q, x) => Has(r, q, x)
  <1>1. CASE ~IsText(s, p) \/ line \notin 1..(Len(s.d[p]) + 1)
    BY <1>1, FailKeeps DEF InsertAtLine, Has
  <1>2. CASE IsText(s, p) /\ line \in 1..(Len(s.d[p]) + 1)
    <2> DEFINE text == s.d[p]
               after == InsertAt(text, line, new)
    <2>1. InsertAtLine(s, p, line, new) = Put(s, p, after)
      BY <1>2 DEF InsertAtLine
    <2>2. text \in Texts /\ line \in 1..(Len(text) + 1)
      BY <1>2, TextIs
    <2> HIDE DEF text
    <2> DEFINE head == SubSeq(text, 1, line - 1)
               tail == SubSeq(text, line, Len(text))
    <2>3. after = head \o <<new>> \o tail
      BY DEF InsertAt
    <2>4. /\ head \in Texts /\ Len(head) = line - 1
          /\ \A i \in 1..(line - 1) : head[i] = text[i]
      BY <2>2 DEF Texts
    <2>5. /\ tail \in Texts /\ Len(tail) = Len(text) - line + 1
          /\ \A i \in 1..(Len(text) - line + 1) : tail[i] = text[line + i - 1]
      BY <2>2 DEF Texts
    <2> HIDE DEF head, tail, after
    <2>6. after \in Texts /\ Len(after) = Len(text) + 1
      BY <2>2, <2>3, <2>4, <2>5 DEF Texts
    <2>7. ASSUME NEW i \in DOMAIN text
          PROVE  \E j \in DOMAIN after : after[j] = text[i]
      <3>1. i \in 1..Len(text) /\ DOMAIN after = 1..(Len(text) + 1) /\ Len(text) \in Nat
        BY <2>2, <2>6 DEF Texts
      <3>2. CASE i < line
        <4>1. after[i] = text[i]
          BY <2>2, <2>3, <2>4, <2>5, <3>1, <3>2 DEF Texts
        <4>2. QED
          BY <3>1, <4>1
      <3>3. CASE ~(i < line)
        <4>1. after[i + 1] = tail[i - line + 1]
          BY <2>2, <2>3, <2>4, <2>5, <3>1, <3>3 DEF Texts
        <4>2. tail[i - line + 1] = text[i]
          BY <2>2, <2>5, <3>1, <3>3
        <4>3. QED
          BY <3>1, <4>1, <4>2
      <3>4. QED
        BY <3>2, <3>3
    <2>8. \A x \in Range(text) : x \in Range(after)
      BY <2>7 DEF Range
    <2>9. QED
      BY <2>1, <2>6, <2>8, PutKeeps DEF Has, text
  <1>3. QED
    BY <1>1, <1>2

LEMMA DeleteKeeps ==
  ASSUME NEW s, Sound(s), NEW p \in Paths
  PROVE  /\ Leads(s, DeleteFile(s, p)) /\ Leads(s, DeleteDir(s, p))
         /\ \A q \in Paths : \A x : Has(s, q, x) =>
              \/ Within(q, p)
              \/ Has(DeleteFile(s, p), q, x) /\ Has(DeleteDir(s, p), q, x)
  <1>1. /\ Leads(s, DeleteFile(s, p))
        /\ \A q \in Paths : \A x : Has(s, q, x) => q = p \/ Has(DeleteFile(s, p), q, x)
    <2>1. CASE IsText(s, p)
      BY <2>1, PutKeeps DEF DeleteFile, Has
    <2>2. CASE ~IsText(s, p)
      BY <2>2, FailKeeps DEF DeleteFile, Has
    <2>3. QED
      BY <2>1, <2>2
  <1>2. /\ Leads(s, DeleteDir(s, p))
        /\ \A q \in Paths : \A x : Has(s, q, x) => Within(q, p) \/ Has(DeleteDir(s, p), q, x)
    <2> DEFINE below == {q \in Paths : Within(q, p) /\ Exists(s, q)}
               bad == s.d[p] # Dir \/ \E q \in below : s.view[q] \in {"read", "denied"}
               d == [q \in Paths |-> IF q \in below THEN Absent ELSE s.d[q]]
    <2>1. CASE bad
      <3>1. DeleteDir(s, p) = Fail(s)
        BY <2>1 DEF DeleteDir
      <3>2. QED
        BY <3>1, FailKeeps DEF Has
    <2>2. CASE ~bad
      <3>1. DeleteDir(s, p) = [s EXCEPT !.d = d]
        BY <2>2 DEF DeleteDir
      <3>2. d \in [Paths -> Things] /\ \A q \in Paths : d[q] # Denied \/ d[q] = s.d[q]
        BY KindsAssumption DEF Sound, Things
      <3>3. \A q \in Paths : d[q] = s.d[q] \/ Within(q, p)
        OBVIOUS
      <3> HIDE DEF d
      <3>4. DeleteDir(s, p) = [d |-> d, view |-> s.view, ok |-> s.ok]
        BY <3>1 DEF IsSeen, Sound
      <3>5. QED
        BY <3>2, <3>3, <3>4 DEF IsSeen, Sound, Leads, Has
    <2>3. QED
      BY <2>1, <2>2
  <1>3. QED
    BY <1>1, <1>2 DEF Within

\* A file that is moved has its lines where it went; the file there is lost.
LEMMA MoveKeeps ==
  ASSUME NEW s, Sound(s), NEW a \in Paths, NEW b \in Paths
  PROVE  LET r == MoveFile(s, a, b) IN
         /\ Leads(s, r)
         /\ \A q \in Paths : \A x : Has(s, q, x) =>
              \/ Has(r, q, x) \/ q = b
              \/ q = a /\ Has(r, b, x) /\ s.view[b] \notin {"read", "denied"}
  <1> DEFINE made == MakeDirs(s, Up[b])
             text == made.d[a]
             put == Put(made, b, text)
  <1>1. Leads(s, made) /\ \A q \in Paths : \A x : Has(s, q, x) => Has(made, q, x)
    BY DirsKept, MadeHas
  <1>2. MoveFile(s, a, b) =
          IF ~made.ok \/ ~IsText(made, a) \/ made.d[b] \in {Dir, Denied} THEN Fail(made)
          ELSE IF a = b THEN made ELSE IF put.ok THEN Put(put, a, Absent) ELSE put
    BY DEF MoveFile
  <1> HIDE DEF made
  <1>3. CASE ~made.ok \/ ~IsText(made, a) \/ made.d[b] \in {Dir, Denied}
    <2>1. Leads(made, Fail(made)) /\ Fail(made).d = made.d
      BY <1>1, FailKeeps DEF Leads
    <2>2. QED
      BY <1>1, <1>2, <1>3, <2>1 DEF Leads, Has
  <1>4. CASE IsText(made, a) /\ MoveFile(s, a, b) = made
    BY <1>1, <1>4
  <1>5. CASE IsText(made, a) /\ a # b /\ MoveFile(s, a, b) = IF put.ok THEN Put(put, a, Absent) ELSE put
    <2>1. text \in Texts
      BY <1>1, <1>5, TextIs DEF Leads
    <2>2. /\ Leads(made, put) /\ (put.ok => made.view[b] \notin {"read", "denied"})
          /\ \A q \in Paths : put.d[q] = IF put.ok /\ q = b THEN text ELSE made.d[q]
      <3> HIDE DEF text
      <3>1. QED
        BY <1>1, <2>1, PutKeeps DEF Leads
    <2> DEFINE r == Put(put, a, Absent)
    <2> HIDE DEF put
    <2>3. Leads(put, r) /\ \A q \in Paths : r.d[q] = IF r.ok /\ q = a THEN Absent ELSE put.d[q]
      BY <2>2, PutKeeps DEF Leads
    <2> HIDE DEF r
    <2>4. CASE put.ok
      <3>1. MoveFile(s, a, b) = r
        BY <1>5, <2>4 DEF r
      <3>2. r.d[b] = text /\ \A q \in Paths \ {a, b} : r.d[q] = made.d[q]
        BY <1>5, <2>2, <2>3, <2>4
      <3>3. Leads(s, r) /\ s.view[b] \notin {"read", "denied"}
        BY <1>1, <2>2, <2>3, <2>4 DEF Leads
      <3>4. QED
        BY <1>1, <3>1, <3>2, <3>3 DEF Has
    <2>5. CASE ~put.ok
      <3>1. MoveFile(s, a, b) = put
        BY <1>5, <2>5
      <3>2. QED
        BY <1>1, <2>2, <2>5, <3>1 DEF Leads, Has
    <2>6. QED
      BY <2>4, <2>5
  <1>6. QED
    BY <1>2, <1>3, <1>4, <1>5

-----------------------------------------------------------------------------
(* One move after the other *)

\* after[n]: what the first n moves leave.
AfterIs(s, moves, f) ==
  f = [n \in 0..Len(moves) |->
         IF n = 0 THEN s
         ELSE IF f[n - 1].ok THEN MoveFile(f[n - 1], moves[n][1], moves[n][2])
         ELSE f[n - 1]]

LEMMA AfterDefined ==
  ASSUME NEW s, NEW moves, Len(moves) \in Nat
  PROVE  \E f : AfterIs(s, moves, f)
  <1> DEFINE Val(f, n) == IF n = 0 THEN s
                          ELSE IF f[n - 1].ok THEN MoveFile(f[n - 1], moves[n][1], moves[n][2])
                          ELSE f[n - 1]
             Good(n, f) == f = [x \in 0..n |-> Val(f, x)]
             Bad == {n \in Nat : ~\E f : Good(n, f)}
  <1>1. Bad = {}
    <2> SUFFICES ASSUME Bad # {} PROVE FALSE
      OBVIOUS
    <2>1. PICK n \in Bad : \A k \in Bad : n <= k
      BY Least
    <2>2. CASE n = 0
      <3>1. Good(0, [x \in 0..0 |-> s])
        OBVIOUS
      <3>2. QED
        BY <2>1, <2>2, <3>1
    <2>3. CASE n # 0
      <3>1. n \in Nat /\ n - 1 \in Nat /\ n - 1 < n
        BY <2>3
      <3>2. n - 1 \notin Bad
        <4> HIDE DEF Bad
        <4>1. QED
          BY <2>1, <3>1
      <3>3. PICK g : Good(n - 1, g)
        BY <3>1, <3>2
      <3> DEFINE top == Val(g, n)
                 f == [x \in 0..n |-> IF x = n THEN top ELSE g[x]]
      <3>4. ASSUME NEW x \in 0..n
            PROVE  f[x] = Val(f, x)
        <4>1. x # 0 => x - 1 \in 0..(n - 1) /\ x - 1 # n /\ f[x - 1] = g[x - 1]
          BY <3>1
        <4>2. Val(f, x) = Val(g, x)
          BY <4>1
        <4>3. CASE x = n
          BY <4>2, <4>3
        <4>4. CASE x # n
          <5>1. x \in 0..(n - 1)
            BY <3>1, <4>4
          <5>2. g[x] = Val(g, x)
            BY <3>3, <5>1
          <5>3. QED
            BY <4>2, <4>4, <5>2
        <4>5. QED
          BY <4>3, <4>4
      <3>5. Good(n, f)
        BY <3>4
      <3>6. QED
        BY <2>1, <3>5
    <2>4. QED
      BY <2>2, <2>3
  <1>2. PICK g : Good(Len(moves), g)
    BY <1>1
  <1>3. AfterIs(s, moves, g)
    BY <1>2 DEF AfterIs
  <1>4. QED
    BY <1>3

\* A move that takes a file out of what may be written; two moves to one place.
Out(view, m) == view[m[1]] = "write" /\ view[m[2]] \notin {"write", "read", "denied"}
Lost(view, moves, q) ==
  \E i \in DOMAIN moves : \/ moves[i][2] = q \/ Out(view, moves[i])
                          \/ \E j \in DOMAIN moves \ {i} : moves[j][2] = moves[i][2]

LEMMA MovesKeep ==
  ASSUME NEW s, Sound(s), NEW moves \in Seq(Paths \X Paths)
  PROVE  LET r == MoveFiles(s, moves) IN
         /\ Leads(s, r)
         /\ \A q \in Paths : \A x : Has(s, q, x) /\ s.view[q] = "write" =>
              \/ Lost(s.view, moves, q)
              \/ \E to \in Paths : s.view[to] = "write" /\ Has(r, to, x)
  <1> DEFINE M == Len(moves)
             Is(f) == AfterIs(s, moves, f)
             K == CHOOSE f : Is(f)
  <1>1. M \in Nat /\ DOMAIN moves = 1..M
    OBVIOUS
  <1>2. \E f : Is(f)
    BY <1>1, AfterDefined
  <1>3. MoveFiles(s, moves) = K[M]
    BY DEF MoveFiles, AfterIs
  <1> HIDE DEF M, Is
  <1>4. Is(K)
    BY <1>2
  <1> HIDE DEF K
  <1>5. /\ K[0] = s
        /\ \A n \in 1..M : K[n] = IF K[n - 1].ok THEN MoveFile(K[n - 1], moves[n][1], moves[n][2])
                                  ELSE K[n - 1]
    BY <1>1, <1>4 DEF Is, AfterIs, M
  <1>6. ASSUME NEW n \in 1..M
        PROVE  moves[n][1] \in Paths /\ moves[n][2] \in Paths
    BY <1>1
  <1> DEFINE At(n, x, q, to) ==
               /\ s.view[to] = "write" /\ Has(K[n], to, x)
               /\ to = q \/ \E i \in 1..n : moves[i][2] = to
             Kept(n) == \A q \in Paths : \A x :
               Has(s, q, x) /\ s.view[q] = "write" /\ ~Lost(s.view, moves, q) =>
                 \E to \in Paths : At(n, x, q, to)
             Fine(n) == Leads(s, K[n]) /\ Kept(n)
             Bad == {n \in 0..M : ~Fine(n)}
  <1>7. Fine(0)
    BY <1>5 DEF Leads
  <1>8. ASSUME NEW n \in 1..M, Fine(n - 1)
        PROVE  Fine(n)
    <2> DEFINE old == K[n - 1]
               new == K[n]
               a == moves[n][1]
               b == moves[n][2]
    <2>1. a \in Paths /\ b \in Paths /\ Leads(s, old) /\ n - 1 \in Nat
      BY <1>1, <1>6, <1>8
    <2>2. \A i \in 1..(n - 1) : i \in 1..n /\ i # n /\ i \in DOMAIN moves
      BY <1>1
    <2>3. /\ Leads(old, new)
          /\ \A to \in Paths : \A x : Has(old, to, x) =>
               \/ Has(new, to, x) \/ to = b
               \/ to = a /\ Has(new, b, x) /\ old.view[b] \notin {"read", "denied"}
      <3>1. CASE old.ok
        <4>1. new = MoveFile(old, a, b)
          BY <1>5, <3>1
        <4> HIDE DEF old, new, a, b
        <4>2. Sound(old)
          BY <2>1 DEF Leads
        <4>3. QED
          BY <2>1, <4>1, <4>2, MoveKeeps
      <3>2. CASE ~old.ok
        <4>1. new = old
          BY <1>5, <3>2
        <4> HIDE DEF old, new, a, b
        <4>2. QED
          BY <2>1, <4>1 DEF Leads
      <3>3. QED
        BY <3>1, <3>2
    <2>4. Leads(s, new)
      BY <2>1, <2>3 DEF Leads
    <2>5. ASSUME NEW q \in Paths, NEW x, Has(s, q, x), s.view[q] = "write",
                 ~Lost(s.view, moves, q)
          PROVE  \E to \in Paths : At(n, x, q, to)
      <3>1. PICK to \in Paths : At(n - 1, x, q, to)
        BY <1>8, <2>5
      <3>2. to # b
        <4>1. n \in DOMAIN moves /\ b # q
          BY <1>1, <2>5 DEF Lost
        <4>2. \A i \in 1..(n - 1) : moves[i][2] # b
          BY <2>2, <2>5, <4>1 DEF Lost
        <4>3. QED
          BY <3>1, <4>1, <4>2
      <3>3. CASE Has(new, to, x)
        BY <2>2, <3>1, <3>3
      <3>4. CASE to = a /\ Has(new, b, x) /\ old.view[b] \notin {"read", "denied"}
        <4>1. s.view[b] = "write"
          <5>1. n \in DOMAIN moves /\ ~Out(s.view, moves[n])
            BY <1>1, <2>5 DEF Lost
          <5>2. s.view[a] = "write" /\ s.view[b] \notin {"read", "denied"}
            BY <2>1, <3>1, <3>4 DEF Leads
          <5>3. QED
            BY <5>1, <5>2 DEF Out
        <4>2. n \in 1..n
          BY <1>1
        <4>3. At(n, x, q, b)
          BY <3>4, <4>1, <4>2
        <4>4. QED
          BY <2>1, <4>3
      <3>5. QED
        BY <2>3, <3>1, <3>2, <3>3, <3>4
    <2>6. QED
      BY <2>4, <2>5
  <1> HIDE DEF Fine
  <1>9. Bad = {}
    <2> SUFFICES ASSUME Bad # {} PROVE FALSE
      OBVIOUS
    <2>0. Bad \in SUBSET Nat
      BY <1>1
    <2>1. PICK n \in Bad : \A k \in Bad : n <= k
      BY <2>0, Least
    <2>2. n \in 1..M /\ n - 1 \in 0..M /\ ~(n <= n - 1)
      BY <1>1, <1>7, <2>1
    <2>3. n - 1 \notin Bad
      <3> HIDE DEF Bad
      <3>1. QED
        BY <2>1, <2>2
    <2>4. QED
      BY <1>8, <2>1, <2>2, <2>3
  <1>10. Fine(M)
    BY <1>1, <1>9
  <1>11. QED
    BY <1>3, <1>10 DEF Fine
-----------------------------------------------------------------------------
(* What a tool keeps *)

IsForm(form) == form.path \in Paths /\ form.line \in Nat /\ form.moves \in Seq(Paths \X Paths)

\* A call names the lines it replaces and the paths it deletes.
Names(t, form, q, x) ==
  \/ t = "edit_file" /\ q = ResolvePath(form.path) /\ x \in Range(form.olds)
  \/ t \in {"delete_file", "delete_dir"} /\ Within(q, ResolvePath(form.path))
Moving == {"move_file", "move_multiple_files"}

LEMMA ResolvedPath ==
  ASSUME NEW p \in Paths
  PROVE  ResolvePath(p) \in Paths
  BY FilesAssumption DEF ResolvePath

\* A command that works on a file adds a line to it.
LEMMA CommandKeeps ==
  ASSUME NEW s, Sound(s), NEW p \in Paths, NEW c \in Nat
  PROVE  LET r == IF s.d[p] = Dir THEN Fail(s)
                  ELSE Put(s, p, IF IsText(s, p) THEN Append(s.d[p], c) ELSE <<c>>)
         IN /\ Leads(s, r) /\ (r.ok => r.d[p] \in Texts)
            /\ \A q \in Paths : \A x : Has(s, q, x) => Has(r, q, x)
  <1>1. CASE s.d[p] = Dir
    BY <1>1, FailKeeps DEF Has
  <1>2. CASE s.d[p] # Dir
    <2> DEFINE text == s.d[p]
               after == IF IsText(s, p) THEN Append(text, c) ELSE <<c>>
    <2>1. after \in Texts /\ (text \in Texts => \A x \in Range(text) : x \in Range(after))
      <3>1. <<c>> \in Texts
        BY DEF Texts
      <3>2. ASSUME text \in Texts
            PROVE  /\ Append(text, c) \in Texts
                   /\ \A x \in Range(text) : x \in Range(Append(text, c))
        <4> HIDE DEF text
        <4>1. Append(text, c) \in Texts /\ Len(Append(text, c)) = Len(text) + 1
          BY <3>2 DEF Texts
        <4>2. \A i \in DOMAIN text : i \in DOMAIN Append(text, c) /\ Append(text, c)[i] = text[i]
          BY <3>2 DEF Texts
        <4>3. QED
          BY <4>1, <4>2 DEF Range
      <3>3. IsText(s, p) <=> text \in Texts
        BY TextIs
      <3> HIDE DEF text
      <3>4. QED
        BY <3>1, <3>2, <3>3
    <2> HIDE DEF after
    <2> DEFINE r == Put(s, p, after)
    <2>2. Leads(s, r) /\ \A q \in Paths : r.d[q] = IF r.ok /\ q = p THEN after ELSE s.d[q]
      BY <2>1, PutKeeps
    <2> HIDE DEF r
    <2>3. /\ Leads(s, r) /\ (r.ok => r.d[p] \in Texts)
          /\ \A q \in Paths : \A x : Has(s, q, x) => Has(r, q, x)
      BY <2>1, <2>2 DEF Has
    <2>4. QED
      BY <1>2, <2>3 DEF r, after
  <1>3. QED
    BY <1>1, <1>2

LEMMA EffectKeeps ==
  ASSUME NEW s, Sound(s), NEW c \in Nat, NEW form, IsForm(form)
  PROVE  LET r == Effect(c, form, s) t == form.tool IN
         /\ Leads(s, r)
         /\ t \in Rewriting /\ r.ok => r.d[ResolvePath(form.path)] \in Texts
         /\ t \in Rewriting => \A q \in Paths : \A x :
              Has(s, q, x) => Has(r, q, x) \/ Names(t, form, q, x)
         /\ \A q \in Paths : \A x : Has(s, q, x) /\ s.view[q] = "write" =>
              \/ \E to \in Paths : s.view[to] = "write" /\ Has(r, to, x)
              \/ Names(t, form, q, x)
              \/ t \in Moving /\ Lost(s.view, form.moves, q)
  <1> DEFINE r == Effect(c, form, s)
             t == form.tool
             p == ResolvePath(form.path)
             Goal == /\ Leads(s, r) /\ (t \in Rewriting /\ r.ok => r.d[p] \in Texts)
                     /\ t \in Rewriting => \A q \in Paths : \A x :
                          Has(s, q, x) => Has(r, q, x) \/ Names(t, form, q, x)
                     /\ \A q \in Paths : \A x : Has(s, q, x) /\ s.view[q] = "write" =>
                          \/ \E to \in Paths : s.view[to] = "write" /\ Has(r, to, x)
                          \/ Names(t, form, q, x)
                          \/ t \in Moving /\ Lost(s.view, form.moves, q)
             run == IF s.d[p] = Dir THEN Fail(s)
                    ELSE Put(s, p, IF IsText(s, p) THEN Append(s.d[p], c) ELSE <<c>>)
  <1> SUFFICES Goal
    OBVIOUS
  <1>1. p \in Paths /\ <<c>> \in Texts
    BY ResolvedPath DEF IsForm, Texts
  <1>2. r = Fail(s) => Goal
    BY FailKeeps DEF Has
  <1>3. r = s /\ t \notin Rewriting => Goal
    BY DEF Leads
  <1>4. CASE form.bad \/ Escapes(s.d, form)
    <2>1. r = Fail(s)
      BY <1>4 DEF Effect
    <2>2. QED
      BY <1>2, <2>1
  <1>5. CASE ~(form.bad \/ Escapes(s.d, form))
    <2>1. r = CASE t = "read_file" -> ReadFile(s, p)
                [] t = "write_file" -> WriteFile(s, p, <<c>>)
                [] t = "edit_file" -> EditFile(s, p, form.olds, c)
                [] t = "insert_at_line" -> InsertAtLine(s, p, form.line, c)
                [] t = "create_dir" -> CreateDir(s, p)
                [] t \in {"move_file", "move_multiple_files"} -> MoveFiles(s, form.moves)
                [] t = "delete_file" -> DeleteFile(s, p)
                [] t = "delete_dir" -> DeleteDir(s, p)
                [] t = "run_command" -> run
                [] t \in {"ls", "get_directory_structure", "grep_search", "grep"} -> Ls(s, p)
                [] t = "glob" -> Glob(s, p)
                [] t \in MemoryTools -> IF Handed(form, KeptFor(c)) THEN s ELSE Fail(s)
                [] OTHER -> s
      BY <1>5 DEF Effect
    <2> HIDE DEF t
    <2> HIDE DEF r, p, run, Goal
    <2>2. CASE t = "write_file"
      <3>1. r = WriteFile(s, p, <<c>>)
        BY <2>1, <2>2 DEF MemoryTools
      <3>2. QED
        BY <1>1, <3>1, WriteKeeps DEF Goal
    <2>3. CASE t = "edit_file"
      <3>1. r = EditFile(s, p, form.olds, c)
        BY <2>1, <2>3 DEF MemoryTools
      <3>2. QED
        BY <1>1, <2>3, <3>1, EditKeeps DEF Goal, Names, p
    <2>4. CASE t = "insert_at_line"
      <3>1. r = InsertAtLine(s, p, form.line, c)
        BY <2>1, <2>4 DEF MemoryTools
      <3>2. QED
        BY <1>1, <3>1, InsertKeeps DEF Goal, IsForm
    <2>5. CASE t = "create_dir"
      <3>1. r = MakeDirs(s, Up[p] \cup {p})
        BY <2>1, <2>5 DEF CreateDir, MemoryTools
      <3>2. t \notin Rewriting
        BY <2>5 DEF Rewriting
      <3>3. QED
        BY <3>1, <3>2, DirsKept, MadeHas DEF Goal
    <2>6. CASE t \in Moving
      <3>1. r = MoveFiles(s, form.moves) /\ t \notin Rewriting
        BY <2>1, <2>6 DEF Moving, Rewriting, MemoryTools
      <3>2. QED
        BY <2>6, <3>1, MovesKeep DEF Goal, IsForm
    <2>7. CASE t \in {"delete_file", "delete_dir"}
      <3>1. r \in {DeleteFile(s, p), DeleteDir(s, p)} /\ t \notin Rewriting
        BY <2>1, <2>7 DEF Rewriting, MemoryTools
      <3>2. QED
        BY <1>1, <2>7, <3>1, DeleteKeeps DEF Goal, Names, p
    <2>8. CASE t = "run_command"
      <3>1. r = run
        BY <2>1, <2>8 DEF MemoryTools
      <3>2. QED
        BY <1>1, <3>1, CommandKeeps DEF Goal, run
    <2>9. CASE t \notin {"write_file", "edit_file", "insert_at_line", "create_dir", "move_file",
                         "move_multiple_files", "delete_file", "delete_dir", "run_command"}
      <3>1. r \in {s, Fail(s)}
        BY <2>1, <2>9 DEF ReadFile, Ls, Glob
      <3>2. t \notin Rewriting
        BY <2>9 DEF Rewriting
      <3>3. QED
        BY <1>2, <1>3, <3>1, <3>2
    <2>10. QED
      BY <2>2, <2>3, <2>4, <2>5, <2>6, <2>7, <2>8, <2>9 DEF Moving
  <1>6. QED
    BY <1>4, <1>5

-----------------------------------------------------------------------------
(* What is left on disk *)

OnDisk == disk \in [Paths -> {Absent, Dir} \cup Texts]
IsView(view) == \A q \in Paths : view[q] \in {"write", "read", "denied", "scratch"}

LEMMA SeenSound ==
  ASSUME OnDisk, NEW view, IsView(view)
  PROVE  LET s == Seen(disk, view) IN
         /\ Sound(s) /\ s.view = view
         /\ \A q \in Paths : view[q] = "write" => s.d[q] = disk[q]
  <1> DEFINE d == [p \in Paths |-> CASE view[p] \in {"write", "read"} -> disk[p]
                                     [] view[p] = "denied" -> Denied
                                     [] view[p] = "scratch" -> Absent]
  <1>1. ASSUME NEW q \in Paths
        PROVE  d[q] \in Things /\ (view[q] = "write" => d[q] = disk[q] /\ d[q] # Denied)
    <2>1. disk[q] \in {Absent, Dir} \cup Texts
      BY DEF OnDisk
    <2>2. CASE view[q] \in {"write", "read"}
      <3>1. d[q] = disk[q]
        BY <2>2
      <3>2. QED
        BY <2>1, <3>1, KindsAssumption DEF Things
    <2>3. CASE view[q] = "denied"
      BY <2>3 DEF Things
    <2>4. CASE view[q] = "scratch"
      BY <2>4 DEF Things
    <2>5. QED
      BY <2>2, <2>3, <2>4 DEF IsView
  <1>2. d \in [Paths -> Things]
    BY <1>1
  <1>3. Seen(disk, view) = [d |-> d, view |-> view, ok |-> TRUE]
    BY DEF Seen
  <1> HIDE DEF d
  <1>4. QED
    BY <1>1, <1>2, <1>3 DEF Sound, IsSeen

LEMMA LeftOn ==
  ASSUME OnDisk, NEW view, IsView(view), NEW r, Leads(Seen(disk, view), r)
  PROVE  Left(disk, view, r) \in [Paths -> {Absent, Dir} \cup Texts]
  <1>1. Sound(r) /\ r.view = view
    BY SeenSound DEF Leads
  <1>2. QED
    BY <1>1 DEF OnDisk, Left, Sound, Things

\* A line that is gone was at a path that may be written, and is nowhere on the tree.
LEMMA LineGone ==
  ASSUME OnDisk, NEW view, IsView(view), NEW r, Leads(Seen(disk, view), r),
         disk' = Left(disk, view, r), NEW p \in Paths, NEW x \in LinesOf(disk, p),
         \A q \in Paths : x \notin LinesOf(disk', q)
  PROVE  /\ view[p] = "write" /\ Has(Seen(disk, view), p, x) /\ disk' # disk
         /\ ~\E to \in Paths : view[to] = "write" /\ Has(r, to, x)
  <1>1. disk[p] \in Texts /\ x \in Range(disk[p])
    BY DEF LinesOf, OnDisk
  <1>2. disk'[p] # disk[p]
    <2>1. x \notin LinesOf(disk', p)
      OBVIOUS
    <2>2. disk'[p] = disk[p] => LinesOf(disk', p) = LinesOf(disk, p)
      BY DEF LinesOf
    <2>3. QED
      BY <2>1, <2>2
  <1>3. view[p] = "write"
    BY <1>2 DEF Left
  <1>4. ASSUME NEW to \in Paths, view[to] = "write", Has(r, to, x)
        PROVE  FALSE
    <2>1. disk'[to] = r.d[to]
      BY <1>4 DEF Left
    <2>2. x \in LinesOf(disk', to)
      BY <1>4, <2>1, KindsAssumption DEF Has, LinesOf
    <2>3. QED
      BY <2>2
  <1>5. QED
    BY <1>1, <1>2, <1>3, <1>4, SeenSound DEF Has

LEMMA ViewsAre ==
  /\ IsView(Everything)
  /\ \A d, profile : IsView(View(d, profile))
  BY DEF IsView, Everything, View

\* What is moved out of what a worker may write is moved out of one of its mounts,
\* or to where something is hidden.
LEMMA OutMoved ==
  ASSUME NEW d, NEW kind \in DOMAIN Profiles, NEW m \in Paths \X Paths,
         Out(View(d, Profiles[kind]), m)
  PROVE  MovedOut(kind, m)
  <1> DEFINE profile == Profiles[kind]
             tops == Mounted(d, profile, profile.write)
             a == m[1]
             b == m[2]
             view == View(d, profile)
  <1>1. a \in Paths /\ b \in Paths
    OBVIOUS
  <1>2. view[a] = "write" /\ view[b] \notin {"write", "read", "denied"}
    BY DEF Out
  <1> HIDE DEF a, b, profile
  <1>3. \E top \in tops : Within(a, top)
    BY <1>1, <1>2 DEF View
  <1>4. \/ \E h \in profile.hidden : Within(b, h)
        \/ \A top \in tops : ~Within(b, top)
    BY <1>1, <1>2 DEF View
  <1>5. tops \subseteq profile.write
    BY DEF Mounted
  <1> HIDE DEF tops
  <1>6. QED
    BY <1>3, <1>4, <1>5 DEF MovedOut, MatchesHidden, a, b, profile
-----------------------------------------------------------------------------
(* Lines outlive the calls that do not name them *)

\* A process sees what its profile mounted when it was started, a command and the
\* process itself all; its tool is one that writes what it has read, and what it is to
\* write are the lines it read but those it was told to replace.
Kept(p) ==
  LET form == calls[p.call].form IN
  \A x \in Range(p.old) : x \in Range(p.text) \/ (Named(form) = "edit_file" /\ x \in Range(form.olds))
Sees(p) ==
  /\ p.kind \in {"process", "command"} => p.view = Everything
  /\ p.kind \in DOMAIN Profiles => \E d : p.view = View(d, Profiles[p.kind])
  /\ p.at \in {"read", "open"} =>
       p.text \in Texts /\ Named(calls[p.call].form) \in Rewriting /\ Kept(p)
DiskInv == OnDisk /\ \A p \in procs : Sees(p)

\* A call as its tool sees it.
Plain(called) == [called EXCEPT !.tool = IF @ = "run_tool" THEN called.of ELSE @]
LEMMA PlainIs ==
  ASSUME IInv, NEW c \in DOMAIN calls
  PROVE  LET called == calls[c].form form == Plain(called) IN
         /\ form.tool = Named(called) /\ form.path = called.path
         /\ form.moves = called.moves /\ form.olds = called.olds
  <1> DEFINE called == calls[c].form
  <1>1. "tool" \in DOMAIN called
    BY BindingAssumption DEF IInv, Formed, CallsListed
  <1> HIDE DEF called
  <1> DEFINE t == IF called.tool = "run_tool" THEN called.of ELSE called.tool
  <1>2. Plain(called) = [called EXCEPT !.tool = t]
    BY DEF Plain
  <1>3. t = Named(called)
    BY DEF Named
  <1> HIDE DEF t
  <1>4. QED
    BY <1>1, <1>2, <1>3 DEF called

\* Why a line is gone.
Explained(from, c, p, x) ==
  LET form == Plain(calls[c].form) IN
  \/ TakenByEdit(form, p, x) \/ TakenByRewrite(form, c, p, x)
  \/ TakenByDelete(form, p) \/ TakenByMove(form, from, p)
Survive(from, c) ==
  \A p \in Paths : \A x \in LinesOf(disk, p) :
    (\A q \in Paths : x \notin LinesOf(disk', q)) =>
      Explained(from, c, p, x) \/ \E q \in procs' : Holds(q, x)'

\* The form of a call as its tool sees it.
LEMMA FormOf ==
  ASSUME IInv, NEW c \in DOMAIN calls
  PROVE  LET form == calls[c].form IN
         /\ c \in Nat /\ IsForm(form) /\ IsForm(Form(c)) /\ Form(c).path = form.path
         /\ Form(c).moves = form.moves /\ Form(c).olds = form.olds
         /\ Form(c).tool = Actual(Caller(c), form)
         /\ Form(c).tool # "run_tool" => Named(form) = Form(c).tool
  <1> DEFINE form == calls[c].form
             caller == Caller(c)
  <1>1. c \in Nat /\ form \in Forms
    BY DEF IInv, Formed, CallsListed
  <1>2. "tool" \in DOMAIN form /\ IsForm(form)
    BY <1>1, BindingAssumption DEF IsForm
  <1>3. Form(c) = [form EXCEPT !.tool = Actual(caller, form)]
    BY DEF Form
  <1> HIDE DEF form, caller
  <1>4. Form(c).tool = Actual(caller, form)
    BY <1>2, <1>3
  <1>5. /\ Form(c).path = form.path /\ Form(c).line = form.line
        /\ Form(c).moves = form.moves /\ Form(c).olds = form.olds
    BY <1>2, <1>3
  <1>6. Actual(caller, form) # "run_tool" => Named(form) = Actual(caller, form)
    BY DEF Actual, Proxied, Named
  <1>7. QED
    BY <1>1, <1>2, <1>4, <1>5, <1>6 DEF IsForm, form, caller

\* An operation under a view leaves a tree on which a line is gone only as it says.
LEMMA OperationKeeps ==
  ASSUME IInv, OnDisk, NEW c \in DOMAIN calls, NEW view, IsView(view), NEW from,
         \A m \in Paths \X Paths : Out(view, m) => MovedOut(from, m),
         disk' = Left(disk, view, Effect(c, Form(c), Seen(disk, view)))
  PROVE  OnDisk' /\ Survive(from, c)
  <1> DEFINE s == Seen(disk, view)
             r == Effect(c, Form(c), s)
             t == Form(c).tool
             form == Plain(calls[c].form)
             called == calls[c].form
  <1>1. /\ c \in Nat /\ IsForm(Form(c)) /\ Form(c).path = called.path
        /\ Form(c).moves = called.moves /\ Form(c).olds = called.olds /\ IsForm(called)
        /\ t # "run_tool" => Named(called) = t
    BY FormOf
  <1>0. /\ form.tool = Named(called) /\ form.path = called.path
        /\ form.moves = called.moves /\ form.olds = called.olds
    BY PlainIs
  <1>2. Sound(s) /\ s.view = view
    BY SeenSound
  <1>3. /\ Leads(s, r)
        /\ \A q \in Paths : \A x : Has(s, q, x) /\ s.view[q] = "write" =>
             \/ \E to \in Paths : s.view[to] = "write" /\ Has(r, to, x)
             \/ Names(t, Form(c), q, x)
             \/ t \in Moving /\ Lost(s.view, Form(c).moves, q)
    <2> DEFINE f == Form(c)
    <2> HIDE DEF f, s
    <2>1. IsForm(f)
      BY <1>1 DEF f
    <2>2. QED
      BY <1>1, <1>2, <2>1, EffectKeeps DEF f
  <1>4. OnDisk'
    BY <1>3, LeftOn DEF OnDisk
  <1>5. ASSUME NEW p \in Paths, NEW x \in LinesOf(disk, p), \A q \in Paths : x \notin LinesOf(disk', q)
        PROVE  Explained(from, c, p, x)
    <2>1. /\ view[p] = "write" /\ Has(s, p, x)
          /\ ~\E to \in Paths : view[to] = "write" /\ Has(r, to, x)
      BY <1>3, <1>5, LineGone
    <2>2. Names(t, Form(c), p, x) \/ (t \in Moving /\ Lost(view, called.moves, p))
      BY <1>1, <1>2, <1>3, <2>1
    <2> HIDE DEF t
    <2>3. CASE Names(t, Form(c), p, x)
      <3>1. form.tool = t
        BY <1>0, <1>1, <2>3 DEF Names
      <3> HIDE DEF form, called
      <3>2. TakenByEdit(form, p, x) \/ TakenByDelete(form, p)
        BY <1>0, <1>1, <2>3, <3>1 DEF Names, TakenByEdit, TakenByDelete
      <3>3. QED
        BY <3>2 DEF Explained, form, called
    <2>4. CASE t \in Moving /\ Lost(view, called.moves, p)
      <3>1. form.tool = t
        BY <1>0, <1>1, <2>4 DEF Moving
      <3>2. \A i \in DOMAIN called.moves : called.moves[i] \in Paths \X Paths
        BY <1>1 DEF IsForm
      <3>3. \A i \in DOMAIN called.moves : Out(view, called.moves[i]) => MovedOut(from, called.moves[i])
        BY <3>2
      <3> HIDE DEF form, called
      <3>4. TakenByMove(form, from, p)
        BY <1>0, <2>4, <3>1, <3>3 DEF Lost, Moving, TakenByMove
      <3>5. QED
        BY <3>4 DEF Explained, form, called
    <2>5. QED
      BY <2>2, <2>3, <2>4
  <1>6. QED
    BY <1>4, <1>5 DEF Survive

\* Nothing is moved out of everything.
LEMMA NothingOut ==
  ASSUME NEW m \in Paths \X Paths
  PROVE  ~Out(Everything, m)
  BY DEF Out, Everything

LEMMA SameDisk ==
  ASSUME OnDisk, UNCHANGED disk, NEW from, NEW c
  PROVE  OnDisk' /\ Survive(from, c)
  BY DEF OnDisk, Survive, LinesOf

\* A call that is answered in the process.
LEMMA HereKeeps ==
  ASSUME IInv, OnDisk, NEW c \in batch, InProcess(c)
  PROVE  OnDisk' /\ Survive(by'.from, c) /\ (disk' # disk => by'.call = c)
  <1>1. c \in DOMAIN calls
    BY DEF IInv, Formed, CallsListed
  <1>2. \/ /\ disk' = Left(disk, Everything, Effect(c, Form(c), Seen(disk, Everything)))
           /\ by' = IF disk' # disk THEN [call |-> c, from |-> "process"] ELSE by
        \/ UNCHANGED disk
    BY DEF InProcess
  <1>3. CASE UNCHANGED disk
    BY <1>3, SameDisk
  <1>4. CASE /\ disk' = Left(disk, Everything, Effect(c, Form(c), Seen(disk, Everything)))
             /\ by' = IF disk' # disk THEN [call |-> c, from |-> "process"] ELSE by
    <2>1. OnDisk' /\ Survive(by'.from, c)
      BY <1>1, <1>4, OperationKeeps, NothingOut, ViewsAre
    <2>2. QED
      BY <1>4, <2>1
  <1>5. QED
    BY <1>2, <1>3, <1>4

LEMMA ProcessSees ==
  ASSUME IInv, DiskInv, NEW p \in procs
  PROVE  /\ p.call \in DOMAIN calls /\ IsProcess(p) /\ IsView(p.view)
         /\ \A m \in Paths \X Paths : Out(p.view, m) => MovedOut(p.kind, m)
  <1>1. p.call \in DOMAIN calls /\ IsProcess(p) /\ RunsWhereSent(p) /\ Sees(p)
    BY DEF IInv, Formed, ProcsListed, DiskInv
  <1>2. CASE p.kind \in {"process", "command"}
    BY <1>1, <1>2, NothingOut, ViewsAre DEF Sees
  <1>3. CASE p.kind \in DOMAIN Profiles
    <2>1. PICK d : p.view = View(d, Profiles[p.kind])
      BY <1>1, <1>3 DEF Sees
    <2>2. \A m \in Paths \X Paths : Out(p.view, m) => MovedOut(p.kind, m)
      BY <1>3, <2>1, OutMoved
    <2>3. QED
      BY <1>1, <2>1, <2>2, ViewsAre
  <1>4. QED
    BY <1>1, <1>2, <1>3 DEF RunsWhereSent

\* A file that is opened or written is the one its call names, and loses what is not
\* in its text.
LEMMA TargetIs ==
  ASSUME IInv, NEW p \in procs
  PROVE  /\ Target(p) \in Paths /\ p.call \in DOMAIN calls
         /\ Target(p) = ResolvePath(Plain(calls[p.call].form).path)
  <1>1. p.call \in DOMAIN calls
    BY DEF IInv, Formed, ProcsListed
  <1>2. IsForm(calls[p.call].form) /\ Plain(calls[p.call].form).path = calls[p.call].form.path
    BY <1>1, FormOf, PlainIs
  <1>3. QED
    BY <1>1, <1>2, ResolvedPath DEF Target, IsForm

LEMMA TextPut ==
  ASSUME IInv, DiskInv, NEW p \in procs, NEW s, NEW S, NEW text \in Texts,
         s \in {Seen(disk, p.view), MakeDirs(Seen(disk, p.view), S)},
         disk' = Left(disk, p.view, Put(s, Target(p), text))
  PROVE  /\ OnDisk'
         /\ \A q \in Paths : \A x \in LinesOf(disk, q) :
              (\A to \in Paths : x \notin LinesOf(disk', to)) =>
                /\ q = Target(p) /\ p.view[q] = "write" /\ x \notin Range(text)
                /\ Put(s, Target(p), text).ok
  <1> DEFINE at == Target(p)
             seen == Seen(disk, p.view)
             r == Put(s, at, text)
  <1>1. IsView(p.view) /\ at \in Paths
    BY ProcessSees, TargetIs
  <1>2. Sound(seen) /\ OnDisk
    BY <1>1, SeenSound DEF DiskInv
  <1>3. Leads(seen, s) /\ \A q \in Paths : \A x : Has(seen, q, x) => Has(s, q, x)
    <2>1. CASE s = seen
      BY <1>2, <2>1 DEF Leads
    <2>2. CASE s = MakeDirs(seen, S)
      <3> HIDE DEF seen
      <3>1. QED
        BY <1>2, <2>2, DirsKept, MadeHas
    <2>3. QED
      BY <2>1, <2>2
  <1>4. Leads(s, r) /\ \A q \in Paths : r.d[q] = IF r.ok /\ q = at THEN text ELSE s.d[q]
    <2> HIDE DEF at
    <2>1. QED
      BY <1>1, <1>3, PutKeeps DEF Leads
  <1>5. Leads(seen, r)
    BY <1>3, <1>4 DEF Leads
  <1>6. OnDisk'
    BY <1>1, <1>2, <1>5, LeftOn DEF OnDisk
  <1>7. ASSUME NEW q \in Paths, NEW x \in LinesOf(disk, q), \A to \in Paths : x \notin LinesOf(disk', to)
        PROVE  q = at /\ p.view[q] = "write" /\ x \notin Range(text) /\ r.ok
    <2>1. p.view[q] = "write" /\ Has(seen, q, x) /\ ~Has(r, q, x)
      <3> HIDE DEF r
      <3>1. /\ p.view[q] = "write" /\ Has(seen, q, x)
            /\ ~\E to \in Paths : p.view[to] = "write" /\ Has(r, to, x)
        BY <1>1, <1>2, <1>5, <1>7, LineGone DEF r
      <3>2. QED
        BY <3>1
    <2>2. Has(s, q, x)
      BY <1>3, <2>1
    <2>3. q = at /\ r.ok
      BY <1>4, <2>1, <2>2 DEF Has
    <2>4. r.d[q] = text
      BY <1>4, <2>3
    <2>5. QED
      BY <2>1, <2>3, <2>4 DEF Has
  <1>8. QED
    BY <1>6, <1>7

\* A line that is not in the text a process is to write was replaced, or came later.
LEMMA NotWritten ==
  ASSUME IInv, DiskInv, NEW p \in procs, p.at \in {"read", "open"}, NEW x, x \notin Range(p.text),
         NEW from
  PROVE  Explained(from, p.call, Target(p), x)
  <1> DEFINE called == calls[p.call].form
             form == Plain(called)
  <1>1. /\ p.call \in DOMAIN calls /\ Target(p) = ResolvePath(form.path)
        /\ form.tool = Named(called) /\ form.olds = called.olds
    BY TargetIs, PlainIs
  <1>2. Named(called) \in Rewriting /\ Kept(p)
    BY DEF DiskInv, Sees
  <1>3. CASE x \in Range(p.old)
    <2>1. TakenByEdit(form, Target(p), x)
      BY <1>1, <1>2, <1>3 DEF Kept, TakenByEdit
    <2>2. QED
      BY <2>1 DEF Explained
  <1>4. CASE x \notin Range(p.old)
    <2>1. TakenByRewrite(form, p.call, Target(p), x)
      BY <1>1, <1>2, <1>4 DEF TakenByRewrite
    <2>2. QED
      BY <2>1 DEF Explained
  <1>5. QED
    BY <1>3, <1>4

\* No step changes the agent or what a call was issued with.
SameForms == UNCHANGED agent /\ SameCalls

LEMMA StartForms ==
  ASSUME IInv, NEW c \in batch, NEW p, Started(c, p), UNCHANGED batch
  PROVE  SameCalls
  <1> DEFINE r == [calls[c] EXCEPT !.at = "waiting"]
  <1>1. c \in DOMAIN calls /\ IsCall(calls[c]) /\ calls' = [calls EXCEPT ![c] = r]
    BY DEF IInv, Formed, CallsListed, Started
  <1>2. IsCall(r) /\ r.form = calls[c].form /\ r.of = calls[c].of
    BY <1>1, Moved
  <1> HIDE DEF r
  <1>3. QED
    BY <1>1, <1>2, OneCall DEF IInv, Formed

LEMMA TextForms ==
  ASSUME IInv, NEW c \in DOMAIN calls, NEW ok, AnswerText(c, ok), UNCHANGED batch
  PROVE  SameCalls
  <1>1. PICK update : Right(update.files) /\ Answer(c, ok, update)
    BY TextAnswers
  <1>2. QED
    BY <1>1, AnswerMakes DEF IInv, Formed

LEMMA NextForms ==
  ASSUME IInv, Outputs, [Next]_vars
  PROVE  SameForms
  <1>1. batch \subseteq DOMAIN calls /\ \A p \in procs : p.call \in DOMAIN calls
    BY DEF IInv, Formed, CallsListed, ProcsListed
  <1>2. ASSUME NEW run, Message(run) \/ StepEnds(run) \/ TaskEnds(run)
        PROVE  SameForms
    BY <1>2, MessageIInv, StepEndsIInv, TaskIInv DEF Message, StepEnds, TaskEnds, SameForms
  <1>3. CASE UNCHANGED <<agent, calls>>
    BY <1>3 DEF SameForms, SameCalls
  <1>4. ASSUME NEW c \in batch, Starts(c)
        PROVE  SameForms
    <2>1. CASE Blocked(c)
      <3>1. Answer(c, FALSE, NoUpdate) /\ UNCHANGED <<agent, batch>> /\ c \in DOMAIN calls
        BY <1>1, <2>1 DEF Blocked
      <3>2. QED
        BY <3>1, NothingSaid, AnswerMakes DEF SameForms, IInv, Formed
    <2>2. CASE InProcess(c)
      <3>1. UNCHANGED <<agent, batch>> /\ c \in DOMAIN calls
        BY <1>1, <2>2 DEF InProcess
      <3>2. PICK ok, update : Right(update.files) /\ Answer(c, ok, update)
        BY <2>2, InProcessAnswers, Zenon
      <3>3. QED
        BY <3>1, <3>2, AnswerMakes DEF SameForms, IInv, Formed
    <2>3. CASE Rewrite(c) \/ RunProgram(c) \/ StartWorker(c)
      <3>1. UNCHANGED <<agent, batch>> /\ \E p : Started(c, p)
        BY <2>3 DEF Rewrite, RunProgram, StartWorker
      <3>2. QED
        BY <3>1, StartForms DEF SameForms
    <2>4. CASE Delegate(c)
      BY <2>4, DelegateIInv DEF Delegate, SameForms
    <2>5. QED
      BY <1>4, <2>1, <2>2, <2>3, <2>4 DEF Starts
  <1>5. ASSUME NEW p \in procs, ProcessStep(p) \/ Exit(p) \/ Timeout(p)
        PROVE  SameForms
    <2>1. CASE UNCHANGED agent /\ UNCHANGED batch /\ \E ok : AnswerText(p.call, ok)
      BY <1>1, <2>1, TextForms DEF SameForms
    <2>2. QED
      BY <1>3, <1>5, <2>1 DEF ProcessStep, Exit, Timeout, Kill
  <1>6. ASSUME NEW c \in batch, AttemptTimesOut(c)
        PROVE  SameForms
    <2>1. CASE UNCHANGED calls
      BY <1>3, <1>6, <2>1 DEF AttemptTimesOut
    <2>2. CASE /\ calls' = [calls EXCEPT ![c] = [@ EXCEPT !.at = "issued", !.tries = calls[c].tries + 1]]
               /\ batch' \subseteq batch
      <3>1. SameCalls
        BY <1>1, <2>2, RetryMakes DEF IInv, Formed
      <3>2. QED
        BY <1>6, <3>1 DEF AttemptTimesOut, SameForms
    <2>3. QED
      BY <1>6, <2>1, <2>2 DEF AttemptTimesOut, GiveUp
  <1>7. Cancel \/ UNCHANGED vars => UNCHANGED <<agent, calls>>
    BY DEF Cancel, GiveUp, vars
  <1>8. QED
    BY <1>2, <1>3, <1>4, <1>5, <1>6, <1>7 DEF Next

\* A process that is where it was is still to write the same.
LEMMA SeesOn ==
  ASSUME DiskInv, SameForms, NEW p \in procs, p.call \in DOMAIN calls, NEW q, SameProcess(p, q),
         q.at \in {"read", "open"} =>
           p.at \in {"read", "open"} /\ q.text = p.text /\ q.old = p.old
  PROVE  Sees(q)'
  <1>1. Sees(p) /\ calls'[p.call].form = calls[p.call].form
    BY DEF DiskInv, SameForms, SameCalls
  <1>2. q.call = p.call /\ q.kind = p.kind /\ q.view = p.view
    BY DEF SameProcess
  <1>3. q.at \in {"read", "open"} => Kept(q)'
    BY <1>1, <1>2 DEF Sees, Kept
  <1>4. QED
    BY <1>1, <1>2, <1>3 DEF Sees

LEMMA HoldsOn ==
  ASSUME SameForms, NEW p \in procs, p.call \in DOMAIN calls, NEW q, SameProcess(p, q),
         q.at = p.at, q.text = p.text, NEW x, Holds(p, x)
  PROVE  Holds(q, x)'
  BY DEF SameForms, SameCalls, SameProcess, Holds, Target

\* Where a process is after a step.
EndedAs(p, at, ok) == [p EXCEPT !.at = at, !.ok = ok]

LEMMA EndThen ==
  ASSUME NEW p, IsProcess(p), NEW at, NEW ok
  PROVE  LET q == EndedAs(p, at, ok)
         IN SameProcess(p, q) /\ q.at = at /\ q.text = p.text /\ q.old = p.old
  <1> DEFINE m == [p EXCEPT !.at = at]
             rec(o) == [call |-> p.call, kind |-> p.kind, at |-> at, view |-> p.view, old |-> p.old,
                        text |-> p.text, ok |-> o, orphan |-> p.orphan, try |-> p.try]
  <1>1. EndedAs(p, at, ok) = [m EXCEPT !.ok = ok]
    BY DEF IsProcess, EndedAs
  <1>2. m = rec(p.ok)
    BY DEF IsProcess
  <1> HIDE DEF m
  <1>3. [m EXCEPT !.ok = ok] = rec(ok)
    BY <1>2
  <1>4. QED
    BY <1>1, <1>3 DEF SameProcess, IsProcess

LEMMA WriteThen ==
  ASSUME NEW p, IsProcess(p), NEW at
  PROVE  LET q == [p EXCEPT !.at = at] IN SameProcess(p, q) /\ q.at = at
  <1>1. [p EXCEPT !.at = at] =
          [call |-> p.call, kind |-> p.kind, at |-> at, view |-> p.view, old |-> p.old,
           text |-> p.text, ok |-> p.ok, orphan |-> p.orphan, try |-> p.try]
    BY DEF IsProcess
  <1>2. QED
    BY <1>1 DEF SameProcess, IsProcess

LEMMA StepKeeps ==
  ASSUME IInv, DiskInv, SameForms, NEW p \in procs, ProcessStep(p)
  PROVE  /\ DiskInv' /\ Survive(by'.from, p.call)
         /\ disk' # disk => by'.call = p.call
  <1> DEFINE form == calls[p.call].form
             seen == Seen(disk, p.view)
             Fine(q) == /\ OnDisk' /\ Survive(by'.from, p.call) /\ (disk' # disk => by'.call = p.call)
                        /\ Sees(q)' /\ Becomes(p, q)
             Goes == \E q : Fine(q)
  <1>1. /\ p.call \in DOMAIN calls /\ IsProcess(p) /\ IsView(p.view) /\ OnDisk
        /\ \A m \in Paths \X Paths : Out(p.view, m) => MovedOut(p.kind, m)
    BY ProcessSees DEF DiskInv
  <1>2. ASSUME NEW tree, Changes(p, tree), disk' = tree => OnDisk' /\ Survive(p.kind, p.call)
        PROVE  /\ OnDisk' /\ Survive(by'.from, p.call)
               /\ disk' # disk => by'.call = p.call
    <2>1. CASE disk' = disk
      BY <1>1, <2>1, SameDisk
    <2>2. CASE disk' # disk
      <3>1. by' = [call |-> p.call, from |-> p.kind] /\ disk' = tree
        BY <1>2, <2>2 DEF Changes
      <3>2. by'.call = p.call /\ by'.from = p.kind
        BY <3>1
      <3>3. QED
        BY <1>2, <3>1, <3>2
    <2>3. QED
      BY <2>1, <2>2
  <1>3. ASSUME Read(p)
        PROVE  Goes
    <2> DEFINE s == Effect(p.call, Form(p.call), seen)
    <2>1. IF Form(p.call).tool \in Rewriting /\ s.ok
          THEN /\ UNCHANGED <<disk, by>>
               /\ Becomes(p, ReadAs(p, "read", s.d[Target(p)], TextAt(seen, Target(p))))
          ELSE Changes(p, Left(disk, p.view, s)) /\ Becomes(p, [p EXCEPT !.at = "over", !.ok = s.ok])
      BY <1>3 DEF Read, ReadAs
    <2>2. CASE Form(p.call).tool \in Rewriting /\ s.ok
      <3> DEFINE text == s.d[Target(p)]
                 old == TextAt(seen, Target(p))
      <3>1. /\ text \in Texts /\ Named(form) \in Rewriting
            /\ \A x \in Range(old) :
                 x \in Range(text) \/ (Named(form) = "edit_file" /\ x \in Range(form.olds))
        <4> DEFINE f == Form(p.call)
                   at == Target(p)
        <4>1. /\ p.call \in Nat /\ IsForm(f) /\ f.path = form.path /\ f.olds = form.olds
              /\ f.tool # "run_tool" => Named(form) = f.tool
          BY <1>1, FormOf
        <4>2. Sound(seen)
          BY <1>1, SeenSound
        <4>3. at = ResolvePath(f.path) /\ at \in Paths
          BY <4>1, TargetIs DEF Target
        <4>4. Named(form) = f.tool
          BY <2>2, <4>1 DEF Rewriting
        <4> HIDE DEF f, seen, at
        <4>5. /\ s.d[at] \in Texts
              /\ \A x : Has(seen, at, x) => Has(s, at, x) \/ Names(f.tool, f, at, x)
          <5> DEFINE e == Effect(p.call, f, seen)
          <5>1. e = s
            BY DEF f
          <5>2. /\ f.tool \in Rewriting /\ e.ok => e.d[ResolvePath(f.path)] \in Texts
                /\ f.tool \in Rewriting => \A q \in Paths : \A x :
                     Has(seen, q, x) => Has(e, q, x) \/ Names(f.tool, f, q, x)
            <6> HIDE DEF form
            <6>1. QED
              BY <4>1, <4>2, EffectKeeps
          <5> HIDE DEF e, s
          <5>3. f.tool \in Rewriting /\ s.ok
            BY <2>2 DEF f
          <5>4. QED
            BY <4>3, <5>1, <5>2, <5>3
        <4>6. \A x \in Range(TextAt(seen, at)) : Has(seen, at, x)
          <5>1. CASE IsText(seen, at)
            BY <4>2, <4>3, <5>1, TextIs DEF TextAt, Has
          <5>2. CASE ~IsText(seen, at)
            <6>1. Range(TextAt(seen, at)) = {}
              BY <5>2 DEF TextAt, Range
            <6>2. QED
              BY <6>1
          <5>3. QED
            BY <5>1, <5>2
        <4>7. ASSUME NEW x \in Range(TextAt(seen, at))
              PROVE  x \in Range(s.d[at]) \/ (Named(form) = "edit_file" /\ x \in Range(form.olds))
          <5>1. Has(s, at, x) \/ Names(f.tool, f, at, x)
            BY <4>5, <4>6, <4>7
          <5>2. f.tool \notin {"delete_file", "delete_dir"}
            BY <2>2 DEF Rewriting, f
          <5>3. QED
            BY <4>1, <4>4, <5>1, <5>2 DEF Has, Names
        <4>8. Named(form) \in Rewriting
          BY <2>2, <4>4 DEF f
        <4>9. QED
          BY <4>5, <4>7, <4>8 DEF at
      <3>2. PICK v, o, q : v = text /\ o = old /\ q = ReadAs(p, "read", v, o)
        OBVIOUS
      <3>3. UNCHANGED <<disk, by>> /\ Becomes(p, q)
        BY <2>1, <2>2, <3>2
      <3>4. /\ v \in Texts /\ Named(form) \in Rewriting
            /\ \A x \in Range(o) :
                 x \in Range(v) \/ (Named(form) = "edit_file" /\ x \in Range(form.olds))
        BY <3>1, <3>2
      <3> HIDE DEF text, old
      <3>5. SameProcess(p, q) /\ q.at = "read" /\ q.text = v /\ q.old = o
        BY <1>1, <3>2, Reads
      <3>6. calls'[q.call].form = form /\ Sees(p)
        BY <1>1, <3>5 DEF SameForms, SameCalls, SameProcess, DiskInv
      <3>7. Kept(q)'
        BY <3>4, <3>5, <3>6 DEF Kept
      <3>8. Sees(q)'
        BY <3>4, <3>5, <3>6, <3>7 DEF Sees, SameProcess
      <3>9. Fine(q)
        BY <1>1, <3>3, <3>8, SameDisk
      <3>10. QED
        BY <3>9
    <2>3. CASE ~(Form(p.call).tool \in Rewriting /\ s.ok)
      <3> DEFINE tree == Left(disk, p.view, s)
      <3>0. PICK v, q : v = s.ok /\ q = [p EXCEPT !.at = "over", !.ok = v]
        OBVIOUS
      <3>1. Changes(p, tree) /\ Becomes(p, q)
        BY <2>1, <2>3, <3>0
      <3>2. disk' = tree => OnDisk' /\ Survive(p.kind, p.call)
        BY <1>1, OperationKeeps
      <3>3. SameProcess(p, q) /\ q.at = "over"
        <4>1. q = EndedAs(p, "over", v)
          BY <3>0 DEF EndedAs
        <4>2. QED
          BY <1>1, <4>1, EndThen
      <3> HIDE DEF tree
      <3>4. Sees(q)'
        BY <1>1, <3>3, SeesOn
      <3>5. Fine(q)
        BY <1>2, <3>1, <3>2, <3>4
      <3>6. QED
        BY <3>5
    <2>4. QED
      BY <2>2, <2>3
  <1>4. ASSUME Open(p)
        PROVE  Goes
    <2> DEFINE made == MakeDirs(seen, Up[Target(p)])
               s == Put(made, Target(p), <<>>)
               at == IF s.ok THEN "open" ELSE "over"
               tree == Left(disk, p.view, s)
    <2>0. PICK a, v, q : a = at /\ v = s.ok /\ q = [p EXCEPT !.at = a, !.ok = v]
      OBVIOUS
    <2>1. Changes(p, tree) /\ Becomes(p, q) /\ p.at = "read"
      BY <1>4, <2>0 DEF Open
    <2>2. SameProcess(p, q) /\ q.at = a /\ q.text = p.text /\ q.old = p.old
      <3>1. q = EndedAs(p, a, v)
        BY <2>0 DEF EndedAs
      <3>2. QED
        BY <1>1, <3>1, EndThen
    <2>3. s.ok => q.at = "open"
      BY <2>0, <2>2
    <2>4. disk' = tree => OnDisk' /\ Survive(p.kind, p.call)
      <3> SUFFICES ASSUME disk' = tree
                   PROVE  OnDisk' /\ Survive(p.kind, p.call)
        OBVIOUS
      <3>1. <<>> \in Texts
        BY DEF Texts
      <3>2. /\ OnDisk'
            /\ \A r \in Paths : \A x \in LinesOf(disk, r) :
                 (\A to \in Paths : x \notin LinesOf(disk', to)) =>
                   r = Target(p) /\ p.view[r] = "write" /\ s.ok
        BY <3>1, TextPut
      <3> HIDE DEF tree, s
      <3>3. ASSUME NEW r \in Paths, NEW x \in LinesOf(disk, r),
                   \A to \in Paths : x \notin LinesOf(disk', to)
            PROVE  Explained(p.kind, p.call, r, x) \/ \E y \in procs' : Holds(y, x)'
        <4>1. r = Target(p) /\ p.view[r] = "write" /\ s.ok
          BY <3>2, <3>3
        <4>2. CASE x \notin Range(p.text)
          BY <2>1, <4>1, <4>2, NotWritten
        <4>3. CASE x \in Range(p.text)
          <5>1. q.at = "open" /\ q.text = p.text /\ q.view = p.view /\ q.call = p.call
            BY <2>2, <2>3, <4>1 DEF SameProcess
          <5>2. Target(q)' = Target(p)
            BY <1>1, <5>1 DEF Target, SameForms, SameCalls
          <5>3. Holds(q, x)'
            BY <4>1, <4>3, <5>1, <5>2 DEF Holds
          <5>4. q \in procs'
            BY <2>1 DEF Becomes
          <5>5. QED
            BY <5>3, <5>4
        <4>4. QED
          BY <4>2, <4>3
      <3>4. QED
        BY <3>2, <3>3 DEF Survive
    <2> HIDE DEF tree
    <2>5. Sees(q)'
      BY <1>1, <2>1, <2>2, SeesOn
    <2>6. Fine(q)
      BY <1>2, <2>1, <2>4, <2>5
    <2>7. QED
      BY <2>6
  <1>5. ASSUME Write(p)
        PROVE  Goes
    <2> DEFINE s == Put(seen, Target(p), p.text)
               tree == Left(disk, p.view, s)
    <2>0. PICK q : q = [p EXCEPT !.at = "over"]
      OBVIOUS
    <2>1. Changes(p, tree) /\ Becomes(p, q) /\ p.at = "open"
      BY <1>5, <2>0 DEF Write
    <2>2. disk' = tree => OnDisk' /\ Survive(p.kind, p.call)
      <3> SUFFICES ASSUME disk' = tree
                   PROVE  OnDisk' /\ Survive(p.kind, p.call)
        OBVIOUS
      <3>1. p.text \in Texts
        BY <2>1 DEF DiskInv, Sees
      <3>2. /\ OnDisk'
            /\ \A r \in Paths : \A x \in LinesOf(disk, r) :
                 (\A to \in Paths : x \notin LinesOf(disk', to)) =>
                   r = Target(p) /\ x \notin Range(p.text)
        BY <3>1, TextPut
      <3>3. QED
        BY <2>1, <3>2, NotWritten DEF Survive
    <2>3. SameProcess(p, q) /\ q.at = "over"
      BY <1>1, <2>0, WriteThen
    <2> HIDE DEF tree
    <2>4. Sees(q)'
      BY <1>1, <2>3, SeesOn
    <2>5. Fine(q)
      BY <1>2, <2>1, <2>2, <2>4
    <2>6. QED
      BY <2>5
  <1> HIDE DEF form
  <1>6. PICK q : Fine(q)
    BY <1>3, <1>4, <1>5 DEF ProcessStep
  <1>7. ASSUME NEW x \in procs', x # q
        PROVE  Sees(x)'
    <2>1. x \in procs
      BY <1>6, <1>7 DEF Becomes
    <2>2. x.call \in DOMAIN calls /\ SameProcess(x, x)
      BY <2>1, ProcessSees, SameProcs DEF IInv, Formed
    <2>3. QED
      BY <2>1, <2>2, SeesOn
  <1>8. QED
    BY <1>6, <1>7 DEF DiskInv

\* A process that is started has read nothing yet; one that is given up goes on.
LEMMA StartSees ==
  ASSUME IInv, NEW c \in batch, NEW p, Rewrite(c) \/ RunProgram(c) \/ StartWorker(c),
         p \in procs' \ procs
  PROVE  Sees(p)'
  <1>1. PICK kind, view : /\ p = Process(c, kind, view)
                          /\ \/ kind \in {"process", "command"} /\ view = Everything
                             \/ kind \in DOMAIN Profiles /\ view = View(disk, Profiles[kind])
    BY DEF Rewrite, RunProgram, StartWorker, Started
  <1>2. p.at = "started" /\ p.kind = kind /\ p.view = view
    BY <1>1 DEF Process
  <1>3. {"process", "command"} \cap DOMAIN Profiles = {}
    BY BindingAssumption
  <1>4. QED
    BY <1>1, <1>2, <1>3 DEF Sees

LEMMA OrphanOn ==
  ASSUME IInv, DiskInv, NEW S, NEW p \in procs,
         NEW q, q = IF p \in S THEN [p EXCEPT !.orphan = TRUE] ELSE p
  PROVE  SameProcess(p, q) /\ q.at = p.at /\ q.text = p.text /\ q.old = p.old /\ p.call \in DOMAIN calls
  <1>1. p.call \in DOMAIN calls /\ IsProcess(p)
    BY ProcessSees
  <1>2. PICK b : b = TRUE /\ (q = p \/ q = [p EXCEPT !.orphan = b])
    OBVIOUS
  <1>3. q = p \/ q = [call |-> p.call, kind |-> p.kind, at |-> p.at, view |-> p.view, old |-> p.old,
                      text |-> p.text, ok |-> p.ok, orphan |-> b, try |-> p.try]
    BY <1>1, <1>2 DEF IsProcess
  <1>4. QED
    BY <1>1, <1>3 DEF SameProcess, IsProcess

LEMMA OrphanSees ==
  ASSUME IInv, DiskInv, SameForms, NEW S, Orphaned(S), NEW q \in procs'
  PROVE  Sees(q)'
  <1>1. PICK p \in procs : q = IF p \in S THEN [p EXCEPT !.orphan = TRUE] ELSE p
    BY DEF Orphaned
  <1>2. QED
    BY <1>1, OrphanOn, SeesOn

LEMMA NextDisk ==
  ASSUME IInv, Outputs, DiskInv, [Next]_vars
  PROVE  DiskInv' /\ (disk' # disk => Survive(by'.from, by'.call))
  <1>1. SameForms /\ OnDisk /\ batch \subseteq DOMAIN calls
    BY NextForms DEF DiskInv, IInv, Formed, CallsListed
  <1>2. ASSUME NEW q \in procs' \cap procs
        PROVE  Sees(q)'
    <2>1. q.call \in DOMAIN calls /\ SameProcess(q, q)
      BY ProcessSees, SameProcs DEF IInv, Formed
    <2>2. QED
      BY <1>1, <2>1, SeesOn
  <1>3. CASE disk' = disk /\ procs' \subseteq procs
    BY <1>1, <1>2, <1>3 DEF DiskInv, OnDisk
  <1>4. CASE disk' = disk /\ \E S : Orphaned(S)
    BY <1>1, <1>4, OrphanSees DEF DiskInv, OnDisk
  <1>5. ASSUME NEW c \in batch, Rewrite(c) \/ RunProgram(c) \/ StartWorker(c)
        PROVE  DiskInv' /\ disk' = disk
    <2>1. disk' = disk
      BY <1>5 DEF Rewrite, RunProgram, StartWorker
    <2>2. \A q \in procs' \ procs : Sees(q)'
      BY <1>5, StartSees
    <2>3. QED
      BY <1>1, <1>2, <2>1, <2>2 DEF DiskInv, OnDisk
  <1>6. ASSUME NEW c \in batch, InProcess(c)
        PROVE  DiskInv' /\ (disk' # disk => Survive(by'.from, by'.call))
    <2>1. /\ OnDisk' /\ Survive(by'.from, c)
          /\ disk' # disk => by'.call = c
      BY <1>1, <1>6, HereKeeps
    <2>2. procs' = procs
      BY <1>6 DEF InProcess
    <2>3. QED
      BY <1>2, <2>1, <2>2 DEF DiskInv
  <1>7. ASSUME NEW p \in procs, ProcessStep(p)
        PROVE  DiskInv' /\ (disk' # disk => Survive(by'.from, by'.call))
    BY <1>1, <1>7, StepKeeps
  <1>8. ASSUME NEW p \in procs, Exit(p) \/ Timeout(p)
        PROVE  disk' = disk /\ procs' \subseteq procs
    BY <1>8 DEF Exit, Timeout, Kill
  <1>9. ASSUME NEW c \in batch, Blocked(c) \/ Delegate(c)
        PROVE  disk' = disk /\ procs' \subseteq procs
    BY <1>9 DEF Blocked, Delegate
  <1>10. ASSUME NEW c \in batch, AttemptTimesOut(c)
         PROVE  disk' = disk /\ \E S : Orphaned(S)
    BY <1>10 DEF AttemptTimesOut, GiveUp
  <1>11. Cancel => disk' = disk /\ \E S : Orphaned(S)
    BY DEF Cancel, GiveUp
  <1>12. ASSUME NEW run, Message(run) \/ StepEnds(run) \/ TaskEnds(run)
         PROVE  disk' = disk /\ procs' \subseteq procs
    BY <1>12 DEF Message, StepEnds, TaskEnds
  <1>13. UNCHANGED vars => disk' = disk /\ procs' \subseteq procs
    BY DEF vars
  <1>14. ASSUME NEW c \in batch, Starts(c) \/ AttemptTimesOut(c)
         PROVE  DiskInv' /\ (disk' # disk => Survive(by'.from, by'.call))
    BY <1>3, <1>4, <1>5, <1>6, <1>9, <1>10, <1>14 DEF Starts
  <1>15. ASSUME NEW p \in procs, ProcessStep(p) \/ Exit(p) \/ Timeout(p)
         PROVE  DiskInv' /\ (disk' # disk => Survive(by'.from, by'.call))
    BY <1>3, <1>7, <1>8, <1>15
  <1>16. QED
    BY <1>3, <1>4, <1>11, <1>12, <1>13, <1>14, <1>15 DEF Next

\* What a process holds in its hands is written, or the process was a worker that is
\* killed, whose call is told so.
Killed(p) ==
  p.kind \in DOMAIN Profiles /\ calls'[p.call].at = "done" /\ ~calls'[p.call].ok

LEMMA WriteLeaves ==
  ASSUME IInv, DiskInv, NEW p \in procs, NEW x, Holds(p, x), Write(p)
  PROVE  \E q \in Paths : x \in LinesOf(disk', q)
  <1> DEFINE at == Target(p)
             seen == Seen(disk, p.view)
             r == Put(seen, at, p.text)
  <1>1. p.view[at] = "write" /\ x \in Range(p.text) /\ p.text \in Texts /\ at \in Paths
    BY TargetIs DEF Holds, DiskInv, Sees
  <1>2. disk' = Left(disk, p.view, r)
    BY DEF Write, Changes
  <1>3. Sound(seen) /\ seen.view = p.view /\ seen.ok = TRUE
    BY ProcessSees, SeenSound DEF DiskInv, Seen
  <1>4. r.d[at] = p.text
    <2> HIDE DEF seen
    <2>1. r = [seen EXCEPT !.d[at] = p.text]
      BY <1>1, <1>3 DEF Put
    <2>2. seen.d \in [Paths -> Things] /\ IsSeen(seen)
      BY <1>3 DEF Sound
    <2>3. r.d = [seen.d EXCEPT ![at] = p.text]
      BY <2>1, <2>2 DEF IsSeen
    <2> HIDE DEF r
    <2>4. QED
      BY <1>1, <2>2, <2>3
  <1>5. disk'[at] = p.text
    BY <1>1, <1>2, <1>4 DEF Left
  <1>6. x \in LinesOf(disk', at)
    BY <1>1, <1>5, KindsAssumption DEF LinesOf
  <1>7. QED
    BY <1>1, <1>6

LEMMA KillTells ==
  ASSUME IInv, NEW p \in procs, Timeout(p)
  PROVE  Killed(p)
  <1>1. p.call \in DOMAIN calls /\ UNCHANGED batch /\ p.kind \in DOMAIN Profiles
    BY DEF IInv, Formed, ProcsListed, Timeout
  <1>2. AnswerText(p.call, FALSE)
    BY DEF Timeout, Kill
  <1>3. PICK update : Right(update.files) /\ Answer(p.call, FALSE, update)
    BY <1>2, TextAnswers
  <1>4. calls'[p.call].at = "done" /\ calls'[p.call].ok = FALSE
    BY <1>1, <1>3, AnswerMakes DEF IInv, Formed
  <1>5. QED
    BY <1>1, <1>4 DEF Killed

LEMMA NextHolds ==
  ASSUME IInv, Outputs, DiskInv, [Next]_vars, NEW p \in procs, NEW x, Holds(p, x)
  PROVE  \/ \E q \in procs' : Holds(q, x)'
         \/ \E q \in Paths : x \in LinesOf(disk', q)
         \/ Killed(p)
  <1>1. SameForms /\ p.call \in DOMAIN calls /\ SameProcess(p, p)
    BY NextForms, ProcessSees, SameProcs DEF IInv, Formed
  <1>2. CASE p \in procs'
    <2>1. Holds(p, x)'
      BY <1>1, HoldsOn
    <2>2. QED
      BY <1>2, <2>1
  <1>3. CASE \E S : Orphaned(S)
    <2>1. PICK S : Orphaned(S)
      BY <1>3
    <2>2. PICK q : q = IF p \in S THEN [p EXCEPT !.orphan = TRUE] ELSE p
      OBVIOUS
    <2>3. q \in procs'
      BY <2>1, <2>2 DEF Orphaned
    <2>4. SameProcess(p, q) /\ q.at = p.at /\ q.text = p.text
      BY <2>2, OrphanOn
    <2>5. Holds(q, x)'
      BY <1>1, <2>4, HoldsOn
    <2>6. QED
      BY <2>3, <2>5
  <1>4. ASSUME NEW y \in procs, ProcessStep(y) \/ Exit(y) \/ Timeout(y), p \notin procs'
        PROVE  Killed(p) \/ \E q \in Paths : x \in LinesOf(disk', q)
    <2>1. CASE ProcessStep(y)
      <3>1. y = p
        <4>1. \E q : Becomes(y, q)
          BY <2>1 DEF ProcessStep, Read, Open, Write
        <4>2. QED
          BY <1>4, <4>1 DEF Becomes
      <3>2. Write(p)
        BY <2>1, <3>1 DEF ProcessStep, Read, Open, Holds
      <3>3. QED
        BY <3>2, WriteLeaves
    <2>2. CASE Exit(y)
      <3>1. y = p /\ p.at = "over"
        BY <1>4, <2>2 DEF Exit
      <3>2. QED
        BY <3>1 DEF Holds
    <2>3. CASE Timeout(y)
      <3>1. y = p
        BY <1>4, <2>3 DEF Timeout, Kill
      <3>2. QED
        BY <2>3, <3>1, KillTells
    <2>4. QED
      BY <1>4, <2>1, <2>2, <2>3
  <1>5. ASSUME NEW c \in batch, Starts(c)
        PROVE  p \in procs'
    BY <1>5 DEF Starts, Blocked, InProcess, Delegate, Rewrite, RunProgram, StartWorker, Started
  <1>6. ASSUME NEW c \in batch, AttemptTimesOut(c)
        PROVE  \E S : Orphaned(S)
    BY <1>6 DEF AttemptTimesOut, GiveUp
  <1>7. ASSUME NEW run, Message(run) \/ StepEnds(run) \/ TaskEnds(run)
        PROVE  p \in procs'
    BY <1>7 DEF Message, StepEnds, TaskEnds
  <1>8. (Cancel => \E S : Orphaned(S)) /\ (UNCHANGED vars => p \in procs')
    BY DEF Cancel, GiveUp, vars
  <1>9. QED
    BY <1>2, <1>3, <1>4, <1>5, <1>6, <1>7, <1>8 DEF Next

\* A line is neither on disk nor in the hands of what is to write it only when a call
\* names it, or the path it is at, or moves a file over it, two files to one place or a
\* file out of what its sandbox may write; when it came to a file that was read
\* before and is written after; or when a worker is killed while it writes, and its call
\* told so: whatever tools, subagents, commands and workers run side by side.
THEOREM EditsOutlive == Spec => EditsSurvive
  <1>1. Init => IInv /\ Outputs /\ DiskInv
    BY InitIInv, TreesAssumption DEF Init, DiskInv, OnDisk
  <1>2. IInv /\ Outputs /\ DiskInv /\ [Next]_vars => IInv' /\ Outputs' /\ DiskInv'
    BY NextIInv, NextOutputs, NextDisk
  <1>3. IInv /\ Outputs /\ DiskInv /\ [Next]_vars =>
          [\A x \in Lines \cup DOMAIN calls : Somewhere(x) /\ ~Somewhere(x)' =>
             LET called == calls'[by'.call].form
                 form == [called EXCEPT !.tool = IF @ = "run_tool" THEN called.of ELSE @]
             IN /\ \A p \in Paths : x \in LinesOf(disk, p) =>
                     \/ TakenByEdit(form, p, x) \/ TakenByRewrite(form, by'.call, p, x)
                     \/ TakenByDelete(form, p) \/ TakenByMove(form, by'.from, p)
                /\ \A p \in procs : Holds(p, x) =>
                     p.kind \in DOMAIN Profiles /\ calls'[p.call].at = "done" /\ ~calls'[p.call].ok]_vars
    <2> SUFFICES ASSUME IInv, Outputs, DiskInv, [Next]_vars, NEW x, ~Somewhere(x)'
                 PROVE  LET form == Plain(calls'[by'.call].form)
                        IN /\ \A p \in Paths : x \in LinesOf(disk, p) =>
                                \/ TakenByEdit(form, p, x) \/ TakenByRewrite(form, by'.call, p, x)
                                \/ TakenByDelete(form, p) \/ TakenByMove(form, by'.from, p)
                           /\ \A p \in procs : Holds(p, x) => Killed(p)
      BY DEF Plain, Killed
    <2>1. (\A q \in Paths : x \notin LinesOf(disk', q)) /\ ~\E q \in procs' : Holds(q, x)'
      BY DEF Somewhere
    <2>2. ASSUME NEW p \in Paths, x \in LinesOf(disk, p)
          PROVE  LET form == Plain(calls'[by'.call].form)
                 IN \/ TakenByEdit(form, p, x) \/ TakenByRewrite(form, by'.call, p, x)
                    \/ TakenByDelete(form, p) \/ TakenByMove(form, by'.from, p)
      <3>1. disk' # disk
        <4>1. disk' = disk => LinesOf(disk', p) = LinesOf(disk, p)
          BY DEF LinesOf
        <4>2. QED
          BY <2>1, <2>2, <4>1
      <3>2. Explained(by'.from, by'.call, p, x)
        BY <2>1, <2>2, <3>1, NextDisk DEF Survive
      <3>3. calls'[by'.call].form = calls[by'.call].form
        BY <3>1, Changer
      <3>4. QED
        BY <3>2, <3>3 DEF Explained
    <2>3. ASSUME NEW p \in procs, Holds(p, x)
          PROVE  Killed(p)
      BY <2>1, <2>3, NextHolds
    <2>4. QED
      BY <2>2, <2>3
  <1>4. QED
    BY <1>1, <1>2, <1>3, PTL DEF Spec, EditsSurvive
=============================================================================
