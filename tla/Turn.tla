-------------------------------- MODULE Turn --------------------------------
(* A turn of the conversation: MessageDispatcher.dispatch of                   *)
(* cli/dispatchers/messages.py and the agent's graph it streams, in which the  *)
(* model is called with retries under a circuit breaker (middlewares/retry.py) *)
(* and a subagent runs inside a tool call (tools/subagents/task.py).  The      *)
(* graph (external) puts its events in a queue; the dispatcher takes them one  *)
(* at a time and draws them, and leaves the stream when a call asks.           *)
EXTENDS Naturals, Sequences, FiniteSets, Bags, SequencesExt

CONSTANTS Main, Subs,  \* namespaces: the agent's, and one for each subagent started
          MaxRetries,  \* llm_config.max_retries
          Threshold,   \* failures of calls that open the circuit
          Limit,       \* recursion_limit, in model calls of a graph
          Costly,      \* ids of messages whose usage calls for a compression
          MaxCalls,    \* bound: tool calls of a message that has any, in each namespace
          MaxParts,    \* bound: chunks of a message
          MaxTurns,    \* bound: turns
          MaxAsks,     \* bound: interrupts
          MaxFaults,   \* bound: attempts of a model call that fail
          MaxIds,      \* bound: ids of messages
          MaxQueue     \* bound: events not yet taken

ASSUME TurnAssumption ==
  /\ MaxCalls \in [{Main} \cup Subs -> Nat]
  /\ IsFiniteSet(Subs) /\ Main \notin Subs /\ Threshold >= 1 /\ Limit >= 1 /\ MaxQueue >= 1
  /\ {MaxRetries, Threshold, Limit, MaxParts, MaxTurns, MaxAsks, MaxFaults, MaxIds, MaxQueue}
       \subseteq Nat

VARIABLES phase,   \* of the dispatcher: idle, stream, invoke, ask, ended
          run,     \* what the graph does in each namespace
          queue,   \* the events of the stream
          disp,    \* the display
          added,   \* the messages this turn added to the thread: <<message, parts>>
          breaker, \* the circuit breaker: [fails, open]
          next,    \* ids of messages given out
          turns, asks, faults
vars == <<phase, run, queue, disp, added, breaker, next, turns, asks, faults>>

Spaces == {Main} \cup Subs
AI(id) == <<id, 0>>                           \* a message of the model
Result(c) == c                                \* the result of call <<id, i>> of message id
Calls(id, n) == {<<id, i>> : i \in 1..n}
Off == [at |-> "off", msg |-> 0, tries |-> 0, parts |-> 0, calls |-> 0, steps |-> 0,
        tools |-> <<>>, parent |-> <<>>]      \* tools: each call's state
Quiet == [msg |-> 0, parts |-> 0, calls |-> {}]
Blank == [stream |-> [n \in Spaces |-> Quiet],   \* streaming_states
          rendered |-> {},                       \* rendered_messages
          shown |-> EmptyBag,                    \* the screen: <<message, parts>>
          headers |-> {},                        \* _pending_tool_headers
          active |-> [n \in Spaces |-> {}],      \* active_tools
          thinking |-> {},                       \* thinking_previews
          due |-> FALSE]                         \* _pending_compression

Init ==
  /\ phase = "idle" /\ run = [n \in Spaces |-> Off] /\ queue = <<>> /\ disp = Blank
  /\ added = {}
  /\ \E f \in 0..Threshold : breaker = [fails |-> f, open |-> f = Threshold]
  /\ next = 0 /\ turns = 0 /\ asks = 0 /\ faults = 0

-----------------------------------------------------------------------------
(* The display *)

\* The usage of a message may make a compression due.
Usage(d, id) == [d EXCEPT !.due = @ \/ id \in Costly]

\* An assistant message, its tool calls deferred to their results.
ShowAssistant(d, id, parts, calls) ==
  [d EXCEPT !.shown = @ (+) SetToBag({<<AI(id), parts>>}), !.headers = @ \cup calls]

\* A tool's result, one part of it its header if that is pending.
ShowResult(d, c) ==
  [d EXCEPT !.shown = @ (+) SetToBag({<<Result(c), IF c \in d.headers THEN 1 ELSE 0>>}),
            !.headers = @ \ {c}]

\* The streams of some namespaces are ended, and what each has gathered is drawn:
\* an assistant message.
Gathered(d, n) == <<AI(d.stream[n].msg), d.stream[n].parts>>
Drawn(d, open) ==
  [x \in {Gathered(d, n) : n \in open} |-> Cardinality({n \in open : Gathered(d, n) = x})]
FinalizeWithoutMark(d, N) ==  \* mutant
  LET open == {n \in N : d.stream[n].msg # 0}
  IN [d EXCEPT !.stream = [n \in Spaces |-> IF n \in open THEN Quiet ELSE d.stream[n]],
               !.shown = @ (+) Drawn(d, open),
               !.headers = @ \cup UNION {d.stream[n].calls : n \in open},
               !.thinking = @ \ open,
               !.due = @ \/ \E n \in open : d.stream[n].msg \in Costly]
Finalize(d, N) ==
  LET open == {n \in N : d.stream[n].msg # 0}
  IN [d EXCEPT !.stream = [n \in Spaces |-> IF n \in open THEN Quiet ELSE d.stream[n]],
               !.rendered = @ \cup {AI(d.stream[n].msg) : n \in open},
               !.shown = @ (+) Drawn(d, open),
               !.headers = @ \cup UNION {d.stream[n].calls : n \in open},
               !.thinking = @ \ open,
               !.due = @ \/ \E n \in open : d.stream[n].msg \in Costly]
FinalizeAll(d) == Finalize(d, Spaces)

\* A live call is kept in one namespace only.
SetActivity(d, n, calls) ==
  [d EXCEPT !.active = [m \in Spaces |-> IF m = n THEN @[m] \cup calls ELSE @[m] \ calls],
            !.thinking = @ \ {n}]
SetThinking(d, n) == [d EXCEPT !.active[n] = {}, !.thinking = @ \cup {n}]

\* A chunk of another message than the one streamed finalizes that one.
Opened(d, e) ==
  IF d.stream[e.ns].msg = e.id THEN d
  ELSE [Finalize(d, {e.ns}) EXCEPT !.stream[e.ns] = [Quiet EXCEPT !.msg = e.id]]
ProcessChunk(d, e) ==
  LET s == Opened(d, e).stream[e.ns]
      f == [Opened(d, e) EXCEPT !.stream[e.ns] =
              [msg |-> s.msg, parts |-> s.parts + 1, calls |-> s.calls \cup e.calls]]
  IN IF e.calls # {} THEN SetActivity(f, e.ns, e.calls) ELSE SetThinking(f, e.ns)

\* A node's update: an assistant message, or the result of a call.
ProcessModel(d, e) ==
  LET f == IF e.calls = {} THEN Usage(d, e.id) ELSE SetActivity(Usage(d, e.id), e.ns, e.calls)
  IN IF AI(e.id) \in f.rendered THEN f
     ELSE ShowAssistant([f EXCEPT !.rendered = @ \cup {AI(e.id)}], e.id, e.parts, e.calls)
ProcessResult(d, e) ==
  LET f == [d EXCEPT !.active[e.ns] = {}, !.thinking = @ \ {e.ns}]
  IN IF Result(e.call) \in f.rendered THEN f
     ELSE ShowResult([f EXCEPT !.rendered = @ \cup {Result(e.call)}], e.call)

\* What the dispatcher makes of an event that is no interrupt.
Process(d, e) ==
  CASE e.kind = "chunk" -> ProcessChunk(d, e)
    [] e.kind = "model" -> ProcessModel(Finalize(d, {e.ns}), e)
    [] e.kind = "result" -> ProcessResult(Finalize(d, {e.ns}), e)

\* An interrupt clears every preview and all activity, and draws nothing.
InterruptedForgets(d) ==  \* mutant
  [d EXCEPT !.stream = Blank.stream, !.active = Blank.active, !.thinking = {}, !.headers = {}]
Interrupted(d) ==
  [d EXCEPT !.stream = Blank.stream, !.active = Blank.active, !.thinking = {}]

-----------------------------------------------------------------------------
(* The graph *)

Running == phase \in {"stream", "invoke", "ask"}
Emit(e) ==
  IF phase = "invoke" THEN UNCHANGED queue
  ELSE Len(queue) < MaxQueue /\ queue' = Append(queue, e)
Kept == UNCHANGED <<phase, disp, turns, asks, faults>>

\* The first attempt of a model call has a message id, and every retry another.
Attempt(r, id) == [r EXCEPT !.at = "model", !.msg = id, !.parts = 0]

\* before_model: the limit, then the breaker, which only the agent's own graph has.
CallModel(n) ==
  /\ Running /\ run[n].at = "gate" /\ next < MaxIds
  /\ \E elapsed \in BOOLEAN, k \in {0, MaxCalls[n]} :
       LET rests == n = Main /\ breaker.open /\ ~elapsed
           over == run[n].steps = Limit
       IN /\ breaker' = IF n = Main /\ ~over /\ breaker.open /\ elapsed
                        THEN [fails |-> 0, open |-> FALSE] ELSE breaker
          /\ IF over \/ rests
             THEN run' = [run EXCEPT ![n].at = "failed"] /\ UNCHANGED next
             ELSE /\ run' = [run EXCEPT ![n] = [Attempt(run[n], next + 1) EXCEPT
                               !.tries = 0, !.calls = k, !.steps = @ + 1]]
                  /\ next' = next + 1
  /\ Kept /\ UNCHANGED <<queue, added>>

\* The calls of a message come with its last chunk.
Chunk(n) ==
  /\ Running /\ run[n].at = "model" /\ run[n].parts < MaxParts
  /\ LET r == run[n]
         calls == IF r.parts + 1 = MaxParts THEN Calls(r.msg, r.calls) ELSE {}
     IN Emit([kind |-> "chunk", ns |-> n, id |-> r.msg, part |-> r.parts + 1, calls |-> calls])
  /\ run' = [run EXCEPT ![n].parts = @ + 1]
  /\ Kept /\ UNCHANGED <<added, breaker, next>>

\* The outer wrapper counts the calls that failed, not their attempts.
Success(n) == IF n = Main THEN [breaker EXCEPT !.fails = 0] ELSE breaker
Failure(n) == IF n = Main THEN [fails |-> breaker.fails + 1,
                                open |-> breaker.open \/ breaker.fails + 1 >= Threshold]
              ELSE breaker

\* The message is whole, streamed to its end or not streamed at all.
ModelDone(n) ==
  /\ Running /\ run[n].at = "model" /\ run[n].parts \in {0, MaxParts}
  /\ LET r == run[n]
         calls == Calls(r.msg, r.calls)
     IN /\ Emit([kind |-> "model", ns |-> n, id |-> r.msg, parts |-> r.parts, calls |-> calls])
        /\ run' = [run EXCEPT ![n].at = IF r.calls = 0 THEN "end" ELSE "tools",
                              ![n].tools = [c \in calls |-> "run"]]
        /\ added' = IF n = Main THEN added \cup {<<AI(r.msg), r.parts>>} ELSE added
  /\ breaker' = Success(n)
  /\ Kept /\ UNCHANGED next

\* A retry's notice is drawn at once, past the queue; it is no message.
ModelFails(n) ==
  /\ Running /\ run[n].at = "model" /\ faults < MaxFaults
  /\ faults' = faults + 1
  /\ \E retryable \in BOOLEAN :
       IF run[n].tries = MaxRetries \/ ~retryable
       THEN run' = [run EXCEPT ![n].at = "failed"] /\ breaker' = Failure(n)
       ELSE run' = [run EXCEPT ![n].at = "sleep"] /\ UNCHANGED breaker
  /\ UNCHANGED <<phase, queue, disp, added, next, turns, asks>>

Wake(n) ==
  /\ Running /\ run[n].at = "sleep" /\ next < MaxIds
  /\ run' = [run EXCEPT ![n] = [Attempt(run[n], next + 1) EXCEPT !.tries = @ + 1]]
  /\ next' = next + 1
  /\ Kept /\ UNCHANGED <<queue, added, breaker>>

\* A call of the task tool runs a subagent's graph in a namespace of its own.
Delegate(c, s) ==
  /\ Running /\ run[Main].at = "tools" /\ run[s].at = "off"
  /\ c \in DOMAIN run[Main].tools /\ run[Main].tools[c] = "run"
  /\ run' = [run EXCEPT ![Main].tools[c] = "sub", ![s] = [Off EXCEPT !.at = "gate", !.parent = c]]
  /\ Kept /\ UNCHANGED <<queue, added, breaker, next>>

\* A call returns, with an error or the subagent's last message as its result.
Returned(c) == {s \in Subs : run[s].parent = c /\ run[s].at \in {"end", "failed"}}
CallDone(n, c) ==
  /\ Running /\ run[n].at = "tools"
  /\ \/ run[n].tools[c] = "run"
     \/ run[n].tools[c] = "sub" /\ Returned(c) # {}
  /\ run' = [m \in Spaces |->
               IF m \in Returned(c) THEN [run[m] EXCEPT !.at = "over"]
               ELSE IF m = n THEN [run[n] EXCEPT !.tools[c] = "done"] ELSE run[m]]
  /\ Emit([kind |-> "result", ns |-> n, call |-> c])
  /\ Kept /\ UNCHANGED <<added, breaker, next>>

\* A call asks: its interrupt is an event while other calls go on.
CallAsks(n, c) ==
  /\ Running /\ run[n].at = "tools" /\ run[n].tools[c] = "run" /\ asks < MaxAsks
  /\ run' = [run EXCEPT ![n].tools[c] = "asks"]
  /\ Emit([kind |-> "interrupt", ns |-> n])
  /\ asks' = asks + 1
  /\ UNCHANGED <<phase, disp, added, breaker, next, turns, faults>>

\* The superstep is over when every call is; a result with return_direct ends the run.
Commit(n) ==
  /\ Running /\ run[n].at = "tools"
  /\ \A c \in DOMAIN run[n].tools : run[n].tools[c] = "done"
  /\ \E direct \in BOOLEAN :
       run' = [run EXCEPT ![n].at = IF direct THEN "end" ELSE "gate", ![n].tools = <<>>]
  /\ added' = IF n = Main THEN added \cup {<<Result(c), 1>> : c \in DOMAIN run[n].tools} ELSE added
  /\ Kept /\ UNCHANGED <<queue, breaker, next>>

GraphStep(n) ==
  \/ CallModel(n) \/ Chunk(n) \/ ModelDone(n) \/ ModelFails(n) \/ Wake(n) \/ Commit(n)
  \/ \E c \in DOMAIN run[n].tools : CallDone(n, c) \/ CallAsks(n, c)
  \/ \E c \in DOMAIN run[Main].tools : n \in Subs /\ Delegate(c, n)

-----------------------------------------------------------------------------
(* The dispatcher *)

Stopped == [n \in Spaces |-> IF n = Main \/ run[n].at = "off" THEN Off ELSE [Off EXCEPT !.at = "over"]]

\* dispatch: a fresh display but for the screen and the pending headers.
Fresh == [Blank EXCEPT !.shown = disp.shown, !.headers = disp.headers]
Dispatch ==
  /\ phase = "idle" /\ turns < MaxTurns
  /\ phase' \in {"stream", "invoke"}
  /\ run' = [Stopped EXCEPT ![Main] = [Off EXCEPT !.at = "gate"]]
  /\ queue' = <<>> /\ disp' = Fresh /\ added' = {} /\ turns' = turns + 1
  /\ UNCHANGED <<breaker, next, asks, faults>>

Take ==
  /\ phase = "stream" /\ queue # <<>> /\ Head(queue).kind # "interrupt"
  /\ disp' = Process(disp, Head(queue)) /\ queue' = Tail(queue)
  /\ UNCHANGED <<phase, run, added, breaker, next, turns, asks, faults>>

\* The prompt is shown in the middle of the stream, whose other calls run on.
TakeInterrupt ==
  /\ phase = "stream" /\ queue # <<>> /\ Head(queue).kind = "interrupt"
  /\ phase' = "ask" /\ disp' = Interrupted(disp) /\ queue' = Tail(queue)
  /\ UNCHANGED <<run, added, breaker, next, turns, asks, faults>>

\* What is done is emitted again, without a new run; what was cut starts again.
Replayed ==
  UNION {{[kind |-> "result", ns |-> n, call |-> c] :
            c \in {x \in DOMAIN run[n].tools : run[n].tools[x] = "done"}} : n \in Spaces}
ResumedUnanswered(r) ==  \* mutant
  [r EXCEPT !.at = IF @ \in {"model", "sleep"} THEN "gate" ELSE @, !.steps = 0]
Resumed(r) ==
  [r EXCEPT !.at = IF @ \in {"model", "sleep"} THEN "gate" ELSE @,
            !.steps = 0,
            !.tools = [c \in DOMAIN @ |-> IF @[c] = "asks" THEN "run" ELSE @[c]]]

\* The answer: the stream is left, what is in its queue is lost, a new one resumes.
Answer ==
  /\ phase = "ask"
  /\ phase' = "stream" /\ queue' \in SetToSeqs(Replayed)
  /\ run' = [n \in Spaces |-> Resumed(run[n])]
  /\ UNCHANGED <<disp, added, breaker, next, turns, asks, faults>>

\* The stream ends: what still streams is finalized.
End ==
  /\ phase = "stream" /\ queue = <<>> /\ run[Main].at = "end"
  /\ phase' = "ended" /\ disp' = FinalizeAll(disp)
  /\ UNCHANGED <<run, queue, added, breaker, next, turns, asks, faults>>

\* A graph that fails may take the events not yet taken with it; nothing is finalized.
Fail ==
  /\ phase \in {"stream", "invoke"} /\ run[Main].at = "failed"
  /\ phase' = "idle" /\ queue' = <<>> /\ run' = Stopped
  /\ UNCHANGED <<disp, added, breaker, next, turns, asks, faults>>

\* Ctrl+C cancels the task that streams: what has arrived is finalized.
Cancel ==
  /\ phase = "stream"
  /\ phase' = "idle" /\ disp' = FinalizeAll(disp) /\ queue' = <<>> /\ run' = Stopped
  /\ UNCHANGED <<added, breaker, next, turns, asks, faults>>

\* Without a stream the last message is drawn, and nobody answers an interrupt.
Later(x, y) == x[1] > y[1] \/ (x[1] = y[1] /\ x[2] > y[2])
Latest == CHOOSE m \in added : \A x \in added \ {m} : Later(m[1], x[1])
Halted ==
  \A n \in Spaces :
    \/ run[n].at \in {"off", "over"}
    \/ /\ run[n].at = "tools"
       /\ \A c \in DOMAIN run[n].tools : run[n].tools[c] # "run"
       /\ \E c \in DOMAIN run[n].tools : run[n].tools[c] # "done"
Invoked ==
  /\ phase = "invoke" /\ (run[Main].at = "end" \/ Halted)
  /\ phase' = "idle" /\ run' = Stopped
  /\ disp' = [disp EXCEPT !.shown = @ (+) SetToBag({Latest})]
  /\ UNCHANGED <<queue, added, breaker, next, turns, asks, faults>>

Compress ==
  /\ phase = "ended"
  /\ phase' = "idle" /\ run' = Stopped /\ disp' = [disp EXCEPT !.due = FALSE]
  /\ UNCHANGED <<queue, added, breaker, next, turns, asks, faults>>
Loop == Take \/ TakeInterrupt \/ Answer \/ End \/ Fail \/ Invoked \/ Compress
Next == Dispatch \/ Loop \/ Cancel \/ \E n \in Spaces : GraphStep(n)

\* Coroutines that can run do, and the user answers.
Spec == Init /\ [][Next]_vars /\ WF_vars(Loop) /\ \A n \in Spaces : WF_vars(GraphStep(n))

-----------------------------------------------------------------------------
(* Properties *)

\* No message is on the screen twice, though it comes in chunks, as a node's
\* update, and again when a stream resumes (_process_update_chunk).
ShownOnce ==
  \A x, y \in BagToSet(disp.shown) :
    x[1] = y[1] => x = y /\ disp.shown[x] = 1

\* A turn that ends has shown all it added to the thread: every message with all
\* its parts, every result under its header, whatever an interrupt dropped.
AllShown == phase = "ended" => added \subseteq BagToSet(disp.shown)

\* A turn ends: no wait of the graph and the dispatcher is for each other.
TurnEnds == phase # "idle" ~> phase = "idle"
=============================================================================
