----------------------------- MODULE ToolCalls -----------------------------
(* The tool calls of one model message on their way through RetryMiddleware,   *)
(* ApprovalMiddleware and SandboxMiddleware (middlewares/retry.py, approval.py,*)
(* sandbox.py), and the dispatcher that puts their questions to the user       *)
(* (cli/dispatchers/messages.py).  LangGraph, which is outside this repository,*)
(* runs the calls side by side; a call that asks raises GraphInterrupt, and a  *)
(* resumed run executes every unfinished call again from its first line.       *)
EXTENDS Naturals, Sequences, FiniteSets

CONSTANTS Calls,       \* the tool calls of the message
          Rules,       \* approval rules that may stand in config.approval.json
          Covers,      \* rule -> the calls it matches
          Own,         \* call -> the rule an "always" answer to it saves
          Trusted,     \* calls of tools marked always_approve
          Blocked,     \* calls of tools with no sandbox pattern
          Retried,     \* calls the retry middleware wraps
          MaxRetries,  \* tool_config.max_retries
          Timed,       \* TRUE: tool_config.timeout is set
          Switch,      \* TRUE: the user may change the approval mode when asked
          Rerun        \* TRUE: a resumed run may execute finished calls again

Turns == {"streaming", "failed", "cancelled", "ended", "model"}

ASSUME ToolCallAssumption ==
  /\ Covers \in [Rules -> SUBSET Calls]
  /\ Own \in [Calls -> Rules]
  /\ \A c \in Calls : c \in Covers[Own[c]]
  /\ Trusted \cup Blocked \cup Retried \subseteq Calls
  /\ MaxRetries \in Nat
  /\ Timed \in BOOLEAN /\ Switch \in BOOLEAN /\ Rerun \in BOOLEAN
  /\ Calls \cap Turns = {}

VARIABLES rules,    \* always_allow, always_deny and always_ask of the rule file
          mode,     \* approval_mode of the context
          cache,    \* _decision_cache: call -> the message kept for it, or "none"
          task,     \* LangGraph's task for each call
          answers,  \* the user's answers to a call, replayed in order on a resume
          turn      \* the dispatcher: streaming, asking about a call, or over
vars == <<rules, mode, cache, task, answers, turn>>

Modes == {"semi-active", "active", "aggressive"}
Answers == {"allow", "always_allow", "deny", "always_deny"}

Fresh == [at |-> "ready", attempt |-> 0, asked |-> 0]

Init ==
  /\ rules \in [allow : SUBSET Rules, deny : SUBSET Rules, ask : SUBSET Rules]
  /\ mode \in Modes
  /\ cache = [c \in Calls |-> "none"]
  /\ task = [c \in Calls |-> Fresh]
  /\ answers = [c \in Calls |-> <<>>]
  /\ turn = "streaming"

Active == turn = "streaming" \/ turn \in Calls

-----------------------------------------------------------------------------
(* Approval: rules and mode *)

Matched(S, c) == \E r \in S : c \in Covers[r]

BypassesDeny(c) ==  \* mutant: AGGRESSIVE bypasses every rule
  mode = "aggressive" \/ (mode = "active" /\ ~Matched(rules.deny \cup rules.ask, c))
Bypass(c) ==
  /\ ~Matched(rules.deny, c)
  /\ mode = "aggressive" \/ (mode = "active" /\ ~Matched(rules.ask, c))

\* Deny before allow, and either before a question.
Allowed(c) ==
  c \in Trusted \/ Bypass(c) \/ (~Matched(rules.deny, c) /\ Matched(rules.allow, c))
Denied(c) == c \notin Trusted /\ ~Bypass(c) /\ Matched(rules.deny, c)
Open(c) == ~Allowed(c) /\ ~Denied(c)

SaveAlone(c, list) ==  \* mutant: the file could not be read and counts as empty
  rules' = [[l \in {"allow", "deny", "ask"} |-> {}] EXCEPT ![list] = {Own[c]}]
Save(c, list) ==
  rules' = LET own == {Own[c]}
               kept == [rules EXCEPT !.allow = @ \ own, !.deny = @ \ own]
               asks == IF Matched(rules.ask, c) THEN rules.ask \ own ELSE rules.ask
           IN [kept EXCEPT ![list] = @ \cup own, !.ask = asks]

-----------------------------------------------------------------------------
(* Retry and approval around one call *)

Set(c, t) == task' = [task EXCEPT ![c] = t]
End(c) == Set(c, [task[c] EXCEPT !.at = "done"])
Keep(c, m) == cache' = [cache EXCEPT ![c] = m]

\* A RetryableError: wait and try again, or raise the last error.
RetryOnceMore(c) ==  \* mutant: <= for <
  Set(c, IF task[c].attempt <= MaxRetries
         THEN [task[c] EXCEPT !.at = "backoff", !.attempt = @ + 1]
         ELSE [task[c] EXCEPT !.at = "raised"])
RetryUncounted(c) ==  \* mutant: each attempt counts as the first
  Set(c, IF task[c].attempt < MaxRetries THEN [task[c] EXCEPT !.at = "backoff"]
                                         ELSE [task[c] EXCEPT !.at = "raised"])
Retry(c) ==
  Set(c, IF task[c].attempt < MaxRetries
         THEN [task[c] EXCEPT !.at = "backoff", !.attempt = @ + 1]
         ELSE [task[c] EXCEPT !.at = "raised"])

\* create_tool_message hands is_error on as a field of its own: the status of its
\* message is the default, whatever the tool said.
Status(m) == "success"

\* A message comes back to the retry middleware, which looks for "timeout",
\* "connection" or "temporarily" in the content of one with status "error".
Returned(c, m) ==
  IF c \in Retried /\ Status(m) = "error" /\ m = "transient" THEN Retry(c) ELSE End(c)

Execute(c, asked) ==
  IF c \in Blocked
  THEN Keep(c, "error") /\ Set(c, [task[c] EXCEPT !.at = "done", !.asked = asked])
  ELSE Set(c, [task[c] EXCEPT !.at = "running", !.asked = asked]) /\ UNCHANGED cache

RefuseUnkept(c, asked) ==  \* mutant: the refusal runs through to the tool
  Execute(c, asked)
Refuse(c, asked) ==
  /\ Keep(c, "denied")
  /\ Set(c, [task[c] EXCEPT !.at = "done", !.asked = asked])

AskAfresh(c) ==  \* mutant: answers are not replayed
  Set(c, [task[c] EXCEPT !.at = "asking"]) /\ UNCHANGED <<rules, cache>>
\* interrupt() returns the next answer given so far, in order, or raises.
Ask(c) ==
  LET k == task[c].asked + 1 IN
  \/ /\ k > Len(answers[c])
     /\ Set(c, [task[c] EXCEPT !.at = "asking"])
     /\ UNCHANGED <<rules, cache>>
  \/ /\ k <= Len(answers[c])
     /\ IF answers[c][k] \in {"allow", "always_allow"} THEN Execute(c, k) ELSE Refuse(c, k)
     /\ CASE answers[c][k] = "always_allow" -> Save(c, "allow")
          [] answers[c][k] = "always_deny" -> Save(c, "deny")
          [] OTHER -> UNCHANGED rules

\* One attempt up to the tool: the kept message, or a decision.
Begin(c) == Active /\ task[c].at \in {"ready", "backoff"}

Kept(c) == cache[c] # "none"

Reuse(c) == Returned(c, cache[c]) /\ UNCHANGED <<rules, cache>>

Decide(c) ==
  \/ Allowed(c) /\ Execute(c, task[c].asked) /\ UNCHANGED rules
  \/ Denied(c) /\ Refuse(c, task[c].asked) /\ UNCHANGED rules
  \/ Open(c) /\ Ask(c)

Attempt(c) ==
  /\ Begin(c)
  /\ (Kept(c) /\ Reuse(c)) \/ (~Kept(c) /\ Decide(c))
  /\ UNCHANGED <<mode, answers, turn>>

\* The tool, or its sandbox, returns a message, which is kept, ...
ToolReturns(c, m) ==
  /\ Active /\ task[c].at = "running"
  /\ Keep(c, m)
  /\ Returned(c, m)
  /\ UNCHANGED <<rules, mode, answers, turn>>

\* ... or a Command (a large output is stored as a file), which is not, ...
ToolCommands(c) ==
  /\ Active /\ task[c].at = "running"
  /\ End(c)
  /\ UNCHANGED <<rules, mode, cache, answers, turn>>

\* ... or raises: approval makes an error message of it and keeps nothing.
ToolRaises(c, m) ==
  /\ Active /\ task[c].at = "running"
  /\ Returned(c, m)
  /\ UNCHANGED <<rules, mode, cache, answers, turn>>

ToolTimesOut(c) ==
  /\ Timed /\ c \in Retried
  /\ Active /\ task[c].at = "running"
  /\ Retry(c)
  /\ UNCHANGED <<rules, mode, cache, answers, turn>>

-----------------------------------------------------------------------------
(* The dispatcher *)

\* The first interrupt in the stream is shown; other calls go on meanwhile.
Prompt(c) ==
  /\ turn = "streaming" /\ task[c].at = "asking"
  /\ turn' = c
  /\ UNCHANGED <<rules, mode, cache, task, answers>>

\* The stream is closed, which cancels the calls that have not finished, and a new
\* one resumes them; a finished call whose writes are not saved yet runs again too.
Resume ==
  \E again \in SUBSET {c \in Calls : task[c].at = "done" /\ Rerun} :
    task' = [c \in Calls |-> IF task[c].at = "done" /\ c \notin again THEN task[c]
                                                                    ELSE Fresh]

\* What is typed at a question: an option in full, the beginning of some, or Ctrl+C.
Begins ==
  [a |-> {"allow", "always_allow", "always_deny"}, all |-> {"allow"},
   always |-> {"always_allow", "always_deny"}, d |-> {"deny"}, other |-> {}]
Typed == Answers \cup DOMAIN Begins \cup {"^C"}

\* Ctrl+C counts as "deny"; what is no option and begins none, or several, is asked again.
Chosen(typed) ==
  IF typed = "^C" THEN {"deny"}
  ELSE IF typed \in Answers THEN {typed}
  ELSE {o \in Begins[typed] : Begins[typed] = {o}}
Choices == UNION {Chosen(typed) : typed \in Typed}

Answer(c, a, m) ==
  /\ turn = c /\ a \in Choices
  /\ answers' = [answers EXCEPT ![c] = Append(@, a)]
  /\ mode' = m
  /\ Switch \/ m = mode
  /\ turn' = "streaming"
  /\ Resume
  /\ UNCHANGED <<rules, cache>>

FailTogether ==  \* mutant: errors are collected, as by gather(return_exceptions=True)
  /\ turn = "streaming" /\ \A c \in Calls : task[c].at = "raised"
  /\ turn' = "failed"
  /\ UNCHANGED <<rules, mode, cache, task, answers>>
\* A call that raised ends the stream with its error.
Fail ==
  /\ turn = "streaming" /\ \E c \in Calls : task[c].at = "raised"
  /\ turn' = "failed"
  /\ UNCHANGED <<rules, mode, cache, task, answers>>

\* Ctrl+C while streaming.
Cancel ==
  /\ turn = "streaming"
  /\ turn' = "cancelled"
  /\ UNCHANGED <<rules, mode, cache, task, answers>>

\* Every call has its message; one that was denied sends the turn to its end.
Finish ==
  /\ turn = "streaming" /\ \A c \in Calls : task[c].at = "done"
  /\ turn' = IF \E c \in Calls : cache[c] = "denied" THEN "ended" ELSE "model"
  /\ UNCHANGED <<rules, mode, cache, task, answers>>

Over == ~Active /\ UNCHANGED vars

Step(c) ==
  \/ Attempt(c)
  \/ \E m \in {"ok", "error", "transient"} : ToolReturns(c, m)
  \/ \E m \in {"error", "transient"} : ToolRaises(c, m)
  \/ ToolCommands(c) \/ ToolTimesOut(c)

Next ==
  \/ \E c \in Calls : Step(c) \/ Prompt(c)
  \/ \E c \in Calls, a \in Answers, m \in Modes : Answer(c, a, m)
  \/ Fail \/ Cancel \/ Finish \/ Over

Spec == Init /\ [][Next]_vars

\* Tools come to an end, the stream is read and the user answers.
Fairness ==
  /\ \A c \in Calls : /\ WF_vars(Step(c)) /\ WF_vars(Prompt(c))
                      /\ WF_vars(\E a \in Answers, m \in Modes : Answer(c, a, m))
  /\ WF_vars(Fail) /\ WF_vars(Finish)
FairSpec == Spec /\ Fairness

-----------------------------------------------------------------------------
(* Properties *)

TaskState == [at : {"ready", "asking", "running", "backoff", "raised", "done"},
              attempt : 0..MaxRetries, asked : Nat]

\* Every variable has the values its declaration says.
TypeOK ==
  /\ rules \in [allow : SUBSET Rules, deny : SUBSET Rules, ask : SUBSET Rules]
  /\ mode \in Modes
  /\ cache \in [Calls -> {"none", "ok", "error", "transient", "denied"}]
  /\ task \in [Calls -> TaskState]
  /\ answers \in [Calls -> Seq(Answers)]
  /\ turn \in Turns \cup Calls

Starts(c) == task[c].at # "running" /\ task'[c].at = "running"

\* A call that an always_deny rule covers, the user's "always deny" to a call
\* beside it included, is never executed, in any mode and at any attempt.  This is what
\* _check_approval_mode_bypass does and its docstring says ("AGGRESSIVE: Bypass unless
\* in always_deny", middlewares/approval.py:95).  The comments at the modes disagree
\* with both: "Bypass all approval rules" (configs/approval.py:18) has no such exception.
DenyRuleHolds ==
  [][\A c \in Calls \ Trusted : Matched(rules.deny, c) => ~Starts(c)]_vars

\* What has been denied for good stays denied: no answer to another call, asked
\* before or after, takes the rule back.
DenyPersists ==
  [][\A c \in Calls : Matched(rules.deny, c) => Matched(rules'.deny, c)]_vars

\* The user is asked about a call once for each attempt, whatever is replayed.
QuestionsBounded == \A c \in Calls : Len(answers[c]) <= MaxRetries + 1

\* A call is executed only if the user did not refuse it.
RefusedNeverRuns ==
  [][\A c \in Calls : Starts(c) =>
       \A k \in DOMAIN answers[c] : answers[c][k] \in {"allow", "always_allow"}]_vars

\* The turn comes to an end: resuming and retrying do not go on for ever.
TurnEnds == <>~Active
=============================================================================
