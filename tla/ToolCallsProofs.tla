-------------------------- MODULE ToolCallsProofs --------------------------
(* What holds of the approval pipeline for any calls, rules, answers and modes. *)
EXTENDS Repeats, TLAPS

\* How far the questions of a task t have got that was given the answers s: one for
\* each attempt at most, and a task that asks has used up its answers.
Asked(t, s) ==
  /\ t.asked <= t.attempt + 1
  /\ t.at \in {"ready", "backoff", "asking"} => t.asked <= t.attempt
  /\ t.asked <= Len(s)
  /\ t.at = "asking" => t.asked = Len(s)

IInv ==
  /\ TypeOK
  /\ QuestionsBounded
  /\ \A c \in Calls : Asked(task[c], answers[c])
  /\ turn \in Calls => task[turn].at = "asking"

-----------------------------------------------------------------------------
(* Operators *)

LEMMA FreshType == Fresh \in TaskState
BY ToolCallAssumption DEF Fresh, TaskState

\* Setting a task's state, attempt and questions keeps it a task.
LEMMA SetType ==
  ASSUME NEW t \in TaskState,
         NEW a \in {"ready", "asking", "running", "backoff", "raised", "done"},
         NEW n \in 0..MaxRetries, NEW k \in Nat
  PROVE  /\ [t EXCEPT !.at = a] \in TaskState
         /\ [t EXCEPT !.at = a, !.attempt = n] \in TaskState
         /\ [t EXCEPT !.at = a, !.asked = k] \in TaskState
BY DEF TaskState

\* What a task looks like when a call ends, retries or raises.
LEMMA ReturnedStates ==
  ASSUME TypeOK, NEW c \in Calls, NEW m, Returned(c, m) \/ Retry(c) \/ End(c)
  PROVE  \/ task' = [task EXCEPT ![c] = [task[c] EXCEPT !.at = "done"]]
         \/ task' = [task EXCEPT ![c] = [task[c] EXCEPT !.at = "raised"]]
         \/ /\ task[c].attempt < MaxRetries
            /\ task' = [task EXCEPT ![c] = [task[c] EXCEPT !.at = "backoff",
                                                           !.attempt = task[c].attempt + 1]]
BY DEF TypeOK, Returned, Retry, End, Set

\* Resuming leaves a call as it is, if it is done, or starts it from scratch.
LEMMA ResumeStates ==
  ASSUME Resume
  PROVE  /\ task' = [c \in Calls |-> task'[c]]
         /\ \A c \in Calls : task'[c] = Fresh \/ (task[c].at = "done" /\ task'[c] = task[c])
BY DEF Resume

\* What an attempt makes of a task: a message, a decision or a question.
LEMMA AttemptStates ==
  ASSUME TypeOK, NEW c \in Calls, Attempt(c)
  PROVE  \/ task' = [task EXCEPT ![c] = [task[c] EXCEPT !.at = "done"]]
         \/ task' = [task EXCEPT ![c] = [task[c] EXCEPT !.at = "raised"]]
         \/ /\ task[c].attempt < MaxRetries
            /\ task' = [task EXCEPT ![c] = [task[c] EXCEPT !.at = "backoff",
                                                           !.attempt = task[c].attempt + 1]]
         \/ \E a \in {"running", "done"} :
              task' = [task EXCEPT ![c] = [task[c] EXCEPT !.at = a, !.asked = task[c].asked]]
         \/ \E a \in {"running", "done"} :
              /\ task[c].asked + 1 <= Len(answers[c])
              /\ task' = [task EXCEPT ![c] = [task[c] EXCEPT !.at = a, !.asked = task[c].asked + 1]]
         \/ /\ task[c].asked + 1 > Len(answers[c])
            /\ task' = [task EXCEPT ![c] = [task[c] EXCEPT !.at = "asking"]]
<1>1. CASE Kept(c) /\ Reuse(c)
  BY <1>1, ReturnedStates DEF Reuse
<1>2. CASE Decide(c)
  <2>1. ASSUME NEW k, Execute(c, k) \/ Refuse(c, k)
        PROVE  \E a \in {"running", "done"} :
                 task' = [task EXCEPT ![c] = [task[c] EXCEPT !.at = a, !.asked = k]]
    BY <2>1 DEF Execute, Refuse, Set
  <2>2. CASE Execute(c, task[c].asked) \/ Refuse(c, task[c].asked)
    BY <2>1, <2>2
  <2>3. CASE Ask(c)
    <3>1. CASE task[c].asked + 1 > Len(answers[c]) /\ Set(c, [task[c] EXCEPT !.at = "asking"])
      BY <3>1 DEF Set
    <3>2. CASE /\ task[c].asked + 1 <= Len(answers[c])
               /\ Execute(c, task[c].asked + 1) \/ Refuse(c, task[c].asked + 1)
      BY <3>2, <2>1
    <3> QED BY <2>3, <3>1, <3>2 DEF Ask
  <2> QED BY <1>2, <2>2, <2>3 DEF Decide
<1> QED BY <1>1, <1>2 DEF Attempt

-----------------------------------------------------------------------------
(* The inductive invariant *)

LEMMA InitIInv == Init => IInv
<1> SUFFICES ASSUME Init PROVE IInv
  OBVIOUS
<1>1. TypeOK
  <2>1. task \in [Calls -> TaskState]
    BY FreshType DEF Init
  <2>2. answers \in [Calls -> Seq(Answers)]
    BY DEF Init
  <2>3. cache \in [Calls -> {"none", "ok", "error", "transient", "denied"}]
    BY DEF Init
  <2> QED BY <2>1, <2>2, <2>3 DEF Init, TypeOK, Turns
<1>2. QuestionsBounded
  BY ToolCallAssumption DEF Init, QuestionsBounded
<1>3. \A c \in Calls : Asked(task[c], answers[c])
  BY DEF Init, Asked, Fresh
<1>4. turn \notin Calls
  BY ToolCallAssumption DEF Init, Turns
<1> QED BY <1>1, <1>2, <1>3, <1>4 DEF IInv

\* What a step of its own may make of a task t that was given n answers.
Move(t, u, n) ==
  \/ u = [t EXCEPT !.at = "done"]
  \/ u = [t EXCEPT !.at = "raised"]
  \/ t.attempt < MaxRetries /\ u = [t EXCEPT !.at = "backoff", !.attempt = t.attempt + 1]
  \/ /\ t.at \in {"ready", "backoff"}
     /\ \/ \E a \in {"running", "done"} : u = [t EXCEPT !.at = a, !.asked = t.asked]
        \/ /\ t.asked + 1 <= n
           /\ \E a \in {"running", "done"} : u = [t EXCEPT !.at = a, !.asked = t.asked + 1]
        \/ t.asked + 1 > n /\ u = [t EXCEPT !.at = "asking"]

\* Such a step keeps a task a task, and its questions in bounds.
LEMMA MoveAsked ==
  ASSUME NEW t \in TaskState, NEW s \in Seq(Answers), Asked(t, s),
         t.at \in {"ready", "backoff", "running"}, NEW u, Move(t, u, Len(s))
  PROVE  u \in TaskState /\ Asked(u, s)
<1>1. t.attempt \in 0..MaxRetries /\ t.asked \in Nat /\ MaxRetries \in Nat /\ Len(s) \in Nat
  BY ToolCallAssumption DEF TaskState
<1>2. ASSUME NEW a \in {"done", "raised", "running"}, u = [t EXCEPT !.at = a]
      PROVE  u \in TaskState /\ Asked(u, s)
  <2>1. u \in TaskState
    BY <1>2 DEF TaskState
  <2>2. u.at = a /\ u.attempt = t.attempt /\ u.asked = t.asked
    BY <1>2 DEF TaskState
  <2> QED BY <1>1, <2>1, <2>2 DEF Asked
<1>3. ASSUME t.attempt < MaxRetries,
             u = [t EXCEPT !.at = "backoff", !.attempt = t.attempt + 1]
      PROVE  u \in TaskState /\ Asked(u, s)
  <2>1. t.attempt + 1 \in 0..MaxRetries
    BY <1>1, <1>3
  <2>2. u \in TaskState
    BY <1>3, <2>1 DEF TaskState
  <2>3. u.at = "backoff" /\ u.attempt = t.attempt + 1 /\ u.asked = t.asked
    BY <1>3 DEF TaskState
  <2> QED BY <1>1, <2>2, <2>3 DEF Asked
<1>4. ASSUME NEW a \in {"running", "done"}, NEW k \in Nat, k <= t.attempt + 1, k <= Len(s),
             u = [t EXCEPT !.at = a, !.asked = k]
      PROVE  u \in TaskState /\ Asked(u, s)
  <2>1. u \in TaskState
    BY <1>4 DEF TaskState
  <2>2. u.at = a /\ u.attempt = t.attempt /\ u.asked = k
    BY <1>4 DEF TaskState
  <2> QED BY <1>1, <1>4, <2>1, <2>2 DEF Asked
<1>5. ASSUME t.at \in {"ready", "backoff"}, t.asked + 1 > Len(s), u = [t EXCEPT !.at = "asking"]
      PROVE  u \in TaskState /\ Asked(u, s)
  <2>1. u \in TaskState
    BY <1>5 DEF TaskState
  <2>2. u.at = "asking" /\ u.attempt = t.attempt /\ u.asked = t.asked
    BY <1>5 DEF TaskState
  <2>3. t.asked <= t.attempt /\ t.asked <= Len(s)
    BY <1>5 DEF Asked
  <2> QED BY <1>1, <1>5, <2>1, <2>2, <2>3 DEF Asked
<1>6. t.asked <= t.attempt + 1 /\ t.asked <= Len(s)
  BY DEF Asked
<1>7. t.at \in {"ready", "backoff"} => t.asked + 1 \in Nat /\ t.asked + 1 <= t.attempt + 1
  BY <1>1 DEF Asked
<1>8. CASE t.at \in {"ready", "backoff"} /\ t.asked + 1 <= Len(s)
             /\ \E a \in {"running", "done"} : u = [t EXCEPT !.at = a, !.asked = t.asked + 1]
  BY <1>4, <1>7, <1>8
<1>9. CASE \E a \in {"running", "done"} : u = [t EXCEPT !.at = a, !.asked = t.asked]
  BY <1>1, <1>4, <1>6, <1>9
<1> QED BY <1>2, <1>3, <1>5, <1>8, <1>9 DEF Move

-----------------------------------------------------------------------------
(* The steps of one call *)

\* Every step of a call is a move of its task and of nothing else of the turn.
LEMMA StepMoves ==
  ASSUME TypeOK, NEW c \in Calls, Step(c)
  PROVE  /\ UNCHANGED <<mode, answers, turn>>
         /\ task[c].at \in {"ready", "backoff", "running"}
         /\ \E u : /\ Move(task[c], u, Len(answers[c]))
                   /\ task' = [task EXCEPT ![c] = u]
<1>1. CASE Attempt(c)
  <2>1. UNCHANGED <<mode, answers, turn>> /\ task[c].at \in {"ready", "backoff"}
    BY <1>1 DEF Attempt, Begin
  <2>2. \E u : /\ Move(task[c], u, Len(answers[c]))
               /\ task' = [task EXCEPT ![c] = u]
    BY <1>1, <2>1, AttemptStates DEF Move
  <2> QED BY <2>1, <2>2
<1>2. CASE /\ task[c].at = "running" /\ UNCHANGED <<mode, answers, turn>>
           /\ (\E m : Returned(c, m)) \/ End(c) \/ Retry(c)
  <2>1. \E u : /\ Move(task[c], u, Len(answers[c]))
               /\ task' = [task EXCEPT ![c] = u]
    BY <1>2, ReturnedStates DEF Move
  <2> QED BY <1>2, <2>1
<1>3. CASE \E m \in {"ok", "error", "transient"} : ToolReturns(c, m)
  BY <1>2, <1>3 DEF ToolReturns
<1>4. CASE \E m \in {"error", "transient"} : ToolRaises(c, m)
  BY <1>2, <1>4 DEF ToolRaises
<1>5. CASE ToolCommands(c) \/ ToolTimesOut(c)
  BY <1>2, <1>5 DEF ToolCommands, ToolTimesOut
<1> QED BY <1>1, <1>3, <1>4, <1>5 DEF Step

\* An "always" answer leaves a rule file, with one rule more.
LEMMA SaveType ==
  ASSUME TypeOK, NEW c \in Calls, NEW l \in {"allow", "deny"}, Save(c, l)
  PROVE  rules' \in [allow : SUBSET Rules, deny : SUBSET Rules, ask : SUBSET Rules]
<1> DEFINE own == {Own[c]}
           kept == [rules EXCEPT !.allow = @ \ own, !.deny = @ \ own]
           asks == IF Matched(rules.ask, c) THEN rules.ask \ own ELSE rules.ask
<1>1. own \subseteq Rules
  BY ToolCallAssumption
<1>2. rules \in [allow : SUBSET Rules, deny : SUBSET Rules, ask : SUBSET Rules]
  BY DEF TypeOK
<1>3. asks \subseteq Rules
  BY <1>2
<1> HIDE DEF asks, own
<1>4. kept \in [allow : SUBSET Rules, deny : SUBSET Rules, ask : SUBSET Rules]
  BY <1>2
<1> HIDE DEF kept
<1>5. CASE l = "allow"
  <2>1. rules' = [kept EXCEPT !.allow = kept.allow \cup own, !.ask = asks]
    BY <1>5 DEF Save, kept, asks, own
  <2> QED BY <2>1, <1>1, <1>3, <1>4
<1>6. CASE l = "deny"
  <2>1. rules' = [kept EXCEPT !.deny = kept.deny \cup own, !.ask = asks]
    BY <1>6 DEF Save, kept, asks, own
  <2> QED BY <2>1, <1>1, <1>3, <1>4
<1> QED BY <1>5, <1>6

\* The rule file changes only by an "always" answer to a call no rule decides.
LEMMA StepRules ==
  ASSUME NEW c \in Calls, Step(c)
  PROVE  UNCHANGED rules \/ (Open(c) /\ \E l \in {"allow", "deny"} : Save(c, l))
<1>1. CASE Attempt(c)
  <2>1. CASE Open(c) /\ Ask(c)
    BY <2>1 DEF Ask
  <2> QED BY <1>1, <2>1 DEF Attempt, Reuse, Decide
<1>2. CASE ~Attempt(c)
  BY <1>2 DEF Step, ToolReturns, ToolRaises, ToolCommands, ToolTimesOut
<1> QED BY <1>1, <1>2

\* A message is kept for the call that steps, or none.
LEMMA StepCache ==
  ASSUME NEW c \in Calls, Step(c)
  PROVE  UNCHANGED cache \/ \E m \in {"ok", "error", "transient", "denied"} : Keep(c, m)
<1>1. CASE Attempt(c)
  <2>1. ASSUME NEW k, Execute(c, k) \/ Refuse(c, k)
        PROVE  UNCHANGED cache \/ \E m \in {"error", "denied"} : Keep(c, m)
    BY <2>1 DEF Execute, Refuse
  <2>2. CASE Ask(c)
    BY <2>1, <2>2 DEF Ask
  <2> QED BY <1>1, <2>1, <2>2 DEF Attempt, Reuse, Decide
<1>2. CASE ~Attempt(c)
  BY <1>2 DEF Step, ToolReturns, ToolRaises, ToolCommands, ToolTimesOut
<1> QED BY <1>1, <1>2

LEMMA StepIInv ==
  ASSUME IInv, NEW c \in Calls, Step(c)
  PROVE  IInv'
<1>1. PICK u : /\ Move(task[c], u, Len(answers[c]))
               /\ task' = [task EXCEPT ![c] = u]
  BY StepMoves DEF IInv
<1>2. /\ UNCHANGED <<mode, answers, turn>>
      /\ task[c].at \in {"ready", "backoff", "running"}
  BY StepMoves DEF IInv
<1>3. u \in TaskState /\ Asked(u, answers[c])
  <2>1. task[c] \in TaskState /\ answers[c] \in Seq(Answers) /\ Asked(task[c], answers[c])
    BY DEF IInv, TypeOK
  <2> QED BY <2>1, <1>1, <1>2, MoveAsked
<1>4. task' \in [Calls -> TaskState]
  BY <1>1, <1>3 DEF IInv, TypeOK
<1>5. rules' \in [allow : SUBSET Rules, deny : SUBSET Rules, ask : SUBSET Rules]
  BY StepRules, SaveType DEF IInv, TypeOK
<1>6. cache' \in [Calls -> {"none", "ok", "error", "transient", "denied"}]
  BY StepCache DEF IInv, TypeOK, Keep
<1>7. TypeOK'
  BY <1>2, <1>4, <1>5, <1>6 DEF IInv, TypeOK
<1>8. \A d \in Calls : task'[d] = IF d = c THEN u ELSE task[d]
  BY <1>1 DEF IInv, TypeOK
<1>9. (\A d \in Calls : Asked(task[d], answers[d]))'
  BY <1>2, <1>3, <1>8 DEF IInv
<1>10. QuestionsBounded'
  BY <1>2 DEF IInv, QuestionsBounded
<1>11. turn' \in Calls => task'[turn'].at = "asking"
  BY <1>2, <1>8 DEF IInv
<1> QED BY <1>7, <1>9, <1>10, <1>11 DEF IInv

\* An answer is one question more, of an attempt that asked and has none left over.
LEMMA AnswerIInv ==
  ASSUME IInv, NEW c \in Calls, NEW a \in Answers, NEW m \in Modes, Answer(c, a, m)
  PROVE  IInv'
<1>1. /\ answers' = [answers EXCEPT ![c] = Append(answers[c], a)]
      /\ mode' = m /\ turn' = "streaming" /\ UNCHANGED <<rules, cache>> /\ Resume
      /\ turn = c
  BY DEF Answer
<1>2. \A d \in Calls : task'[d] = Fresh \/ (task[d].at = "done" /\ task'[d] = task[d])
  BY <1>1, ResumeStates
<1>3. task' \in [Calls -> TaskState]
  BY <1>1, <1>2, ResumeStates, FreshType DEF IInv, TypeOK
<1>4. answers[c] \in Seq(Answers) /\ answers' \in [Calls -> Seq(Answers)]
  BY <1>1 DEF IInv, TypeOK
<1>5. TypeOK'
  BY <1>1, <1>3, <1>4 DEF IInv, TypeOK, Turns
<1>6. \A d \in Calls : /\ answers[d] \in Seq(Answers) /\ Len(answers[d]) \in Nat
                       /\ Len(answers'[d]) = IF d = c THEN Len(answers[d]) + 1
                                                      ELSE Len(answers[d])
  BY <1>1, <1>4 DEF IInv, TypeOK
<1>7. Len(answers[c]) <= MaxRetries
  <2>1. task[c] \in TaskState /\ Asked(task[c], answers[c]) /\ task[c].at = "asking"
    BY <1>1 DEF IInv, TypeOK
  <2>2. task[c].attempt \in 0..MaxRetries /\ task[c].asked \in Nat
    BY <2>1 DEF TaskState
  <2> QED BY <2>1, <2>2, <1>6, ToolCallAssumption DEF Asked
<1>8. QuestionsBounded'
  BY <1>6, <1>7, ToolCallAssumption DEF IInv, QuestionsBounded
<1>9. ASSUME NEW d \in Calls
      PROVE  Asked(task'[d], answers'[d])
  <2>1. CASE task'[d] = Fresh
    BY <2>1, <1>6 DEF Fresh, Asked
  <2>2. CASE task[d].at = "done" /\ task'[d] = task[d]
    <3>1. task[d] \in TaskState /\ Asked(task[d], answers[d])
      BY DEF IInv, TypeOK
    <3>2. task[d].asked \in Nat
      BY <3>1 DEF TaskState
    <3> QED BY <2>2, <3>1, <3>2, <1>6 DEF Asked
  <2> QED BY <2>1, <2>2, <1>2
<1>10. turn' \notin Calls
  BY <1>1, ToolCallAssumption DEF Turns
<1> QED BY <1>5, <1>8, <1>9, <1>10 DEF IInv

\* The dispatcher's other steps change the turn only.
LEMMA TurnIInv ==
  ASSUME IInv, (\E c \in Calls : Prompt(c)) \/ Fail \/ Cancel \/ Finish \/ UNCHANGED vars
  PROVE  IInv'
<1>1. UNCHANGED <<rules, mode, cache, task, answers>>
  BY DEF Prompt, Fail, Cancel, Finish, vars
<1>2. /\ turn' \in Turns \cup Calls
      /\ turn' \in Calls => task'[turn'].at = "asking"
  <2>1. CASE \E c \in Calls : Prompt(c)
    BY <2>1, <1>1 DEF Prompt
  <2>2. CASE Fail \/ Cancel \/ Finish
    BY <2>2, ToolCallAssumption DEF Fail, Cancel, Finish, Turns
  <2>3. CASE UNCHANGED vars
    BY <2>3 DEF vars, IInv, TypeOK
  <2> QED BY <2>1, <2>2, <2>3
<1>3. TypeOK' /\ QuestionsBounded'
  BY <1>1, <1>2 DEF IInv, TypeOK, QuestionsBounded
<1>4. (\A c \in Calls : Asked(task[c], answers[c]))'
  BY <1>1 DEF IInv
<1> QED BY <1>2, <1>3, <1>4 DEF IInv

LEMMA NextIInv == IInv /\ [Next]_vars => IInv'
<1> SUFFICES ASSUME IInv, [Next]_vars PROVE IInv'
  OBVIOUS
<1>1. CASE \E c \in Calls : Step(c)
  BY <1>1, StepIInv
<1>2. CASE \E c \in Calls, a \in Answers, m \in Modes : Answer(c, a, m)
  BY <1>2, AnswerIInv
<1>3. CASE (\E c \in Calls : Prompt(c)) \/ Fail \/ Cancel \/ Finish \/ UNCHANGED vars
  BY <1>3, TurnIInv
<1> QED BY <1>1, <1>2, <1>3 DEF Next, Over

\* Type correctness, for any calls, rules, modes and answers.
THEOREM PipelineTypes == Spec => []TypeOK
<1>1. IInv => TypeOK
  BY DEF IInv
<1> QED BY <1>1, InitIInv, NextIInv, PTL DEF Spec

\* _handle_approval asks about a call at most once for each attempt of the retry
\* middleware, however many resumed runs replay its answers.
THEOREM QuestionsAreBounded == Spec => []QuestionsBounded
<1>1. IInv => QuestionsBounded
  BY DEF IInv
<1> QED BY <1>1, InitIInv, NextIInv, PTL DEF Spec

-----------------------------------------------------------------------------
(* What is executed *)

\* A message that comes back does not start the tool.
LEMMA ReturnedEnds ==
  ASSUME TypeOK, NEW c \in Calls, NEW m, Returned(c, m)
  PROVE  task'[c].at # "running"
<1>1. task \in [Calls -> TaskState] /\ task[c] \in TaskState
  BY DEF TypeOK
<1>2. CASE task' = [task EXCEPT ![c] = [task[c] EXCEPT !.at = "done"]]
  BY <1>1, <1>2 DEF TaskState
<1>3. CASE task' = [task EXCEPT ![c] = [task[c] EXCEPT !.at = "raised"]]
  BY <1>1, <1>3 DEF TaskState
<1>4. CASE task' = [task EXCEPT ![c] = [task[c] EXCEPT !.at = "backoff",
                                                       !.attempt = task[c].attempt + 1]]
  BY <1>1, <1>4 DEF TaskState
<1> QED BY <1>2, <1>3, <1>4, ReturnedStates

\* A tool is started by an attempt at its call, for which no message is kept.
LEMMA OnlyAttemptStarts ==
  ASSUME TypeOK, [Next]_vars, NEW c \in Calls, Starts(c)
  PROVE  Attempt(c) /\ ~Kept(c) /\ Decide(c)
<1>1. CASE Attempt(c)
  BY <1>1, ReturnedEnds DEF Attempt, Reuse, Starts
<1>2. CASE Step(c) /\ ~Attempt(c)
  BY <1>2 DEF Step, ToolReturns, ToolRaises, ToolCommands, ToolTimesOut, Starts
<1>3. CASE \E d \in Calls \ {c} : Step(d)
  BY <1>3, StepMoves DEF TypeOK, Starts
<1>4. CASE \E d \in Calls, a \in Answers, m \in Modes : Answer(d, a, m)
  <2>1. task'[c] = Fresh \/ task'[c] = task[c]
    BY <1>4, ResumeStates DEF Answer
  <2> QED BY <2>1 DEF Fresh, Starts
<1>5. CASE UNCHANGED task
  BY <1>5 DEF Starts
<1>6. CASE (\E d \in Calls : Prompt(d)) \/ Fail \/ Cancel \/ Finish \/ UNCHANGED vars
  BY <1>5, <1>6 DEF Prompt, Fail, Cancel, Finish, vars
<1> QED BY <1>1, <1>2, <1>3, <1>4, <1>6 DEF Next, Over

-----------------------------------------------------------------------------
(* Deny rules *)

\* A denied call does not start: no mode bypasses the rule, it is looked up before
\* an allow rule, and the call is not asked about.
LEMMA DenyStep ==
  ASSUME IInv, [Next]_vars, NEW c \in Calls \ Trusted, Matched(rules.deny, c)
  PROVE  ~Starts(c)
<1>1. Denied(c) /\ ~Allowed(c) /\ ~Open(c)
  BY DEF Denied, Allowed, Open, Bypass
<1>2. ASSUME Decide(c)
      PROVE  task'[c].at # "running"
  <2>1. Refuse(c, task[c].asked)
    BY <1>1, <1>2 DEF Decide
  <2>2. task \in [Calls -> TaskState] /\ task[c] \in TaskState
    BY DEF IInv, TypeOK
  <2> QED BY <2>1, <2>2 DEF Refuse, Set, TaskState
<1> QED BY <1>2, OnlyAttemptStarts DEF IInv, Starts

\* No always_deny rule is ever stepped over: in every mode, at every attempt, and
\* for rules the user makes while the call waits.
THEOREM DenyRulesHold == Spec => DenyRuleHolds
<1>1. IInv /\ [Next]_vars
        => [\A c \in Calls \ Trusted : Matched(rules.deny, c) => ~Starts(c)]_vars
  BY DenyStep
<1> QED BY <1>1, InitIInv, NextIInv, PTL DEF Spec, DenyRuleHolds

\* An answer replaces only the rule of its own call, and a call that is asked about
\* is covered by no deny rule, so none is lost.
LEMMA SaveKeepsDeny ==
  ASSUME TypeOK, NEW c \in Calls, Open(c), NEW l \in {"allow", "deny"}, Save(c, l)
  PROVE  rules.deny \subseteq rules'.deny
<1>1. Own[c] \notin rules.deny
  BY ToolCallAssumption DEF Open, Allowed, Denied, Matched
<1> DEFINE own == {Own[c]}
           kept == [rules EXCEPT !.allow = @ \ own, !.deny = @ \ own]
           asks == IF Matched(rules.ask, c) THEN rules.ask \ own ELSE rules.ask
<1>2. rules \in [allow : SUBSET Rules, deny : SUBSET Rules, ask : SUBSET Rules]
  BY DEF TypeOK
<1>3. rules.deny \ own = rules.deny
  BY <1>1
<1> HIDE DEF own, asks
<1>4. /\ kept.deny = rules.deny \ own
      /\ DOMAIN kept = {"allow", "deny", "ask"}
  BY <1>2
<1> HIDE DEF kept
<1>5. CASE l = "allow"
  <2>1. rules' = [kept EXCEPT !.allow = kept.allow \cup own, !.ask = asks]
    BY <1>5 DEF Save, kept, asks, own
  <2> QED BY <2>1, <1>3, <1>4
<1>6. CASE l = "deny"
  <2>1. rules' = [kept EXCEPT !.deny = kept.deny \cup own, !.ask = asks]
    BY <1>6 DEF Save, kept, asks, own
  <2> QED BY <2>1, <1>3, <1>4
<1> QED BY <1>5, <1>6

LEMMA DenyStays ==
  ASSUME IInv, [Next]_vars
  PROVE  rules.deny \subseteq rules'.deny
<1>1. CASE \E d \in Calls : Step(d)
  BY <1>1, StepRules, SaveKeepsDeny DEF IInv
<1>2. CASE UNCHANGED rules
  BY <1>2
<1>3. CASE ~\E d \in Calls : Step(d)
  BY <1>2, <1>3 DEF Next, Over, Prompt, Answer, Fail, Cancel, Finish, vars
<1> QED BY <1>1, <1>3

\* What the user denied for good stays denied, whatever is answered to other calls.
THEOREM DenialsPersist == Spec => DenyPersists
<1>1. IInv /\ [Next]_vars
        => [\A c \in Calls : Matched(rules.deny, c) => Matched(rules'.deny, c)]_vars
  BY DenyStays DEF Matched
<1> QED BY <1>1, InitIInv, NextIInv, PTL DEF Spec, DenyPersists

-----------------------------------------------------------------------------
(* How often a call is executed *)

\* The executions of a task since it was last made: one for each attempt before the
\* current one, and one more when this one has got to the tool.
Made(t) == t.attempt + (IF t.at \in {"ready", "backoff", "asking"} THEN 0 ELSE 1)

RInv ==
  /\ IInv
  /\ prompts \in Nat /\ ran \in [Calls -> Nat]
  /\ \A c \in Calls : ran[c] <= (MaxRetries + 1) * prompts + Made(task[c])

LEMMA MadeBounds ==
  ASSUME NEW t \in TaskState
  PROVE  Made(t) \in Nat /\ Made(t) <= MaxRetries + 1
BY ToolCallAssumption DEF Made, TaskState

\* One question more is worth all attempts of a call.
LEMMA OneMore ==
  ASSUME NEW n \in Nat
  PROVE  /\ (MaxRetries + 1) * n \in Nat
         /\ (MaxRetries + 1) * (n + 1) = (MaxRetries + 1) * n + (MaxRetries + 1)
<1>1. MaxRetries + 1 \in Nat
  BY ToolCallAssumption
<1>2. \A m \in Nat : m * n \in Nat /\ m * (n + 1) = m * n + m
  OBVIOUS
<1> QED BY <1>1, <1>2, ToolCallAssumption

\* A task's own step gives nothing back, and counts the execution it starts.
LEMMA MoveMade ==
  ASSUME NEW t \in TaskState, NEW u \in TaskState, NEW n \in Nat, Move(t, u, n),
         t.at \in {"ready", "backoff", "running"}
  PROVE  /\ Made(u) >= Made(t)
         /\ t.at # "running" /\ u.at = "running" => Made(u) = Made(t) + 1
<1>1. t.attempt \in Nat /\ u.attempt \in Nat
  BY ToolCallAssumption DEF TaskState
<1>2. CASE u.attempt = t.attempt /\ u.at \in {"done", "raised"}
  BY <1>1, <1>2 DEF Made
<1>3. CASE u.attempt = t.attempt /\ t.at \in {"ready", "backoff"}
  BY <1>1, <1>3 DEF Made
<1>4. CASE u.attempt = t.attempt + 1 /\ u.at = "backoff"
  BY <1>1, <1>4 DEF Made
<1>5. \/ u.attempt = t.attempt /\ u.at \in {"done", "raised"}
      \/ u.attempt = t.attempt /\ t.at \in {"ready", "backoff"}
      \/ u.attempt = t.attempt + 1 /\ u.at = "backoff"
  BY DEF Move, TaskState
<1> QED BY <1>2, <1>3, <1>4, <1>5

LEMMA RepeatsStep ==
  ASSUME RInv, [RNext]_rvars
  PROVE  RInv'
<1>1. IInv /\ [Next]_vars /\ IInv' /\ MaxRetries \in Nat
  BY NextIInv, ToolCallAssumption DEF RInv, RNext, rvars
<1>2. /\ prompts \in Nat /\ prompts' \in Nat
      /\ (MaxRetries + 1) * prompts \in Nat /\ (MaxRetries + 1) * prompts' \in Nat
      /\ (MaxRetries + 1) * prompts' >= (MaxRetries + 1) * prompts
  <2>1. prompts \in Nat /\ (prompts' = prompts \/ prompts' = prompts + 1)
    BY DEF RInv, RNext, rvars
  <2> QED BY <1>1, <2>1, OneMore
<1>3. ASSUME NEW c \in Calls
      PROVE  /\ ran[c] \in Nat /\ ran[c] <= (MaxRetries + 1) * prompts + Made(task[c])
             /\ ran'[c] = IF Starts(c) THEN ran[c] + 1 ELSE ran[c]
  BY DEF RInv, RNext, rvars, vars, Starts
<1>4. ran' \in [Calls -> Nat]
  BY DEF RInv, RNext, rvars
<1>5. ASSUME NEW c \in Calls
      PROVE  /\ task[c] \in TaskState /\ task'[c] \in TaskState
             /\ Made(task[c]) \in Nat /\ Made(task[c]) <= MaxRetries + 1
             /\ Made(task'[c]) \in Nat
  BY <1>1, MadeBounds DEF IInv, TypeOK
<1>6. ASSUME NEW c \in Calls
      PROVE  ran'[c] <= (MaxRetries + 1) * prompts' + Made(task'[c])
  <2>1. CASE \E d \in Calls : Step(d)
    <3>1. PICK d \in Calls : Step(d)
      BY <2>1
    <3>2. PICK u : Move(task[d], u, Len(answers[d])) /\ task' = [task EXCEPT ![d] = u]
      BY <1>1, <3>1, StepMoves DEF IInv
    <3>3. CASE c = d
      <4>1. task'[c] = u /\ u \in TaskState /\ Len(answers[c]) \in Nat
        BY <1>1, <1>5, <3>2, <3>3 DEF IInv, TypeOK
      <4>2. task[c].at \in {"ready", "backoff", "running"}
        BY <1>1, <3>1, <3>3, StepMoves DEF IInv
      <4>3. /\ Made(task'[c]) >= Made(task[c])
            /\ Starts(c) => Made(task'[c]) = Made(task[c]) + 1
        BY <1>5, <3>2, <3>3, <4>1, <4>2, MoveMade DEF Starts
      <4> QED BY <1>2, <1>3, <1>5, <4>3
    <3>4. CASE c # d
      <4>1. task'[c] = task[c]
        BY <1>1, <3>2, <3>4 DEF IInv, TypeOK
      <4>2. ~Starts(c)
        BY <4>1 DEF Starts
      <4> QED BY <1>2, <1>3, <1>5, <4>1, <4>2
    <3> QED BY <3>3, <3>4
  <2>2. CASE \E d \in Calls, a \in Answers, m \in Modes : Answer(d, a, m)
    <3>1. task'[c] = Fresh \/ task'[c] = task[c]
      BY <2>2, ResumeStates DEF Answer
    <3>2. ~Starts(c)
      BY <3>1 DEF Fresh, Starts
    <3>3. prompts' = prompts + 1
      <4>1. turn \in Calls /\ turn' \notin Calls
        BY <2>2, ToolCallAssumption DEF Answer, Turns
      <4>2. RNext
        BY <4>1 DEF rvars, vars
      <4> QED BY <4>1, <4>2 DEF RNext
    <3>4. (MaxRetries + 1) * prompts' = (MaxRetries + 1) * prompts + (MaxRetries + 1)
      BY <1>2, <3>3, OneMore
    <3>5. \A p, q, k, r, t \in Nat : r <= p + k /\ k <= t /\ q = p + t => r <= q
      OBVIOUS
    <3>6. ran'[c] \in Nat /\ ran'[c] <= (MaxRetries + 1) * prompts + Made(task[c])
      BY <1>3, <3>2
    <3>7. ran'[c] <= (MaxRetries + 1) * prompts'
      <4>1. MaxRetries + 1 \in Nat
        BY <1>1
      <4> QED BY <1>2, <1>5, <3>4, <3>5, <3>6, <4>1
    <3>8. \A r, q, k \in Nat : r <= q => r <= q + k
      OBVIOUS
    <3> QED BY <1>2, <1>5, <3>6, <3>7, <3>8
  <2>3. CASE UNCHANGED task
    <3>1. ~Starts(c) /\ task'[c] = task[c]
      BY <2>3 DEF Starts
    <3> QED BY <1>2, <1>3, <1>5, <3>1
  <2>4. CASE (\E d \in Calls : Prompt(d)) \/ Fail \/ Cancel \/ Finish \/ UNCHANGED vars
    BY <2>3, <2>4 DEF Prompt, Fail, Cancel, Finish, vars
  <2> QED BY <1>1, <2>1, <2>2, <2>4 DEF Next, Over
<1> QED BY <1>1, <1>2, <1>4, <1>6 DEF RInv

\* However the questions, resumes, retries and timeouts of parallel calls fall, no call
\* runs more often than the questions answered in the turn account for.
THEOREM RepeatsAreBounded == RSpec => []RepeatsBounded
<1>1. RInit => RInv
  <2> SUFFICES ASSUME RInit PROVE RInv
    OBVIOUS
  <2>1. IInv /\ prompts = 0 /\ ran = [c \in Calls |-> 0] /\ task = [c \in Calls |-> Fresh]
    BY InitIInv DEF RInit, Init
  <2>2. (MaxRetries + 1) * 0 \in Nat /\ Made(Fresh) \in Nat
    BY OneMore, MadeBounds, FreshType
  <2> QED BY <2>1, <2>2 DEF RInv
<1>2. RInv => RepeatsBounded
  <2> SUFFICES ASSUME RInv, NEW c \in Calls
               PROVE  ran[c] <= (MaxRetries + 1) * (prompts + 1)
    BY DEF RepeatsBounded
  <2>1. /\ prompts \in Nat /\ ran[c] \in Nat /\ MaxRetries \in Nat
        /\ ran[c] <= (MaxRetries + 1) * prompts + Made(task[c])
    BY ToolCallAssumption DEF RInv
  <2>2. Made(task[c]) \in Nat /\ Made(task[c]) <= MaxRetries + 1
    BY MadeBounds DEF RInv, IInv, TypeOK
  <2>3. /\ (MaxRetries + 1) * prompts \in Nat
        /\ (MaxRetries + 1) * (prompts + 1) = (MaxRetries + 1) * prompts + (MaxRetries + 1)
    BY <2>1, OneMore
  <2> QED BY <2>1, <2>2, <2>3
<1>3. RInv /\ [RNext]_rvars => RInv'
  BY RepeatsStep
<1> QED BY <1>1, <1>2, <1>3, PTL DEF RSpec
=============================================================================
