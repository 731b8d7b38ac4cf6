------------------------------ MODULE Repeats ------------------------------
(* How often the tools of one message run.  A question closes the stream, which  *)
(* cancels the calls beside the one asked about, and the resumed run starts them *)
(* again with all their attempts (cli/dispatchers/messages.py:275-290).  The two *)
(* variables are history: they record what ToolCalls does and decide nothing.    *)
EXTENDS ToolCalls

VARIABLES ran,      \* how often the tool of each call has been started
          prompts   \* how many questions have been answered
rvars == <<vars, ran, prompts>>

RInit == Init /\ ran = [c \in Calls |-> 0] /\ prompts = 0

RNext ==
  /\ Next
  /\ ran' = [c \in Calls |-> IF Starts(c) THEN ran[c] + 1 ELSE ran[c]]
  /\ prompts' = IF turn \in Calls /\ turn' \notin Calls THEN prompts + 1 ELSE prompts

RSpec == RInit /\ [][RNext]_rvars
RFairSpec == RSpec /\ Fairness

\* Each question that is answered buys a call at most MaxRetries + 1 executions more,
\* whatever was running, backing off, finished or kept when the stream was closed.
RepeatsBounded == \A c \in Calls : ran[c] <= (MaxRetries + 1) * (prompts + 1)
=============================================================================
