---------------------------- MODULE TokenBucket ----------------------------
(* The rate limiter of utils/rate_limiter.py: callers that wait, polling, for  *)
(* tokens of two buckets.  The lock around _consume makes each poll one step.  *)
(* (No caller asks for output tokens, so the third bucket stays full.)  Time   *)
(* is counted in ticks, and a measured period, which may begin at any tick,    *)
(* records what callers were given in it.                                      *)
EXTENDS Integers, FiniteSets

CONSTANTS Callers,      \* threads and coroutines that call a model
          Size,         \* max_bucket_size
          Burst,        \* tokens a bucket holds for each request of Size: 100
          Rate,         \* bucket -> what a tick adds
          Inputs,       \* estimates of input tokens, 0 for acquire
          MaxRequests,  \* bound: calls made
          Horizon,      \* bound: ticks between two calls that are let through
          MaxPeriod     \* bound: ticks of a measured period

Buckets == {"request", "input"}

ASSUME BucketAssumption ==
  /\ Size \in Nat \ {0} /\ Burst \in Nat \ {0}
  /\ Rate \in [Buckets -> Nat \ {0}]
  /\ Inputs \subseteq Nat
  /\ MaxRequests \in Nat /\ Horizon \in Nat /\ MaxPeriod \in Nat

VARIABLES bucket,   \* request_bucket and input_token_bucket
          elapsed,  \* ticks since last_update_time
          waiting,  \* caller -> the input tokens it waits for, -1 if it is not waiting
          calls,    \* calls made
          period,   \* ticks since the measured period began
          given     \* bucket -> tokens taken from it in that period
bucketVars == <<bucket, elapsed, waiting, calls, period, given>>

Capacity(b) == IF b = "request" THEN Size ELSE Size * Burst

BucketInit ==
  /\ bucket = [b \in Buckets |-> Capacity(b)]
  /\ elapsed = 0
  /\ waiting = [c \in Callers |-> -1]
  /\ calls = 0
  /\ period = 0
  /\ given = [b \in Buckets |-> 0]

-----------------------------------------------------------------------------
\* What a bucket would hold after the refill.
Unlimited(b) == bucket[b] + elapsed * Rate[b]  \* mutant: no min
Refilled(b) ==
  LET level == bucket[b] + elapsed * Rate[b]
  IN IF level > Capacity(b) THEN Capacity(b) ELSE level

Need(c, b) == IF b = "request" THEN 1 ELSE waiting[c]

EnoughToSpare(c) == \A b \in Buckets : Refilled(b) > Need(c, b)  \* mutant: > for >=
Enough(c) == \A b \in Buckets : Refilled(b) >= Need(c, b)

\* A blocking acquire, or a call with so many input tokens.
Arrive(c) ==
  /\ waiting[c] = -1 /\ calls < MaxRequests
  /\ \E n \in Inputs : waiting' = [waiting EXCEPT ![c] = n]
  /\ calls' = calls + 1
  /\ UNCHANGED <<bucket, elapsed, period, given>>

Stale(c) ==  \* mutant: last_update_time is not set
  /\ waiting[c] # -1 /\ Enough(c)
  /\ bucket' = [b \in Buckets |-> Refilled(b) - Need(c, b)]
  /\ given' = [b \in Buckets |-> given[b] + Need(c, b)]
  /\ waiting' = [waiting EXCEPT ![c] = -1]
  /\ UNCHANGED <<elapsed, calls, period>>
\* A poll that succeeds; one that does not leaves everything as it is.
Consume(c) ==
  /\ waiting[c] # -1 /\ Enough(c)
  /\ bucket' = [b \in Buckets |-> Refilled(b) - Need(c, b)]
  /\ elapsed' = 0
  /\ given' = [b \in Buckets |-> given[b] + Need(c, b)]
  /\ waiting' = [waiting EXCEPT ![c] = -1]
  /\ UNCHANGED <<calls, period>>

\* A caller of aacquire is cancelled while it sleeps between two polls.
Leave(c) ==
  /\ waiting[c] # -1
  /\ waiting' = [waiting EXCEPT ![c] = -1]
  /\ UNCHANGED <<bucket, elapsed, calls, period, given>>

Tick ==
  /\ elapsed < Horizon
  /\ elapsed' = elapsed + 1
  /\ \/ period < MaxPeriod /\ period' = period + 1 /\ UNCHANGED given
     \/ period' = 0 /\ given' = [b \in Buckets |-> 0]
  /\ UNCHANGED <<bucket, waiting, calls>>

BucketNext == Tick \/ \E c \in Callers : Arrive(c) \/ Consume(c) \/ Leave(c)

BucketSpec == BucketInit /\ [][BucketNext]_bucketVars

\* Time passes, and a caller polls again and again (check_every_n_seconds).
FairSpec == BucketSpec /\ WF_bucketVars(Tick) /\ \A c \in Callers : WF_bucketVars(Consume(c))

-----------------------------------------------------------------------------
(* Properties *)

\* Every variable has the values its declaration says: no bucket is overdrawn or
\* holds more than its capacity.
TypeOK ==
  /\ bucket \in [Buckets -> Nat] /\ \A b \in Buckets : bucket[b] <= Capacity(b)
  /\ elapsed \in 0..Horizon
  /\ waiting \in [Callers -> Inputs \cup {-1}]
  /\ calls \in 0..MaxRequests
  /\ period \in 0..MaxPeriod
  /\ given \in [Buckets -> Nat]

\* In any period, whenever it begins and however callers interleave, no more is
\* taken from a bucket than one burst and what the rate allows.
WithinRate == \A b \in Buckets : given[b] <= Capacity(b) + period * Rate[b]

\* A caller that asks for no more than a bucket can hold gets through, once others
\* stop calling.
Served ==
  \A c \in Callers : waiting[c] \in 0..Capacity("input") ~> waiting[c] = -1
=============================================================================
