--------------------------- MODULE MCTokenBucket ---------------------------
(* A bucket of two requests, with estimates up to what its token bucket holds. *)
EXTENDS TokenBucket

Rates == [b \in Buckets |-> IF b = "request" THEN 1 ELSE 2]
=============================================================================
