-------------------------- MODULE MCHarnessRuntime --------------------------
(* Small instances of HarnessRuntime for TLC: one request alone and two of *)
(* a batch that share a signal and a cache key; a primary route c1, a      *)
(* second one c2, and c3, which has no adapter.                            *)
EXTENDS HarnessRuntime

CONSTANTS r1, r2, r3, s1, s2, c1, c2, c3, k

TwoRequests == {r1, r2}
ThreeRequests == {r1, r2, r3}
TwoSignals == {s1, s2}
AllRoutes == {c1, c2, c3}
Registered == {c1, c2}
OneKey == {k}

Batch == [r \in Requests |-> IF r = r1 THEN s1 ELSE s2]
OnlyBatch == {s2}
Cached == [r \in Requests |-> IF r = r1 THEN None ELSE k]

\* A fallback from a missing route, from a registered one, and to itself.
Different == [r \in Requests |-> IF r = r1 THEN c3 ELSE IF r = r2 THEN c2 ELSE c1]
Primary == [r \in Requests |-> c1]
ToPrimary == <<c1>>
NoFallback == <<>>

Nobody == {}
GuardRejects == {"guard-rejected"}
AllVerdicts == {"valid", "invalid-output", "guard-rejected", "budget-exhausted"}
SomeVerdicts == {"valid", "invalid-output", "guard-rejected"}
RateLimited == [kind |-> "rate-limit", retryable |-> TRUE]
Refused == [kind |-> "guard-rejected", retryable |-> FALSE]
Unavailable == [kind |-> "provider", retryable |-> FALSE]
AllReplies == {Answer, RateLimited, Cancelled, Refused, Unavailable}
SomeReplies == {Answer, RateLimited, Refused}
=============================================================================
