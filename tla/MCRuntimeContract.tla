------------------------- MODULE MCRuntimeContract -------------------------
(* A small instance of RuntimeContract for TLC: one request alone and two  *)
(* of a batch that share a caller; a route c1 with a fallback c2, and c3,  *)
(* which has no adapter.                                                   *)
EXTENDS RuntimeContract

CONSTANTS r1, r2, r3, a, b, c1, c2, c3, k

TwoRequests == {r1, r2}
ThreeRequests == {r1, r2, r3}
TwoCallers == {a, b}
Batch == [r \in Requests |-> IF r = r1 THEN a ELSE b]
BatchEnds == [c \in Callers |-> IF c = a THEN {} ELSE {"cancelled", "expired"}]
AllRoutes == {c1, c2, c3}
Registered == {c1, c2}
Different == [r \in Requests |-> IF r = r1 THEN c3 ELSE c1]
ToSecond == <<c2>>
OneKey == {k}
Cached == [r \in Requests |-> k]
GuardRejects == {"guard-rejected"}
SomeVerdicts == {"valid", "invalid-output", "guard-rejected"}
RateLimited == [kind |-> "rate-limit", retryable |-> TRUE]
Refused == [kind |-> "guard-rejected", retryable |-> FALSE]
SomeReplies == {Answer, RateLimited, Refused}
AllLanguages == {"python", "go", "rust"}
=============================================================================
