-------------------------- MODULE RuntimeRequests --------------------------
(***************************************************************************)
(* The vocabulary of HarnessRuntime.execute that the generated runtimes    *)
(* of all languages share: the options, the requests, the routes of a      *)
(* request, the kinds of failure, and the CircuitBreaker of a route        *)
(* (src/extensions/runtimes/typescript.ts), as a value and the values its  *)
(* methods leave.                                                          *)
(***************************************************************************)
EXTENDS Integers, Sequences, FiniteSets

CONSTANTS
  Requests,        \* the requests, each of which is executed once
  MaxConcurrency,  \* options.maxConcurrency
  MaxAttempts,     \* options.retry.maxAttempts
  Routes,          \* the names of routes
  RouteOf,         \* RouteOf[r]: request.route
  FallbackRoutes,  \* options.fallbackRoutes
  Adapters,        \* the routes in the AdapterRegistry
  Keys,            \* the cache keys
  KeyOf,           \* KeyOf[r]: executeOptions.cacheKey, or None
  None,
  Rejections,      \* what may reject a request before it is sent
  Replies,         \* the results adapters may give
  Verdicts,        \* what may become of an answer
  FailureThreshold, ResetAfterMs, HalfOpenMaxAttempts  \* options.circuitBreaker

\* The failures no fallback route may follow, and the results of adapters.
PolicyKinds == {"guard-rejected", "approval-required", "budget-exhausted"}
Answer == [kind |-> "success", retryable |-> FALSE]
TimedOut == [kind |-> "timeout", retryable |-> TRUE]
Cancelled == [kind |-> "cancelled", retryable |-> FALSE]
FailureKinds ==
  PolicyKinds \cup {"provider", "rate-limit", "timeout", "circuit-open", "invalid-output", "cancelled"}

ASSUME RuntimeAssumption ==
  /\ IsFiniteSet(Requests)
  /\ {MaxConcurrency, MaxAttempts} \subseteq Nat \ {0}
  /\ RouteOf \in [Requests -> Routes]
  /\ FallbackRoutes \in Seq(Routes)
  /\ Adapters \subseteq Routes
  /\ KeyOf \in [Requests -> Keys \cup {None}]
  /\ Rejections \subseteq PolicyKinds
  /\ Replies \subseteq [kind : FailureKinds, retryable : BOOLEAN] \cup {Answer}
  /\ Verdicts \subseteq {"valid", "invalid-output", "guard-rejected", "budget-exhausted"}

\* request.route and the fallback routes, each the first time it occurs.
RoutesOf(r) ==
  LET all == <<RouteOf[r]>> \o FallbackRoutes
      First(i) == \A j \in 1 .. i - 1 : all[j] # all[i]
      Later(i) == Cardinality({j \in 1 .. i : First(j)})
  IN  [n \in 1 .. Cardinality({i \in 1 .. Len(all) : First(i)}) |->
         all[CHOOSE i \in 1 .. Len(all) : First(i) /\ Later(i) = n]]

-----------------------------------------------------------------------------
(* The CircuitBreaker.  The clock is kept relative: openFor is the time    *)
(* since #openedAt, as far as it is compared.  #failures is compared with  *)
(* the threshold only, so it is kept up to there.                          *)

ASSUME BreakerAssumption ==
  {FailureThreshold, ResetAfterMs, HalfOpenMaxAttempts} \subseteq Nat \ {0}

Breakers ==
  [state : {"closed", "open", "half-open"}, failures : 0 .. FailureThreshold,
   openFor : 0 .. ResetAfterMs, probes : 0 .. HalfOpenMaxAttempts]

Closed == [state |-> "closed", failures |-> 0, openFor |-> 0, probes |-> 0]

\* state: looking at an open breaker after the reset time half-opens it.
Seen(b) ==
  IF b.state = "open" /\ b.openFor >= ResetAfterMs
  THEN [b EXCEPT !.state = "half-open", !.openFor = 0, !.probes = 0]
  ELSE b

\* allow: whether, and what it leaves: a half-open breaker counts its probes.
Allows(b) ==
  \/ Seen(b).state = "closed"
  \/ Seen(b).state = "half-open" /\ Seen(b).probes < HalfOpenMaxAttempts

Admitted(b) ==
  IF Allows(b) /\ Seen(b).state = "half-open" THEN [Seen(b) EXCEPT !.probes = @ + 1] ELSE Seen(b)

\* Seeded fault: a failed probe is only counted.
Failure_KeepsHalfOpen(b) ==
  IF b.state # "half-open" /\ b.failures + 1 >= FailureThreshold
  THEN [state |-> "open", failures |-> FailureThreshold, openFor |-> 0, probes |-> 0]
  ELSE [b EXCEPT !.failures = IF b.failures < FailureThreshold THEN @ + 1 ELSE @]

\* failure.
Failure(b) ==
  IF b.state = "half-open" \/ b.failures + 1 >= FailureThreshold
  THEN [state |-> "open", failures |-> FailureThreshold, openFor |-> 0, probes |-> 0]
  ELSE [b EXCEPT !.failures = @ + 1]

\* success.
Success(b) == Closed

\* Time passes.
Aged(b) ==
  IF b.state = "open" /\ b.openFor < ResetAfterMs THEN [b EXCEPT !.openFor = @ + 1] ELSE b
=============================================================================
