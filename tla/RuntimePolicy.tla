---------------------------- MODULE RuntimePolicy ----------------------------
(***************************************************************************)
(* From a configuration that loads to the options of the generated         *)
(* runtimes: resolveRuntimePolicy (src/core/model.ts), the policy.*        *)
(* artifacts (src/extensions/runtimes/policy.ts) and the constructors of   *)
(* the runtimes.  The options are compiled into source of five languages;  *)
(* of that source the model keeps the numbers and how they are spelled,    *)
(* and how long each runtime waits before it tries again.                  *)
(***************************************************************************)
EXTENDS SpecDocument

CONSTANT TargetLanguages  \* of "typescript", "javascript", "python", "go" and "rust"

\* PRODUCTION_RUNTIME_POLICY.
Production ==
  [reliability |->
     [timeoutMs |-> 30000,
      retry |-> [kind |-> "bounded", maxAttempts |-> 3, baseDelayMs |-> 250, maxDelayMs |-> 4000,
                 jitterRatio |-> 200000],
      circuitBreaker |-> [kind |-> "failure-threshold", failureThreshold |-> 5, resetAfterMs |-> 30000,
                          halfOpenMaxAttempts |-> 1],
      fallback |-> [kind |-> "disabled"],
      maxRepairAttempts |-> 1],
   performance |->
     [cache |-> [kind |-> "disabled"],
      tokenBudget |-> [kind |-> "limited", maxInputTokens |-> 32000, maxOutputTokens |-> 4096],
      costBudget |-> [kind |-> "disabled"],
      maxConcurrency |-> 8,
      maxBatchSize |-> 16]]

Resolved(profile) == IF profile.kind = "production" THEN Production ELSE profile

\* runtimeOptionValues: what is switched off is Unlimited, or tried only once.
OptionValues(policy) ==
  LET retry == policy.reliability.retry
      circuit == policy.reliability.circuitBreaker
      fallback == policy.reliability.fallback
      tokens == policy.performance.tokenBudget
      cost == policy.performance.costBudget
      once == [maxAttempts |-> 1, baseDelayMs |-> 0, maxDelayMs |-> 0, jitterRatio |-> 0]
      attempts == IF retry.kind = "bounded" THEN retry ELSE once
      Of(v, kind, k, other) == IF v.kind = kind THEN v[k] ELSE other
  IN  [timeoutMs |-> policy.reliability.timeoutMs,
       maxAttempts |-> attempts.maxAttempts,
       baseDelayMs |-> attempts.baseDelayMs,
       maxDelayMs |-> attempts.maxDelayMs,
       jitterRatio |-> attempts.jitterRatio,
       fallbackRoutes |-> Of(fallback, "ordered", "routes", <<>>),
       maxRepairAttempts |-> policy.reliability.maxRepairAttempts,
       maxInputTokens |-> Of(tokens, "limited", "maxInputTokens", Unlimited),
       maxOutputTokens |-> Of(tokens, "limited", "maxOutputTokens", Unlimited),
       maxEstimatedCostUsd |-> Of(cost, "limited", "maxEstimatedCostUsd", Unlimited),
       maxConcurrency |-> policy.performance.maxConcurrency,
       maxBatchSize |-> policy.performance.maxBatchSize,
       circuitFailureThreshold |-> Of(circuit, "failure-threshold", "failureThreshold", Unlimited),
       circuitResetAfterMs |-> Of(circuit, "failure-threshold", "resetAfterMs", Unlimited),
       circuitHalfOpenMaxAttempts |-> Of(circuit, "failure-threshold", "halfOpenMaxAttempts", 1)]

\* A fraction that happens to be whole is printed without a point.
PrintedWhole(fraction) == fraction # Unlimited /\ fraction % Million = 0

\* rustPolicyArtifact puts jitter_ratio: f64 and max_estimated_cost_usd:
\* Option<f64>; Rust takes no integer literal for either.
RustCompiles(o) == ~PrintedWhole(o.jitterRatio) /\ ~PrintedWhole(o.maxEstimatedCostUsd)

\* goPolicyArtifact takes the type of `cost` from its literal and its address for
\* a *float64; JitterRatio is a field, which takes an integer constant.
GoCompiles(o) == ~PrintedWhole(o.maxEstimatedCostUsd)

Compiles(language, o) ==
  /\ language = "rust" => RustCompiles(o)
  /\ language = "go" => GoCompiles(o)

\* What the constructor of HarnessRuntime asks of its options, in each language;
\* the largest number of the language stands for Unlimited.
Constructs(o) ==
  \A k \in {"timeoutMs", "maxAttempts", "maxConcurrency", "maxBatchSize", "circuitFailureThreshold",
            "circuitResetAfterMs", "circuitHalfOpenMaxAttempts"} :
    o[k] = Unlimited \/ o[k] >= 1

\* The options of the runtimes that are generated for a loaded configuration.
Generated ==
  IF report = {} /\ document.runtime.kind = "enabled"
  THEN {OptionValues(Resolved(document.runtime.profile))}
  ELSE {}

-----------------------------------------------------------------------------
(* The retry delays.  Every language counts and rounds in its own way, and *)
(* so do these operators.  A delay is in units of 1/400 ms, in which a     *)
(* jitter of whole percents times a random sample of whole quarters is     *)
(* exact.                                                                  *)

Units == 400  \* in a millisecond

\* The options of a policy: [baseDelayMs, maxDelayMs, jitterRatio], the ratio in
\* millionths.  The sample is what the source of random numbers returns.
Percent(o) == o.jitterRatio \div 10000
Least(m, n) == IF m <= n THEN m ELSE n
Clamped(sample) == IF sample < 0 THEN 0 ELSE Least(sample, 4)

\* The base, doubled with every attempt up to the maximum.
Bounded(attempt, o) == Least(o.maxDelayMs, o.baseDelayMs * 2^(attempt - 1))

\* bounded + jitter, before it is rounded.
Exact(bounded, o, sample) == bounded * (Units + Percent(o) * Clamped(sample))

\* Math.round: a half goes up.
HalfUp(delay) == ((delay + Units \div 2) \div Units) * Units

\* round(): a half goes to the even number.
HalfEven(delay) ==
  LET whole == delay \div Units
      rest == delay % Units
      up == rest > Units \div 2 \/ (rest = Units \div 2 /\ whole % 2 = 1)
  IN  (IF up THEN whole + 1 ELSE whole) * Units

\* retryDelayMs.
TypeScriptDelay(attempt, o, sample) == HalfUp(Exact(Bounded(attempt, o), o, sample))
JavaScriptDelay(attempt, o, sample) == HalfUp(Exact(Bounded(attempt, o), o, sample))

\* retry_delay_ms.
PythonDelay(attempt, o, sample) == HalfEven(Exact(Bounded(attempt, o), o, sample))

\* RetryDelay: a time.Duration counts nanoseconds, 2,500 to the unit.
GoDelay(attempt, o, sample) ==
  LET doubled == o.baseDelayMs * 2^(attempt - 1)
      bounded == IF doubled > o.maxDelayMs THEN o.maxDelayMs ELSE doubled
  IN  Exact(bounded, o, sample)

\* Seeded fault: the delay is doubled before the first retry.
RustDelay_ShiftsAll(attempt, o, sample) ==
  Exact(Least(o.baseDelayMs * 2^Least(attempt, 31), o.maxDelayMs), o, sample)

\* retry_delay, with std::time::Duration.
RustDelay(attempt, o, sample) ==
  LET exponent == Least(attempt - 1, 31)
  IN  Exact(Least(o.baseDelayMs * 2^exponent, o.maxDelayMs), o, sample)

Delay(language, attempt, o, sample) ==
  CASE language = "typescript" -> TypeScriptDelay(attempt, o, sample)
    [] language = "javascript" -> JavaScriptDelay(attempt, o, sample)
    [] language = "python" -> PythonDelay(attempt, o, sample)
    [] language = "go" -> GoDelay(attempt, o, sample)
    [] language = "rust" -> RustDelay(attempt, o, sample)

-----------------------------------------------------------------------------

\* The delay without jitter, one attempt after the other.
Backoff(o) ==
  LET wait[n \in 1 .. o.maxAttempts] ==
        IF n = 1 THEN Least(o.baseDelayMs, o.maxDelayMs) ELSE Least(2 * wait[n - 1], o.maxDelayMs)
  IN  wait

\* The retries of a policy back off as it says, in every language: the delay
\* doubles from the base to the maximum, jitter adds to it at most its part,
\* whatever the random source returns, a later retry waits no shorter, and two
\* languages differ by no more than the rounding to a millisecond.
BacksOff(o, languages) ==
  LET wait == Backoff(o)
  IN  \A language \in languages : \A n \in 1 .. o.maxAttempts - 1 : \A sample \in -1 .. 5 :
        LET delay == Delay(language, n, o, sample)
        IN  /\ delay + Units \div 2 >= wait[n] * Units
            /\ delay <= wait[n] * (Units + 4 * Percent(o)) + Units \div 2
            /\ n > 1 => Delay(language, n - 1, o, sample) <= delay
            /\ \A other \in languages : Delay(other, n, o, sample) - delay <= Units

\* Every policy that the validation of aiyoke.yaml lets pass makes options with
\* which a runtime can be constructed, and by which its retries back off alike in
\* every language.
LoadedPolicyRuns ==
  \A o \in Generated : Constructs(o) /\ BacksOff(o, TargetLanguages)

\* docs/compatibility.md: "The resolved policy is also compiled into an importable
\* native policy.* options module".
NativeOptionsCompile ==
  \A o \in Generated : \A language \in TargetLanguages : Compiles(language, o)

\* A configuration that has been found in order is in order, down to the runtimes
\* that are generated for it; one that has not is reported as what it is.
DocumentInv == ReportTellsTheDefects /\ LoadedPolicyRuns
=============================================================================
