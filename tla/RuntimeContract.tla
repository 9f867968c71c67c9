-------------------------- MODULE RuntimeContract --------------------------
(***************************************************************************)
(* What docs/runtime-harness-contract.md asks of the generated runtimes:   *)
(* "every supported language uses the same concepts and lifecycle".  A     *)
(* behaviour is one of the Python, the Go or the Rust runtime, and the     *)
(* properties are the same for all three (those of the TypeScript runtime  *)
(* are in HarnessRuntime).                                                 *)
(***************************************************************************)
EXTENDS PortableRuntime

CONSTANT Languages  \* of "python", "go" and "rust"

VARIABLE language

contractVars == <<language, vars>>

Python == INSTANCE PythonRuntime
Go == INSTANCE GoRuntime
Rust == INSTANCE RustRuntime

Init ==
  /\ language \in Languages
  /\ \/ language = "python" /\ Python!Init
     \/ language = "go" /\ Go!Init
     \/ language = "rust" /\ Rust!Init

Next ==
  /\ \/ language = "python" /\ Python!Next
     \/ language = "go" /\ Go!Next
     \/ language = "rust" /\ Rust!Next
  /\ UNCHANGED language

Proceed(r) ==
  /\ \/ language = "python" /\ Python!Proceed(r)
     \/ language = "go" /\ Go!Proceed(r)
     \/ language = "rust" /\ (Rust!Proceed(r) \/ Rust!Poll(r))
  /\ UNCHANGED language

Spec == Init /\ [][Next]_contractVars

\* Requests go on; adapters need not answer, except that those of Python, which
\* are awaited, stop when they are cancelled.
FairSpec == Spec /\ \A r \in Requests : WF_contractVars(Proceed(r))

-----------------------------------------------------------------------------

Inside == {r \in Requests : place[r] \in {"inside", "granted"}}

\* The type invariant; the counter of the gate is the number of slots taken.
TypeOK ==
  /\ context \in [Callers -> {"live", "cancelled", "expired"}]
  /\ active = Cardinality(Inside)
  /\ place \in [Requests -> {"outside", "waiting", "granted", "inside", "refused", "left"}]
  /\ pc \in [Requests -> Steps]
  /\ position \in [Requests -> 0 .. Len(FallbackRoutes) + 1]
  /\ attempt \in [Requests -> 0 .. MaxAttempts]
  /\ result \in [Requests -> FailureKinds \cup {"success"}]
  /\ recorded \in [Requests -> FailureKinds \cup {"success", "nothing"}]
  /\ circuits \in [Routes -> Breakers]
  /\ cache \subseteq Keys
  /\ \A r \in Requests : pc[r] = "calling" => Current(r) # {}

\* The gate of each runtime is a concurrency limit that leaves nobody waiting,
\* under cancellation at any moment and on every way out of execute.  A task
\* that is cancelled between being given a slot and taking it has been inside.
Slots == INSTANCE BoundedSlots WITH
  Maximum <- MaxConcurrency,
  place <- [r \in Requests |-> IF place[r] = "granted" THEN "inside" ELSE place[r]]
ImplementsBoundedSlots == Slots!Spec

\* Whoever is inside comes to an end, even if no adapter ever answers.
ExecutionEnds == \A r \in Requests : place[r] = "inside" ~> place[r] = "left"

\* Application policy "cannot be silently bypassed by a fallback route": a refusal
\* is the end of its request; an adapter that calls its refusal retryable may be
\* asked again, but no other route is.
PolicyIsTerminal ==
  \A r \in Requests : result[r] \in PolicyKinds =>
    \/ pc[r] \in {"reporting", "done"}
    \/ pc[r] \notin {"screen", "select"} /\ \E f \in Replies : f.kind = result[r] /\ f.retryable

\* A deadline or a cancellation is not only an answer to the caller: an adapter
\* call that its request does not wait for any more has been told to stop.
AbandonedIsTold == \A c \in calls : Abandoned(c) => c.told

\* The EvaluationPort hears of every executed request exactly what its caller is
\* told, except that Python tells it nothing, or what it was about to return, of
\* a request that was cancelled.
RecordAgrees ==
  \A r \in Requests :
    pc[r] = "done" =>
      recorded[r] = result[r] \/ (language = "python" /\ result[r] = "cancelled")

\* Unlike the others, Python never has more than MaxConcurrency adapters busy.
PythonCallsAreBounded == language = "python" => Cardinality(calls) <= MaxConcurrency

\* "timeout" and "cancelled" are distinct outcomes: only the end of its caller
\* cancels a request, and it is not tried on another route after that.  An
\* adapter may still report "cancelled" of its own.
CancelledMeansEnded ==
  \A r \in Requests : result[r] = "cancelled" => Ended(r) \/ \E f \in Replies : f.kind = "cancelled"

\* The caller, the EvaluationPort and the policies see one and the same outcome of
\* a request, in every language.
OutcomesAgree == TypeOK /\ PolicyIsTerminal /\ RecordAgrees /\ CancelledMeansEnded

\* Calls of adapters that nobody waits for any more are known and bounded.
CallsAreAccountedFor == AbandonedIsTold /\ PythonCallsAreBounded
=============================================================================
