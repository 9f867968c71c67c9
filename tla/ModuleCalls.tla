----------------------------- MODULE ModuleCalls -----------------------------
(***************************************************************************)
(* What the modules that are generated beside the runtimes have in common  *)
(* in all languages: a call of a tool, a run of an evaluation and a call   *)
(* of a provider.                                                          *)
(***************************************************************************)
EXTENDS Sequences, FiniteSets, Naturals

CONSTANTS
  Cases,           \* suite.cases: their ids, in order
  Sampled,         \* those that the sampling selects: all if offline
  MaxConcurrency,  \* options.maxConcurrency
  MaxBytes         \* config.maxResponseBytes

ASSUME CasesAssumption ==
  /\ Cases \in Seq({Cases[i] : i \in DOMAIN Cases} \cup Sampled)
  /\ \A i, j \in 1 .. Len(Cases) : Cases[i] = Cases[j] => i = j
  /\ MaxConcurrency \in Nat \ {0}

ASSUME MaxBytesAssumption == MaxBytes \in Nat \ {0}

-----------------------------------------------------------------------------
(***************************************************************************)
(* One call of ToolRunner.execute in a generated runtime: what the runners *)
(* of all languages share.  Calls have no state in common, so one is       *)
(* enough; what it has to do with are its caller, the approval port and    *)
(* the handler of the tool, which goes on when nobody waits for it.        *)
(***************************************************************************)

VARIABLES
  caller,   \* "live", "cancelled" or, in Go, "expired"
  pc,       \* where the call is
  consent,  \* "automatic", or the approval that is "required" or "granted"
  handler,  \* "none", "running", "told" to stop, or "finished"
  events,   \* what the event sink was given
  outcome   \* "success", a ToolFailureKind, or "escaped"

toolVars == <<caller, pc, consent, handler, events, outcome>>

ApprovalFailures == {"approval-required", "approval-denied", "approval-failed"}
Refusals == {"not-found", "invalid-input"} \cup ApprovalFailures
Failures == Refusals \cup {"timeout", "cancelled", "handler-error", "invalid-output"}

BeginCall ==
  /\ caller = "live"
  /\ pc = "starting"
  /\ consent \in {"automatic", "required"}
  /\ handler = "none"
  /\ events = <<>>
  /\ outcome = "none"

Ended == caller # "live"
Emit(type) == events' = Append(events, type)

\* The result is a failure, of which the sink is told next.
Fail(kind) ==
  /\ pc' = "failing"
  /\ outcome' = kind

Starting ==
  /\ pc = "starting"
  /\ Emit("tool-started")
  /\ pc' = "screening"
  /\ UNCHANGED <<caller, consent, handler, outcome>>

\* The tool is looked up and the input validated; then comes the approval.
Screening ==
  /\ pc = "screening"
  /\ \/ /\ \E kind \in {"not-found", "invalid-input"} : Fail(kind)
        /\ UNCHANGED events
     \/ /\ consent = "automatic"
        /\ pc' = "ready"
        /\ UNCHANGED <<events, outcome>>
     \/ /\ consent = "required"
        /\ Emit("approval-requested")
        /\ pc' = "asking"
        /\ UNCHANGED outcome
  /\ UNCHANGED <<caller, consent, handler>>

\* There is no approval port, or it grants, denies or fails.
Asking ==
  /\ pc = "asking"
  /\ \/ /\ \E kind \in ApprovalFailures : Fail(kind)
        /\ UNCHANGED consent
     \/ /\ consent' = "granted"
        /\ pc' = "ready"
        /\ UNCHANGED outcome
  /\ UNCHANGED <<caller, handler, events>>

\* The handler is first with a value, which may be invalid, or an error.
Replying ==
  /\ pc = "racing"
  /\ handler' = "finished"
  /\ \/ Fail("handler-error")
     \/ Fail("invalid-output")
     \/ pc' = "succeeding" /\ outcome' = "success"
  /\ UNCHANGED <<caller, consent, events>>

\* The last event, and the end.
Reporting ==
  /\ \/ pc = "failing" /\ Emit("tool-failed")
     \/ pc = "succeeding" /\ Emit("tool-succeeded")
  /\ pc' = "done"
  /\ UNCHANGED <<caller, consent, handler, outcome>>

\* A handler that was told to stop comes to its end.
HandlerEnds ==
  /\ handler = "told"
  /\ pc # "racing"
  /\ handler' = "finished"
  /\ UNCHANGED <<caller, pc, consent, events, outcome>>

-----------------------------------------------------------------------------
(***************************************************************************)
(* One run of an EvaluationRunner in a generated runtime: what the runners *)
(* of all languages share.  The cases that are sampled are evaluated, a    *)
(* bounded number at a time, and a report goes to a sink and to the        *)
(* caller, who may cancel the run.                                         *)
(***************************************************************************)

VARIABLES
  cancelled,  \* the signal, the context, the task or the token of the caller
  queue,      \* the sampled cases that nobody has taken yet
  idle,       \* the workers, or the slots, without a case
  active,     \* the cases that workers have, or slots are taken for
  begun,      \* those of them that have been taken to their subject
  results,    \* the status of each case, or "none"
  report      \* "none", "summarised", "returned" or "escaped"

evaluationVars == <<cancelled, queue, idle, active, begun, results, report>>

Ids == {Cases[i] : i \in 1 .. Len(Cases)}

\* The cases that are sampled, in the same order.
Selected ==
  LET kept[i \in 0 .. Len(Cases)] ==
        IF i = 0 THEN <<>>
        ELSE IF Cases[i] \in Sampled THEN Append(kept[i - 1], Cases[i])
        ELSE kept[i - 1]
  IN  kept[Len(Cases)]

Evaluated == {"passed", "failed", "provider-failure", "scorer-error"}
Statuses == Evaluated \cup {"not-sampled", "cancelled"}

Least(m, n) == IF m < n THEN m ELSE n

\* unsampled[c]: the status a case has until, or unless, it is evaluated.
BeginRun(workers, unsampled) ==
  /\ cancelled = FALSE
  /\ queue = Selected
  /\ idle = workers
  /\ active = {}
  /\ begun = {}
  /\ results = unsampled
  /\ report = "none"

\* A worker has the next case.
Claiming ==
  /\ idle > 0
  /\ queue # <<>>
  /\ idle' = idle - 1
  /\ active' = active \cup {Head(queue)}
  /\ queue' = Tail(queue)
  /\ UNCHANGED <<cancelled, results, report>>

\* A worker takes the next case to its subject.
Taking ==
  /\ Claiming
  /\ begun' = begun \cup {Head(queue)}

\* The subject answers or fails, and the evaluator scores its answer or fails.
Evaluating(c) ==
  /\ c \in begun
  /\ begun' = begun \ {c}
  /\ active' = active \ {c}
  /\ idle' = idle + 1
  /\ \E status \in Evaluated : results' = [results EXCEPT ![c] = status]
  /\ UNCHANGED <<cancelled, queue, report>>

\* The report is written to the sink, which may fail, and returned.
Delivering ==
  /\ report = "summarised"
  /\ report' = "returned"
  /\ UNCHANGED <<cancelled, queue, idle, active, begun, results>>

Cancelling ==
  /\ cancelled = FALSE
  /\ cancelled' = TRUE
  /\ UNCHANGED <<queue, idle, active, begun, results, report>>

-----------------------------------------------------------------------------
(***************************************************************************)
(* One call of ResponsesApiAdapter.invoke in a generated runtime: what the *)
(* adapters of all languages share.  An answer of the provider is a status *)
(* and a body, of which an adapter reads no more than it must to see that  *)
(* it is too large.                                                        *)
(***************************************************************************)

VARIABLES
  signal,     \* of the caller: "live", "cancelled" or, in Go, "expired"
  step,       \* "checking", "sending", "reading" or "answered"
  transport,  \* "none", "open", "closed" or, if that failed, "broken"
  response,   \* what the provider answers, or Nothing
  held,       \* the bytes of its body that have been read
  answer      \* the ModelResult, or NoAnswer

providerVars == <<signal, step, transport, response, held, answer>>

\* accepted: 2xx; transient: 408, 429 or 5xx; rejected: any other.
\* The body: an object, one with an error or the status "failed", null, other
\* JSON that is not an object, or no JSON.  declared: with a Content-Length.
Nothing == [status |-> "none", body |-> "none", size |-> 0, declared |-> FALSE]
Responses ==
  [status : {"accepted", "transient", "rejected"}, body : {"object", "failure", "null", "list", "text"},
   size : 0 .. MaxBytes + 1, declared : BOOLEAN]

NoAnswer == [kind |-> "none", retryable |-> FALSE]
Kinds == {"success", "provider", "cancelled", "timeout", "escaped"}

BeginProvider ==
  /\ signal = "live"
  /\ step = "checking"
  /\ transport = "none"
  /\ response = Nothing
  /\ held = 0
  /\ answer = NoAnswer

Give(kind, retryable) ==
  /\ step' = "answered"
  /\ answer' = [kind |-> kind, retryable |-> retryable]

Reject(retryable) == Give("provider", retryable)

\* The input or the credentials are unusable, or the request is sent.
Checking ==
  /\ step = "checking"
  /\ \/ /\ Reject(FALSE)
        /\ UNCHANGED transport
     \/ /\ step' = "sending"
        /\ transport' = "open"
        /\ UNCHANGED answer
  /\ UNCHANGED <<signal, response, held>>

\* Where the request is serialised in the try block around the connection, one
\* that cannot be serialised ends like a connection that fails, with `verdict`.
\* What the resolver of the secret throws is not caught.
Throwing(verdict) ==
  /\ step = "checking"
  /\ verdict \/ Give("escaped", FALSE)
  /\ UNCHANGED <<signal, transport, response, held>>

TooLarge == held > MaxBytes

\* Seeded fault: whatever the provider rejects is tried again.
Judged_RetriesAll(r) ==
  IF r.body = "text" THEN Reject(FALSE)
  ELSE IF r.status # "accepted" \/ r.body = "failure" THEN Reject(TRUE)
  ELSE Give("success", FALSE)

\* What a whole body means if JSON that is no object is taken for an empty one.
Judged(r) ==
  IF r.body = "text" THEN Reject(FALSE)
  ELSE IF r.status # "accepted" \/ r.body = "failure" THEN Reject(r.status = "transient")
  ELSE Give("success", FALSE)

\* The caller ends.
Ending(how) ==
  /\ signal = "live"
  /\ step # "answered"
  /\ signal' = how
  /\ UNCHANGED <<step, transport, response, held, answer>>
=============================================================================
