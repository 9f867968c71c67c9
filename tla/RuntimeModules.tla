--------------------------- MODULE RuntimeModules ---------------------------
(***************************************************************************)
(* What docs/runtime-harness-contract.md asks of the modules that are      *)
(* generated beside a runtime: tooling, evaluation, provider adapters and  *)
(* framework handlers.  A behaviour is one call of a tool, one run of an   *)
(* evaluation, one call of a provider or one HTTP request, in one of the   *)
(* languages, and the properties are the same for all of them.             *)
(***************************************************************************)
EXTENDS ModuleCalls, FrameworkHandlers

CONSTANT Languages  \* of "typescript", "javascript", "python", "go" and "rust"

VARIABLES part, language

choice == <<part, language>>
vars == <<choice, toolVars, evaluationVars, providerVars, handlerVars>>

\* What is generated for JavaScript is that for TypeScript without its types.
JavaScriptT == INSTANCE TypeScriptModules
JavaScriptE == INSTANCE TypeScriptModules
JavaScriptP == INSTANCE TypeScriptModules
TypeScript == INSTANCE TypeScriptModules
Python == INSTANCE PythonModules
Go == INSTANCE GoModules
Rust == INSTANCE RustModules

\* The parts that a behaviour is not about stand still.
NoTool ==
  /\ caller = "live" /\ pc = "starting" /\ consent = "automatic"
  /\ handler = "none" /\ events = <<>> /\ outcome = "none"
NoEvaluation ==
  /\ cancelled = FALSE /\ queue = <<>> /\ idle = 0
  /\ active = {} /\ begun = {} /\ results = <<>> /\ report = "none"
NoProvider == BeginProvider
NoHandler ==
  /\ framework = "none" /\ linked = FALSE /\ client = "connected" /\ aborted = FALSE
  /\ place = "accepting" /\ execution = "none" /\ result = "none" /\ reply = "none"

InitTool ==
  /\ NoEvaluation /\ NoProvider /\ NoHandler
  /\ \/ language = "typescript" /\ TypeScript!InitTool
     \/ language = "javascript" /\ JavaScriptT!InitTool
     \/ language = "python" /\ Python!InitTool
     \/ language = "go" /\ Go!InitTool
     \/ language = "rust" /\ Rust!InitTool

InitEvaluation ==
  /\ NoTool /\ NoProvider /\ NoHandler
  /\ \/ language = "typescript" /\ TypeScript!InitEvaluation
     \/ language = "javascript" /\ JavaScriptE!InitEvaluation
     \/ language = "python" /\ Python!InitEvaluation
     \/ language = "go" /\ Go!InitEvaluation
     \/ language = "rust" /\ Rust!InitEvaluation

InitProvider ==
  /\ NoTool /\ NoEvaluation /\ NoHandler
  /\ \/ language = "typescript" /\ TypeScript!InitProvider
     \/ language = "javascript" /\ JavaScriptP!InitProvider
     \/ language = "python" /\ Python!InitProvider
     \/ language = "go" /\ Go!InitProvider
     \/ language = "rust" /\ Rust!InitProvider

Init ==
  /\ language \in Languages
  /\ \/ part = "tool" /\ InitTool
     \/ part = "evaluation" /\ InitEvaluation
     \/ part = "provider" /\ InitProvider
     \/ part = "framework" /\ BeginHandler /\ NoTool /\ NoEvaluation /\ NoProvider

NextTool ==
  /\ part = "tool"
  /\ \/ language = "typescript" /\ TypeScript!NextTool
     \/ language = "javascript" /\ JavaScriptT!NextTool
     \/ language = "python" /\ Python!NextTool
     \/ language = "go" /\ Go!NextTool
     \/ language = "rust" /\ Rust!NextTool
  /\ UNCHANGED <<choice, evaluationVars, providerVars, handlerVars>>

NextEvaluation ==
  /\ part = "evaluation"
  /\ \/ language = "typescript" /\ TypeScript!NextEvaluation
     \/ language = "javascript" /\ JavaScriptE!NextEvaluation
     \/ language = "python" /\ Python!NextEvaluation
     \/ language = "go" /\ Go!NextEvaluation
     \/ language = "rust" /\ Rust!NextEvaluation
  /\ UNCHANGED <<choice, toolVars, providerVars, handlerVars>>

NextProvider ==
  /\ part = "provider"
  /\ \/ language = "typescript" /\ TypeScript!NextProvider
     \/ language = "javascript" /\ JavaScriptP!NextProvider
     \/ language = "python" /\ Python!NextProvider
     \/ language = "go" /\ Go!NextProvider
     \/ language = "rust" /\ Rust!NextProvider
  /\ UNCHANGED <<choice, toolVars, evaluationVars, handlerVars>>

NextHandler ==
  /\ part = "framework"
  /\ HandlerNext
  /\ UNCHANGED <<choice, toolVars, evaluationVars, providerVars>>

Next == NextTool \/ NextEvaluation \/ NextProvider \/ NextHandler

ProceedTool ==
  /\ part = "tool"
  /\ \/ language = "typescript" /\ TypeScript!ProceedTool
     \/ language = "javascript" /\ JavaScriptT!ProceedTool
     \/ language = "python" /\ Python!ProceedTool
     \/ language = "go" /\ Go!ProceedTool
     \/ language = "rust" /\ Rust!ProceedTool
  /\ UNCHANGED <<choice, evaluationVars, providerVars, handlerVars>>

ProceedEvaluation ==
  /\ part = "evaluation"
  /\ \/ language = "typescript" /\ TypeScript!ProceedEvaluation
     \/ language = "javascript" /\ JavaScriptE!ProceedEvaluation
     \/ language = "python" /\ Python!ProceedEvaluation
     \/ language = "go" /\ Go!ProceedEvaluation
     \/ language = "rust" /\ Rust!ProceedEvaluation
  /\ UNCHANGED <<choice, toolVars, providerVars, handlerVars>>

ProceedHandler ==
  /\ part = "framework"
  /\ HandlerProceed
  /\ UNCHANGED <<choice, toolVars, evaluationVars, providerVars>>

Spec == Init /\ [][Next]_vars

\* Calls, runs and handlers go on; approval ports, event sinks and the subjects
\* of an evaluation, for which there is no deadline, answer; the handlers of
\* tools need not, nor a runtime that was not told to stop, nor a provider.
FairSpec == Spec /\ WF_vars(ProceedTool) /\ WF_vars(ProceedEvaluation) /\ WF_vars(ProceedHandler)

-----------------------------------------------------------------------------

\* The type invariant; the workers of an evaluation are idle or have a case.
TypeOK ==
  /\ caller \in {"live", "cancelled", "expired"}
  /\ pc \in {"starting", "screening", "asking", "ready", "racing", "failing", "succeeding", "done"}
  /\ consent \in {"automatic", "required", "granted"}
  /\ handler \in {"none", "running", "told", "finished"}
  /\ outcome \in Failures \cup {"none", "success", "escaped"}
  /\ cancelled \in BOOLEAN
  /\ active \subseteq Sampled /\ begun \subseteq active
  /\ idle + Cardinality(active) <= MaxConcurrency
  /\ results \in [DOMAIN results -> Statuses \cup {"none"}]
  /\ report \in {"none", "summarised", "returned", "escaped"}
  /\ signal \in {"live", "cancelled", "expired"}
  /\ step \in {"checking", "sending", "reading", "answered"}
  /\ transport \in {"none", "open", "closed", "broken"}
  /\ response \in Responses \cup {Nothing}
  /\ held <= response.size
  /\ answer = NoAnswer \/ answer.kind \in Kinds
  /\ client \in {"connected", "gone"} /\ aborted \in BOOLEAN
  /\ place \in {"accepting", "executing", "stopping", "replied", "abandoned"}
  /\ execution \in {"none", "running", "told", "over"}
  /\ result \in {"none", "cancelled"} \cup Outcomes
  /\ reply \in {"none", "error", "refused", "cancelled"} \cup Outcomes

\* "fail-closed approval decisions": the handler has not been started unless the
\* input was valid and the approval that the tool requires was granted.
RefusedIsNotRun == handler # "none" => consent # "required" /\ outcome \notin Refusals

\* When a call has its outcome, its handler has ended or been told to stop.
AbandonedIsTold == pc \in {"failing", "succeeding", "done"} => handler # "running"

\* The sink hears of every call that it was started, of the approval, and in the
\* end exactly once of the outcome that the caller is told, except of a call of
\* which a CancelledError has escaped.
EventsTellTheOutcome ==
  pc = "done" /\ ~(language = "python" /\ outcome = "escaped") =>
    events = <<"tool-started">>
             \o (IF consent = "granted" \/ outcome \in ApprovalFailures THEN <<"approval-requested">> ELSE <<>>)
             \o <<IF outcome = "success" THEN "tool-succeeded" ELSE "tool-failed">>

\* "timeout" and "cancelled" are distinct: only the end of the caller cancels.
CancelledMeansEnded == outcome = "cancelled" => Ended

\* A call comes to an end, even if its handler never does.
CallEnds == part = "tool" ~> part = "tool" /\ pc = "done"

\* The report comes after every case, and says of each what became of it:
\* "aborted cases are never reported as intentionally excluded", and without an
\* abort every sampled case has been evaluated.
ReportIsTrue ==
  report \in {"summarised", "returned"} =>
    /\ active = {}
    /\ \A c \in Ids :
         /\ results[c] = "not-sampled" <=> c \notin Sampled
         /\ results[c] \in Evaluated \cup {"not-sampled"} \/ (cancelled /\ results[c] = "cancelled")

\* After the cancellation no case is taken to its subject, except in Go, and in
\* Rust those for which a thread has looked at the token before.
CancelStartsNothing ==
  [][part = "evaluation" /\ language # "go" /\ cancelled =>
       begun' \subseteq IF language = "rust" THEN active ELSE begun]_vars

\* A run comes to an end.
RunEnds == part = "evaluation" ~> report \in {"returned", "escaped"}

\* When a provider was called, its connection is closed again; except that a body
\* of a declared length that is too large is neither read nor cancelled by fetch,
\* that the thread of a cancelled call of Python goes on, and that Python leaves
\* an answer with an error in its status to be collected.
TransportIsReleased ==
  step = "answered" /\ transport = "open" =>
    \/ language \in {"typescript", "javascript"} /\ response.declared /\ response.size > MaxBytes
    \/ language = "python" /\ (answer.kind = "escaped" \/ response.status \in {"transient", "rejected"})

\* "prevents an aborted request from being retried or reported as provider
\* failure": once the caller has cancelled, a request that gets no answer is not
\* the provider's failure, except in Rust, whose transport says why it failed.
\* A body that cannot be read is, in TypeScript and in Go, even then.
AbortIsNoProviderFailure ==
  signal = "cancelled" /\ answer = [kind |-> "provider", retryable |-> TRUE] =>
    language = "rust" \/ response # Nothing

\* Success means a whole answer of the provider, within the limit, that says so
\* in its status and in its body.  What is tried again is a broken connection or
\* a status that may pass; and where no connection was opened, a request that
\* cannot be serialised, which is a network error in TypeScript, JavaScript and
\* Python, and in Go an input that is not tried again.
VerdictIsTrue ==
  /\ answer.kind = "success" =>
       /\ response.status = "accepted" /\ response.body \in {"object", "null", "list"}
       /\ language = "go" => response.body # "list"
       /\ held = response.size /\ held <= MaxBytes
  /\ answer.retryable =>
       \/ transport = "broken"
       \/ response.status = "transient" /\ held = response.size
       \/ transport = "none" /\ language \in {"typescript", "javascript", "python"}

\* The body of the request was read to its end while the handler listened.
ClosedByReading == framework \in CloseListeners /\ aborted /\ ~linked

\* The reply to a client comes after the runtime and tells what became of it; and
\* no request is given up, or said to be cancelled, whose client is connected,
\* except that Express and Fastify take a request that has been read for one that
\* was left.
ReplyTellsOutcome ==
  /\ place = "replied" /\ reply \notin {"error", "refused"} =>
       execution = "over" /\ reply \in {result, "cancelled"}
  /\ "cancelled" \in {result, reply} \/ execution = "told" => client = "gone" \/ ClosedByReading

\* A runtime that is to hear of its client hears of its going, even one that would
\* not stop by itself, unless the server cancels a handler between two probes or
\* a probe has raised.  Express and Fastify do not hear of a client whose request
\* had been read before they listened.
GoneIsTold == linked /\ client = "gone" /\ execution = "running" ~> execution # "running" \/ place = "abandoned"

\* The contract of a tool call: whoever looks at it, the handler, the sink or the
\* caller, sees the same call.
ToolContract ==
  TypeOK /\ RefusedIsNotRun /\ AbandonedIsTold /\ EventsTellTheOutcome /\ CancelledMeansEnded

\* The contract of a provider call: its answer is judged as it is, the caller's
\* part is not taken for the provider's, and nothing is left open.
ProviderContract == TransportIsReleased /\ AbortIsNoProviderFailure /\ VerdictIsTrue

\* Whatever ports, subjects, providers and clients do, no call, run or handler is
\* left behind.
NothingIsLeftBehind == CallEnds /\ RunEnds /\ GoneIsTold
=============================================================================
