------------------------ MODULE RuntimeModules_proofs ------------------------
(***************************************************************************)
(* Proofs about RuntimeModules, for every suite of cases, every sampling,  *)
(* every limit and all languages at once.  Each part of a behaviour has an *)
(* invariant of its own, which every step of that part keeps, in whichever *)
(* language, and of which the other parts know nothing.                    *)
(***************************************************************************)
EXTENDS RuntimeModules, TLAPS, FiniteSetTheorems, SequenceTheorems

\* What is known of queues in which nobody waits twice; the gate itself is not used.
Line == INSTANCE ConcurrencyGate_proofs WITH
          Requests <- Ids, Maximum <- MaxConcurrency, Signals <- Ids, SignalOf <- [c \in Ids |-> c],
          aborted <- {}, active <- 0, waiting <- queue, place <- results

-----------------------------------------------------------------------------
(* The inductive invariants.                                               *)

\* What the sink has been told of a call by the time of its outcome.
Told(granted) ==
  <<"tool-started">> \o (IF granted THEN <<"approval-requested">> ELSE <<>>)

\* The handler is started after the approval, if there has to be one.
Consented == consent # "required" /\ events = Told(consent = "granted")

\* The approval was asked for if and only if the sink has heard of it.
AskedIsTold ==
  events = Told(consent = "granted" \/ outcome \in ApprovalFailures)

\* A call of a tool, by the place it has come to.
ToolInv ==
  /\ caller \in {"live", "cancelled", "expired"}
  /\ pc \in {"starting", "screening", "asking", "ready", "racing", "failing", "succeeding", "done"}
  /\ consent \in {"automatic", "required", "granted"}
  /\ handler \in {"none", "running", "told", "finished"}
  /\ outcome \in Failures \cup {"none", "success", "escaped"}
  /\ RefusedIsNotRun /\ EventsTellTheOutcome /\ CancelledMeansEnded
  /\ pc \in {"starting", "screening", "asking", "ready"} => handler = "none"
  /\ pc \in {"starting", "screening", "asking", "ready", "racing"} => outcome = "none"
  /\ pc = "starting" => consent # "granted" /\ events = <<>>
  /\ pc = "screening" => consent # "granted" /\ events = Told(FALSE)
  /\ pc = "asking" => consent = "required" /\ events = Told(TRUE)
  /\ pc \in {"ready", "racing"} => Consented
  /\ pc = "racing" => handler \in {"running", "told"}
  /\ pc = "failing" => outcome \in Failures /\ handler # "running" /\ AskedIsTold
  /\ pc = "succeeding" => outcome = "success" /\ handler = "finished" /\ AskedIsTold
  /\ pc = "done" => outcome # "none" /\ handler # "running"

\* Counting the cases: the queue has those that are sampled, each once.
Queued == Line!Elements(queue)
Selection == Ids \cap Sampled
QueueFits ==
  /\ queue \in Seq(Ids)
  /\ Line!Distinct(queue)
  /\ active \subseteq Selection /\ begun \subseteq active
  /\ Queued \subseteq Selection \ active

\* No more workers than there may be.
WorkersFit ==
  /\ IsFiniteSet(active)
  /\ idle \in Nat
  /\ idle + Cardinality(active) <= MaxConcurrency

\* A sampled case is still to be evaluated, has been, or, in Rust, was skipped;
\* what is not sampled stays so.
Unsampled == IF language \in {"typescript", "javascript"} THEN "not-sampled" ELSE "none"
ResultsFit ==
  /\ results \in [Ids -> Statuses \cup {"none"}]
  /\ \A c \in Ids \ Sampled : results[c] = "not-sampled"
  /\ report = "none" =>
       \A c \in Selection :
         IF c \in Queued \cup active THEN results[c] = Unsampled
         ELSE \/ results[c] \in Evaluated
              \/ language = "rust" /\ cancelled /\ results[c] = "cancelled"

\* A report is not overtaken by what is left of its run: only loops that look at
\* the signal leave cases in the queue, and only an error leaves workers at work.
ReportFits ==
  /\ cancelled \in BOOLEAN
  /\ report \in {"none", "summarised", "returned", "escaped"}
  /\ ReportIsTrue
  /\ report \in {"summarised", "returned"} =>
       queue = <<>> \/ (cancelled /\ language \in {"typescript", "javascript"})
  /\ report = "escaped" => language = "python"
  /\ language = "python" /\ cancelled => queue = <<>>

EvaluationParts == QueueFits /\ WorkersFit /\ ResultsFit /\ ReportFits

\* A run of an evaluation; the other parts know nothing of cases.
EvaluationInv ==
  IF part = "evaluation" THEN EvaluationParts ELSE NoEvaluation

\* A call of a provider, by the step it has come to.
ProviderInv ==
  /\ signal \in {"live", "cancelled", "expired"}
  /\ step \in {"checking", "sending", "reading", "answered"}
  /\ transport \in {"none", "open", "closed", "broken"}
  /\ response \in Responses \cup {Nothing}
  /\ held \in Nat /\ held <= response.size
  /\ answer = NoAnswer \/ answer \in [kind : Kinds, retryable : BOOLEAN]
  /\ step # "answered" => answer = NoAnswer
  /\ step = "checking" => transport = "none"
  /\ step \in {"sending", "reading"} => transport = "open"
  /\ step \in {"checking", "sending"} => response = Nothing
  /\ step = "reading" => response \in Responses /\ held <= MaxBytes
  /\ language = "python" /\ step # "answered" => signal = "live"
  /\ ProviderContract

\* A request at a handler.
HandlerInv ==
  /\ client \in {"connected", "gone"} /\ aborted \in BOOLEAN
  /\ place \in {"accepting", "executing", "stopping", "replied", "abandoned"}
  /\ execution \in {"none", "running", "told", "over"}
  /\ result \in {"none", "cancelled"} \cup Outcomes
  /\ reply \in {"none", "error", "refused", "cancelled"} \cup Outcomes
  /\ place = "accepting" => execution = "none"
  /\ place = "stopping" => client = "gone"
  /\ aborted => client = "gone" \/ ClosedByReading
  /\ place = "replied" => execution = (IF reply \in {"error", "refused"} THEN "none" ELSE "over")
  /\ ReplyTellsOutcome

\* All parts of a behaviour.
ModulesInv == ToolInv /\ EvaluationInv /\ ProviderInv /\ HandlerInv

-----------------------------------------------------------------------------
(* The calls of tools.  The runners of all languages take the same steps   *)
(* at most of the places; here is what they do at the others.              *)

\* The handler is started.
Invokes ==
  /\ pc = "ready"
  /\ pc' = "racing"
  /\ handler' \in {"running", "told"}
  /\ UNCHANGED <<caller, consent, events, outcome>>

\* The call gives its handler up, for the caller only if that has ended.
GivesUp ==
  /\ pc \in {"ready", "racing"}
  /\ handler' = "told"
  /\ \E kind \in {"timeout", "cancelled"} : Fail(kind) /\ (kind = "cancelled" => Ended')
  /\ caller' \in {caller, "cancelled"}
  /\ UNCHANGED <<consent, events>>

\* The caller ends, and may be heard of by the handler.
CallerEnds ==
  /\ caller' \in {"cancelled", "expired"}
  /\ handler' = handler \/ (handler = "running" /\ handler' = "told")
  /\ UNCHANGED <<pc, consent, events, outcome>>

\* A CancelledError escapes from a call of Python.
CallEscapes ==
  /\ language = "python"
  /\ pc \in {"starting", "asking", "racing", "failing", "succeeding"}
  /\ pc' = "done"
  /\ outcome' = "escaped"
  /\ caller' \in {caller, "cancelled"}
  /\ handler' = IF pc = "racing" THEN "finished" ELSE handler
  /\ UNCHANGED consent

ToolStep ==
  \/ Starting \/ Screening \/ Asking \/ Replying \/ Reporting \/ HandlerEnds
  \/ Invokes \/ GivesUp \/ CallerEnds \/ CallEscapes

\* A runner of TypeScript takes these steps.
LEMMA TypeScriptTool == TypeScript!NextTool => ToolStep
<1> USE DEF ToolStep
<1>1. TypeScript!Start \/ TypeScript!Screen \/ TypeScript!Approve \/ TypeScript!Report \/ TypeScript!Reply \/ TypeScript!HandlerEnds => ToolStep
  BY DEF TypeScript!Start, TypeScript!Screen, TypeScript!Approve, TypeScript!Report, TypeScript!Reply,
    TypeScript!HandlerEnds, TypeScript!Starting, TypeScript!Screening, TypeScript!Asking, TypeScript!Reporting,
    TypeScript!Replying, TypeScript!Emit, TypeScript!Fail, TypeScript!ApprovalFailures,
    Starting, Screening, Asking, Reporting, Replying, HandlerEnds, Emit, Fail, ApprovalFailures
<1>2. TypeScript!Invoke => ToolStep
  BY DEF TypeScript!Invoke, TypeScript!Ended, TypeScript!Fail, Invokes, GivesUp, Ended, Fail
<1>3. TypeScript!Deadline => ToolStep
  BY DEF TypeScript!Deadline, TypeScript!Fail, GivesUp, Fail
<1>4. TypeScript!EndTool => ToolStep
  BY DEF TypeScript!EndTool, TypeScript!Fail, GivesUp, CallerEnds, Ended, Fail
<1> QED
  BY <1>1, <1>2, <1>3, <1>4 DEF TypeScript!NextTool, TypeScript!ProceedTool

\* What is generated for JavaScript is the same.
LEMMA JavaScriptTool == JavaScriptT!NextTool => ToolStep
<1>1. JavaScriptT!NextTool <=> TypeScript!NextTool
  BY DEF JavaScriptT!NextTool, JavaScriptT!ProceedTool, JavaScriptT!Start, JavaScriptT!Screen,
    JavaScriptT!Approve, JavaScriptT!Report, JavaScriptT!Reply, JavaScriptT!Invoke, JavaScriptT!Deadline,
    JavaScriptT!EndTool, JavaScriptT!HandlerEnds, JavaScriptT!Starting, JavaScriptT!Screening, JavaScriptT!Asking,
    JavaScriptT!Reporting, JavaScriptT!Replying, JavaScriptT!Emit, JavaScriptT!Fail,
    JavaScriptT!ApprovalFailures, JavaScriptT!Ended,
    TypeScript!NextTool, TypeScript!ProceedTool, TypeScript!Start, TypeScript!Screen,
    TypeScript!Approve, TypeScript!Report, TypeScript!Reply, TypeScript!Invoke, TypeScript!Deadline,
    TypeScript!EndTool, TypeScript!HandlerEnds, TypeScript!Starting, TypeScript!Screening, TypeScript!Asking,
    TypeScript!Reporting, TypeScript!Replying, TypeScript!Emit, TypeScript!Fail,
    TypeScript!ApprovalFailures, TypeScript!Ended
<1> QED
  BY <1>1, TypeScriptTool

\* A runner of Python takes these steps, and lets errors escape.
LEMMA PythonTool == language = "python" /\ Python!NextTool => ToolStep
<1> USE DEF ToolStep
<1>1. Python!Start \/ Python!Screen \/ Python!Approve \/ Python!Report \/ Python!HandlerEnds => ToolStep
  BY DEF Python!Start, Python!Screen, Python!Approve, Python!Report,
    Python!HandlerEnds, Python!Starting, Python!Screening, Python!Asking, Python!Reporting,
    Python!Emit, Python!Fail, Python!ApprovalFailures,
    Starting, Screening, Asking, Reporting, HandlerEnds, Emit, Fail, ApprovalFailures
<1>2. Python!Invoke => ToolStep
  BY DEF Python!Invoke, Invokes
<1>3. Python!Deadline => ToolStep
  BY DEF Python!Deadline, Python!Fail, GivesUp, Fail
<1>4. language = "python" /\ Python!Reply => ToolStep
  BY DEF Python!Reply, Python!Replying, Python!Fail, Replying, CallEscapes, Fail
<1>5. language = "python" /\ Python!EndTool => ToolStep
  BY DEF Python!EndTool, Python!Emitting, Python!Fail, GivesUp, CallEscapes, Ended, Fail
<1> QED
  BY <1>1, <1>2, <1>3, <1>4, <1>5 DEF Python!NextTool, Python!ProceedTool

\* A runner of Go takes these steps.
LEMMA GoTool == Go!NextTool => ToolStep
<1> USE DEF ToolStep
<1>1. Go!Start \/ Go!Screen \/ Go!Approve \/ Go!Report \/ Go!Reply \/ Go!HandlerEnds => ToolStep
  BY DEF Go!Start, Go!Screen, Go!Approve, Go!Report, Go!Reply,
    Go!HandlerEnds, Go!Starting, Go!Screening, Go!Asking, Go!Reporting,
    Go!Replying, Go!Emit, Go!Fail, Go!ApprovalFailures,
    Starting, Screening, Asking, Reporting, Replying, HandlerEnds, Emit, Fail, ApprovalFailures
<1>2. Go!Invoke => ToolStep
  BY DEF Go!Invoke, Invokes
<1>3. Go!Done => ToolStep
  BY DEF Go!Done, Go!Ended, Go!Fail, GivesUp, Ended, Fail
<1>4. Go!EndTool => ToolStep
  BY DEF Go!EndTool, CallerEnds
<1> QED
  BY <1>1, <1>2, <1>3, <1>4 DEF Go!NextTool, Go!ProceedTool

\* A runner of Rust takes these steps.
LEMMA RustTool == Rust!NextTool => ToolStep
<1> USE DEF ToolStep
<1>1. Rust!Start \/ Rust!Screen \/ Rust!Approve \/ Rust!Report \/ Rust!Reply \/ Rust!HandlerEnds => ToolStep
  BY DEF Rust!Start, Rust!Screen, Rust!Approve, Rust!Report, Rust!Reply,
    Rust!HandlerEnds, Rust!Starting, Rust!Screening, Rust!Asking, Rust!Reporting,
    Rust!Replying, Rust!Emit, Rust!Fail, Rust!ApprovalFailures,
    Starting, Screening, Asking, Reporting, Replying, HandlerEnds, Emit, Fail, ApprovalFailures
<1>2. Rust!Invoke => ToolStep
  BY DEF Rust!Invoke, Invokes
<1>3. Rust!Interrupted \/ Rust!Deadline => ToolStep
  BY DEF Rust!Interrupted, Rust!Deadline, Rust!Ended, Rust!Fail, GivesUp, Ended, Fail
<1>4. Rust!EndTool => ToolStep
  BY DEF Rust!EndTool, CallerEnds
<1> QED
  BY <1>1, <1>2, <1>3, <1>4 DEF Rust!NextTool, Rust!ProceedTool

\* What the sink may be told.
Types == {"tool-started", "approval-requested", "tool-failed", "tool-succeeded"}

\* What the sink is told first, after that, and last.
LEMMA SinkIsTold ==
  /\ Append(<<>>, "tool-started") = Told(FALSE)
  /\ Append(Told(FALSE), "approval-requested") = Told(TRUE)
  /\ \A granted \in BOOLEAN, type \in Types : Append(Told(granted), type) = Told(granted) \o <<type>>
<1>1. \A s \in Seq(Types), type \in Types : Append(s, type) = s \o <<type>>
  BY AppendIsConcat
<1>2. <<>> \in Seq(Types) /\ \A type \in Types : <<type>> \in Seq(Types)
  BY EmptySeq
<1>3. "tool-started" \in Types /\ "approval-requested" \in Types
  BY DEF Types
<1> HIDE DEF Types
<1>4. Told(FALSE) = <<"tool-started">>
  BY <1>2, <1>3, ConcatEmptySeq DEF Told
<1>5. Told(TRUE) = <<"tool-started">> \o <<"approval-requested">>
  BY DEF Told
<1>6. Told(TRUE) \in Seq(Types) /\ Told(FALSE) \in Seq(Types)
  BY <1>2, <1>3, <1>4, <1>5, ConcatProperties
<1>7. Append(<<>>, "tool-started") = <<"tool-started">>
  BY <1>1, <1>2, <1>3, ConcatEmptySeq
<1>8. Append(Told(FALSE), "approval-requested") = Told(TRUE)
  BY <1>1, <1>2, <1>3, <1>4, <1>5
<1> QED
  BY <1>1, <1>4, <1>6, <1>7, <1>8

\* What a call has told when it has its outcome is what it tells in the end.
LEMMA Contracted ==
  ASSUME pc \in {"failing", "succeeding"}, AskedIsTold, Reporting,
         outcome = "success" <=> pc = "succeeding"
  PROVE  EventsTellTheOutcome'
<1> DEFINE asked == consent = "granted" \/ outcome \in ApprovalFailures
           last == IF outcome = "success" THEN "tool-succeeded" ELSE "tool-failed"
<1>1. events' = Append(Told(asked), last)
  BY DEF Reporting, Emit, AskedIsTold
<1>2. events' = Told(asked) \o <<last>>
  <2>1. last \in Types
    BY DEF Types
  <2>2. asked \in BOOLEAN
    BY Zenon
  <2> HIDE DEF asked, last
  <2> QED
    BY <1>1, <2>1, <2>2, SinkIsTold
<1>3. UNCHANGED <<consent, outcome>>
  BY DEF Reporting
<1> QED
  BY <1>2, <1>3 DEF EventsTellTheOutcome, Told

\* Every step of a call keeps the invariant.
LEMMA ToolKeeps == ToolInv /\ ToolStep /\ language' = language => ToolInv'
<1> SUFFICES ASSUME ToolInv, ToolStep, language' = language PROVE ToolInv'
  OBVIOUS
<1> USE DEF ToolInv, RefusedIsNotRun, CancelledMeansEnded, Ended, Refusals, Failures, ApprovalFailures
<1>1. CASE Starting
  BY <1>1, SinkIsTold DEF Starting, Emit, EventsTellTheOutcome
<1>2. CASE Screening
  BY <1>2, SinkIsTold DEF Screening, Emit, Fail, Consented, AskedIsTold, EventsTellTheOutcome
<1>3. CASE Asking
  BY <1>3 DEF Asking, Fail, Consented, AskedIsTold, EventsTellTheOutcome
<1>4. CASE Replying
  BY <1>4 DEF Replying, Fail, Consented, AskedIsTold, EventsTellTheOutcome
<1>5. CASE Reporting
  <2>1. EventsTellTheOutcome'
    BY <1>5, Contracted DEF Reporting
  <2> QED
    BY <1>5, <2>1 DEF Reporting
<1>6. CASE HandlerEnds
  BY <1>6 DEF HandlerEnds, Consented, AskedIsTold, EventsTellTheOutcome
<1>7. CASE Invokes
  BY <1>7 DEF Invokes, Consented, AskedIsTold, EventsTellTheOutcome
<1>8. CASE GivesUp
  BY <1>8 DEF GivesUp, Fail, Consented, AskedIsTold, EventsTellTheOutcome
<1>9. CASE CallerEnds
  BY <1>9 DEF CallerEnds, Consented, AskedIsTold, EventsTellTheOutcome
<1>10. CASE CallEscapes
  BY <1>10 DEF CallEscapes, EventsTellTheOutcome
<1> QED
  BY <1>1, <1>2, <1>3, <1>4, <1>5, <1>6, <1>7, <1>8, <1>9, <1>10 DEF ToolStep

\* It holds of a call that begins.
LEMMA ToolBegins == BeginCall => ToolInv
BY DEF BeginCall, ToolInv, RefusedIsNotRun, CancelledMeansEnded, Ended, Refusals, Failures, ApprovalFailures,
  EventsTellTheOutcome

\* Other parts do not touch it.
LEMMA ToolStands == ToolInv /\ UNCHANGED <<language, toolVars>> => ToolInv'
BY DEF toolVars, ToolInv, RefusedIsNotRun, CancelledMeansEnded, Ended, Refusals, Failures, ApprovalFailures,
  EventsTellTheOutcome, Consented, AskedIsTold

-----------------------------------------------------------------------------
(* The cases of an evaluation.                                             *)

\* The cases have a first, a last and a number.
LEMMA CasesAreCounted == Len(Cases) \in Nat /\ Cases \in Seq(Ids)
<1>1. Len(Cases) \in Nat /\ DOMAIN Cases = 1 .. Len(Cases)
  BY CasesAssumption, LenProperties
<1>2. Cases = [i \in 1 .. Len(Cases) |-> Cases[i]]
  BY <1>1, CasesAssumption
<1>3. \A i \in 1 .. Len(Cases) : Cases[i] \in Ids
  BY DEF Ids
<1> QED
  BY <1>1, <1>2, <1>3, SeqDef

\* f is what Selected has kept after each of the first n cases.
Keep(before, i) == IF Cases[i] \in Sampled THEN Append(before, Cases[i]) ELSE before
KeptUpto(n, f) == f = [i \in 0 .. n |-> IF i = 0 THEN <<>> ELSE Keep(f[i - 1], i)]

\* The recursion of Selected can be followed to the last case.
LEMMA SelectedUnfolds == \E f : KeptUpto(Len(Cases), f) /\ Selected = f[Len(Cases)]
<1> DEFINE Defined == {n \in Nat : \E f : KeptUpto(n, f)}
<1>1. 0 \in Defined
  <2> DEFINE f == [i \in 0 .. 0 |-> <<>>]
  <2>1. KeptUpto(0, f)
    BY DEF KeptUpto
  <2> QED
    BY <2>1
<1>2. ASSUME NEW n \in Nat, n \in Defined PROVE n + 1 \in Defined
  <2> PICK f : KeptUpto(n, f)
    BY <1>2
  <2> DEFINE g == [i \in 0 .. n + 1 |-> IF i <= n THEN f[i] ELSE Keep(f[n], i)]
  <2>1. \A i \in 0 .. n : f[i] = IF i = 0 THEN <<>> ELSE Keep(f[i - 1], i)
    BY DEF KeptUpto
  <2>2. \A i \in 0 .. n + 1 : g[i] = IF i = 0 THEN <<>> ELSE Keep(g[i - 1], i)
    <3> SUFFICES ASSUME NEW i \in 0 .. n + 1 PROVE g[i] = IF i = 0 THEN <<>> ELSE Keep(g[i - 1], i)
      OBVIOUS
    <3>1. CASE i <= n
      BY <2>1, <3>1
    <3>2. CASE i = n + 1
      BY <3>2
    <3> QED
      BY <3>1, <3>2
  <2>3. KeptUpto(n + 1, g)
    <3>1. g = [i \in 0 .. n + 1 |-> g[i]]
      OBVIOUS
    <3> HIDE DEF g
    <3> QED
      BY <2>2, <3>1 DEF KeptUpto
  <2> QED
    BY <2>3
<1> HIDE DEF Defined
<1>3. Len(Cases) \in Defined
  BY <1>1, <1>2, CasesAreCounted, Line!EveryNumber
<1> DEFINE kept == CHOOSE f : KeptUpto(Len(Cases), f)
<1>4. KeptUpto(Len(Cases), kept)
  BY <1>3 DEF Defined
<1>5. Selected = kept[Len(Cases)]
  BY DEF Selected, KeptUpto, Keep
<1> QED
  BY <1>4, <1>5

\* The queue with which a run begins has every case that is sampled once.
LEMMA SelectedEffect ==
  /\ Selected \in Seq(Ids)
  /\ Line!Elements(Selected) = Selection
  /\ Line!Distinct(Selected)
<1>1. PICK f : KeptUpto(Len(Cases), f) /\ Selected = f[Len(Cases)]
  BY SelectedUnfolds
<1> DEFINE Kept(n) == {Cases[i] : i \in 1 .. n} \cap Sampled
           IsKept(n) == f[n] \in Seq(Ids) /\ Line!Elements(f[n]) = Kept(n) /\ Line!Distinct(f[n])
           Right == {n \in Nat : n <= Len(Cases) => IsKept(n)}
<1>2. /\ f[0] = <<>>
      /\ \A i \in 1 .. Len(Cases) : f[i] = Keep(f[i - 1], i)
  BY <1>1, CasesAreCounted DEF KeptUpto
<1>3. IsKept(0)
  BY <1>2 DEF Line!Elements, Line!Distinct
<1>4. ASSUME NEW n \in Nat, n + 1 <= Len(Cases), IsKept(n) PROVE IsKept(n + 1)
  <2>1. f[n + 1] = Keep(f[n], n + 1) /\ Cases[n + 1] \in Ids
    <3>1. n + 1 \in 1 .. Len(Cases) /\ (n + 1) - 1 = n
      BY <1>4, CasesAreCounted
    <3>2. f[n + 1] = Keep(f[(n + 1) - 1], n + 1)
      BY <1>2, <3>1
    <3> QED
      BY <3>1, <3>2 DEF Ids
  <2>2. 1 .. n + 1 = (1 .. n) \cup {n + 1}
    OBVIOUS
  <2>3. CASE Cases[n + 1] \notin Sampled
    <3>1. Kept(n + 1) = Kept(n)
      BY <2>2, <2>3
    <3> QED
      BY <1>4, <2>1, <2>3, <3>1 DEF Keep
  <2>4. CASE Cases[n + 1] \in Sampled
    <3>1. Kept(n + 1) = Kept(n) \cup {Cases[n + 1]}
      BY <2>2, <2>4
    <3>2. Cases[n + 1] \notin Kept(n)
      <4>1. \A i \in 1 .. n : Cases[i] # Cases[n + 1]
        BY <1>4, CasesAreCounted, CasesAssumption
      <4> QED
        BY <4>1
    <3> HIDE DEF Kept
    <3>3. f[n + 1] = Append(f[n], Cases[n + 1])
      BY <2>1, <2>4 DEF Keep
    <3> DEFINE k == f[n]
    <3>4. k \in Seq(Ids) /\ Line!Distinct(k) /\ Line!Elements(k) = Kept(n)
      BY <1>4
    <3> HIDE DEF k
    <3>5. /\ Append(k, Cases[n + 1]) \in Seq(Ids)
          /\ Line!Elements(Append(k, Cases[n + 1])) = Line!Elements(k) \cup {Cases[n + 1]}
          /\ Line!Distinct(Append(k, Cases[n + 1]))
      BY <2>1, <3>2, <3>4, Line!AppendEffect
    <3> QED
      BY <3>1, <3>3, <3>4, <3>5 DEF k
  <2> QED
    BY <2>3, <2>4
<1> HIDE DEF IsKept
<1>5. Len(Cases) \in Right
  <2>1. 0 \in Right /\ \A n \in Nat : n \in Right => n + 1 \in Right
    BY <1>3, <1>4, CasesAreCounted
  <2> HIDE DEF Right
  <2> QED
    BY <2>1, CasesAreCounted, Line!EveryNumber
<1>6. Kept(Len(Cases)) = Selection
  BY DEF Selection, Ids
<1> HIDE DEF Kept
<1> QED
  BY <1>1, <1>5, <1>6, CasesAreCounted DEF IsKept

-----------------------------------------------------------------------------
(* The runs of evaluations.  Again the languages have most steps in        *)
(* common; here are the others.                                            *)

Looping == language \in {"typescript", "javascript"}

\* A worker takes a case: in some languages only while nobody has cancelled.
Takes == Claiming /\ begun' \subseteq active' /\ (cancelled => language \in {"python", "go"})

\* A worker of Rust takes the case it has to its subject.
Begins ==
  /\ language = "rust"
  /\ begun' \subseteq active
  /\ UNCHANGED <<cancelled, queue, idle, active, results, report>>

\* A worker of Rust passes a case over.
Skips ==
  /\ language = "rust" /\ cancelled
  /\ queue # <<>>
  /\ results' = [results EXCEPT ![Head(queue)] = "cancelled"]
  /\ queue' = Tail(queue)
  /\ UNCHANGED <<cancelled, idle, active, begun, report>>

\* The subject of a case raises a CancelledError in Python.
SubjectEscapes(c) ==
  /\ language = "python"
  /\ c \in begun
  /\ begun' = begun \ {c}
  /\ active' = active \ {c}
  /\ idle' = idle + 1
  /\ report' = "escaped"
  /\ UNCHANGED <<cancelled, queue, results>>

\* The report is made when nobody works any more; what is left was cancelled.
Summarises ==
  /\ report = "none"
  /\ active = {}
  /\ queue = <<>> \/ (cancelled /\ Looping)
  /\ report' = "summarised"
  /\ results' = [c \in Ids |-> IF c \in Queued THEN "cancelled" ELSE results[c]]
  /\ UNCHANGED <<cancelled, queue, idle, active, begun>>

\* All tasks of a run of Python are cancelled.
TasksEnd ==
  /\ language = "python"
  /\ cancelled' = TRUE
  /\ report' = "escaped"
  /\ active' = {}
  /\ begun' = {}
  /\ idle' = idle + Cardinality(active)
  /\ queue' = <<>>
  /\ UNCHANGED results

EvaluationStep ==
  \/ Takes \/ Begins \/ Skips \/ Summarises \/ Delivering \/ TasksEnd
  \/ \E c \in Ids : Evaluating(c) \/ SubjectEscapes(c)
  \/ Cancelling /\ language # "python"

\* Nobody waits in an empty queue.
LEMMA EmptyQueue == QueueFits => (queue = <<>> <=> Queued = {})
BY Line!NobodyQueued DEF QueueFits, Queued

\* The loops of TypeScript take these steps.
LEMMA TypeScriptEvaluation ==
  EvaluationParts /\ Looping /\ TypeScript!NextEvaluation => EvaluationStep
<1> SUFFICES ASSUME EvaluationParts, Looping, TypeScript!NextEvaluation PROVE EvaluationStep
  OBVIOUS
<1> USE DEF EvaluationStep, Looping
<1>1. TypeScript!Take => EvaluationStep
  BY DEF TypeScript!Take, TypeScript!Taking, TypeScript!Claiming, Takes, Claiming, EvaluationParts, QueueFits
<1>2. ASSUME NEW c \in TypeScript!Ids, TypeScript!Evaluate(c) PROVE EvaluationStep
  BY <1>2 DEF TypeScript!Evaluate, TypeScript!Evaluating, TypeScript!Evaluated, TypeScript!Ids, Evaluating, Evaluated, Ids
<1>3. ASSUME TypeScript!Summarise PROVE EvaluationStep
  <2>1. /\ report = "none" /\ active = {} /\ report' = "summarised"
        /\ queue = <<>> \/ cancelled
        /\ results' = [c \in Ids |->
             IF cancelled /\ c \in Sampled /\ results[c] = "not-sampled" THEN "cancelled" ELSE results[c]]
        /\ UNCHANGED <<cancelled, queue, idle, active, begun>>
    BY <1>3 DEF TypeScript!Summarise, TypeScript!Ids, Ids
  <2>2. ASSUME NEW c \in Ids
        PROVE  (cancelled /\ c \in Sampled /\ results[c] = "not-sampled") <=> c \in Queued
    BY <2>1, EmptyQueue DEF EvaluationParts, QueueFits, ResultsFit, ReportFits, Selection, Unsampled, Evaluated
  <2>3. results' = [c \in Ids |-> IF c \in Queued THEN "cancelled" ELSE results[c]]
    BY <2>1, <2>2
  <2> QED
    BY <2>1, <2>3 DEF Summarises
<1>4. TypeScript!Deliver \/ TypeScript!Cancel => EvaluationStep
  BY DEF TypeScript!Deliver, TypeScript!Cancel, TypeScript!Delivering, TypeScript!Cancelling, Delivering, Cancelling
<1> QED
  BY <1>1, <1>2, <1>3, <1>4 DEF TypeScript!NextEvaluation, TypeScript!ProceedEvaluation

\* Those of JavaScript are the same.
LEMMA JavaScriptEvaluation ==
  EvaluationParts /\ Looping /\ JavaScriptE!NextEvaluation => EvaluationStep
<1>1. JavaScriptE!NextEvaluation <=> TypeScript!NextEvaluation
  BY DEF JavaScriptE!NextEvaluation, JavaScriptE!ProceedEvaluation, JavaScriptE!Take, JavaScriptE!Evaluate,
    JavaScriptE!Summarise, JavaScriptE!Deliver, JavaScriptE!Cancel, JavaScriptE!Taking, JavaScriptE!Claiming, JavaScriptE!Evaluating,
    JavaScriptE!Delivering, JavaScriptE!Cancelling, JavaScriptE!Ids, JavaScriptE!Evaluated,
    TypeScript!NextEvaluation, TypeScript!ProceedEvaluation, TypeScript!Take, TypeScript!Evaluate,
    TypeScript!Summarise, TypeScript!Deliver, TypeScript!Cancel, TypeScript!Taking, TypeScript!Claiming, TypeScript!Evaluating,
    TypeScript!Delivering, TypeScript!Cancelling, TypeScript!Ids, TypeScript!Evaluated
<1> QED
  BY <1>1, TypeScriptEvaluation

\* Where every case has been taken there is nothing to mark.
LEMMA NothingToMark ==
  ASSUME EvaluationParts, report = "none", active = {}, queue = <<>>
  PROVE  /\ results = [c \in Ids |-> IF c \in Queued THEN "cancelled" ELSE results[c]]
         /\ \A c \in Ids : results[c] # "none"
<1>1. Queued = {}
  BY EmptyQueue DEF EvaluationParts
<1>2. results = [c \in Ids |-> results[c]]
  BY DEF EvaluationParts, ResultsFit
<1> QED
  BY <1>1, <1>2 DEF EvaluationParts, ResultsFit, Selection, Evaluated

\* The tasks of Python take these steps.
LEMMA PythonEvaluation ==
  EvaluationParts /\ language = "python" /\ Python!NextEvaluation => EvaluationStep
<1> SUFFICES ASSUME EvaluationParts, language = "python", Python!NextEvaluation PROVE EvaluationStep
  OBVIOUS
<1> USE DEF EvaluationStep
<1>1. Python!Take => EvaluationStep
  BY DEF Python!Take, Python!Taking, Python!Claiming, Takes, Claiming, EvaluationParts, QueueFits
<1>2. ASSUME NEW c \in Python!Ids, Python!Evaluate(c) PROVE EvaluationStep
  BY <1>2 DEF Python!Evaluate, Python!Evaluating, Python!Evaluated, Python!Ids, Evaluating, Evaluated, Ids, SubjectEscapes
<1>3. Python!Summarise => EvaluationStep
  BY NothingToMark DEF Python!Summarise, Summarises
<1>4. Python!Deliver => EvaluationStep
  BY DEF Python!Deliver, Python!Delivering, Delivering
<1>5. Python!Cancel => EvaluationStep
  BY DEF Python!Cancel, TasksEnd, Python!Cardinality, Cardinality
<1> QED
  BY <1>1, <1>2, <1>3, <1>4, <1>5 DEF Python!NextEvaluation, Python!ProceedEvaluation

\* The goroutines of Go take these steps.
LEMMA GoEvaluation ==
  EvaluationParts /\ language = "go" /\ Go!NextEvaluation => EvaluationStep
<1> SUFFICES ASSUME EvaluationParts, language = "go", Go!NextEvaluation PROVE EvaluationStep
  OBVIOUS
<1> USE DEF EvaluationStep
<1>1. Go!Take => EvaluationStep
  BY DEF Go!Take, Go!Taking, Go!Claiming, Takes, Claiming, EvaluationParts, QueueFits
<1>2. ASSUME NEW c \in Go!Ids, Go!Evaluate(c) PROVE EvaluationStep
  BY <1>2 DEF Go!Evaluate, Go!Evaluating, Go!Evaluated, Go!Ids, Evaluating, Evaluated, Ids
<1>3. Go!Summarise => EvaluationStep
  BY NothingToMark DEF Go!Summarise, Summarises
<1>4. Go!Deliver \/ Go!Cancel => EvaluationStep
  BY DEF Go!Deliver, Go!Cancel, Go!Delivering, Go!Cancelling, Delivering, Cancelling
<1> QED
  BY <1>1, <1>2, <1>3, <1>4 DEF Go!NextEvaluation, Go!ProceedEvaluation

\* The threads of Rust take these steps.
LEMMA RustEvaluation ==
  EvaluationParts /\ language = "rust" /\ Rust!NextEvaluation => EvaluationStep
<1> SUFFICES ASSUME EvaluationParts, language = "rust", Rust!NextEvaluation PROVE EvaluationStep
  OBVIOUS
<1> USE DEF EvaluationStep
<1>1. Rust!Take => EvaluationStep
  BY DEF Rust!Take, Rust!Claiming, Takes, Claiming, EvaluationParts, QueueFits
<1>2. Rust!Skip => EvaluationStep
  BY DEF Rust!Skip, Skips
<1>3. ASSUME NEW c \in Rust!Ids, Rust!Begin(c) \/ Rust!Evaluate(c) PROVE EvaluationStep
  BY <1>3 DEF Rust!Begin, Begins, EvaluationParts, QueueFits, Rust!Evaluate, Rust!Evaluating, Rust!Evaluated, Rust!Ids, Evaluating, Evaluated, Ids
<1>4. ASSUME Rust!Summarise PROVE EvaluationStep
  <2>1. /\ report = "none" /\ active = {} /\ queue = <<>> /\ report' = "summarised"
        /\ results' = [c \in Ids |-> IF results[c] = "none" THEN "cancelled" ELSE results[c]]
        /\ UNCHANGED <<cancelled, queue, idle, active, begun>>
    BY <1>4 DEF Rust!Summarise, Rust!Ids, Ids
  <2>2. results' = [c \in Ids |-> results[c]] /\ results = [c \in Ids |-> results[c]]
    BY <2>1, NothingToMark DEF EvaluationParts, ResultsFit
  <2> QED
    BY <2>1, <2>2, NothingToMark DEF Summarises
<1>5. Rust!Deliver \/ Rust!Cancel => EvaluationStep
  BY DEF Rust!Deliver, Rust!Cancel, Rust!Delivering, Rust!Cancelling, Delivering, Cancelling
<1> QED
  BY <1>1, <1>2, <1>3, <1>4, <1>5 DEF Rust!NextEvaluation, Rust!ProceedEvaluation

\* Taking the first case off the queue: it is sampled, and not there any more.
LEMMA FirstIsTaken ==
  ASSUME QueueFits, queue # <<>>, queue' = Tail(queue)
  PROVE  /\ Head(queue) \in Queued /\ Head(queue) \in Selection \ active
         /\ queue' \in Seq(Ids) /\ Line!Distinct(queue')
         /\ Line!Elements(queue') = Queued \ {Head(queue)}
BY Line!TailEffect DEF QueueFits, Queued

\* Nothing happens to a report that was not made by this step.
LEMMA ReportStands ==
  ASSUME ReportFits, language' = language, report' = report, report \in {"none", "escaped"},
         cancelled' = cancelled, queue' = queue \/ cancelled = FALSE \/ language # "python"
  PROVE  ReportFits'
BY DEF ReportFits, ReportIsTrue

\* A step that only takes from the queue, or touches no case.
LEMMA TakesKeeps == EvaluationParts /\ Takes /\ language' = language => EvaluationParts'
<1> SUFFICES ASSUME EvaluationParts, Takes, language' = language PROVE EvaluationParts'
  OBVIOUS
<1> USE DEF EvaluationParts
<1> DEFINE c == Head(queue)
<1>1. /\ c \in Queued /\ c \in Selection \ active
      /\ queue' \in Seq(Ids) /\ Line!Distinct(queue')
      /\ Queued' = Queued \ {c}
      /\ active' = active \cup {c} /\ begun' \subseteq active'
      /\ UNCHANGED <<cancelled, results, report>> /\ idle' = idle - 1 /\ idle > 0
  BY FirstIsTaken DEF Takes, Claiming, Queued
<1> HIDE DEF c
<1>2. QueueFits'
  BY <1>1 DEF QueueFits, Queued, Selection
<1>3. WorkersFit'
  <2>1. IsFiniteSet(active') /\ Cardinality(active') = Cardinality(active) + 1
    BY <1>1, FS_AddElement DEF WorkersFit
  <2>2. Cardinality(active) \in Nat
    BY FS_CardinalityType DEF WorkersFit
  <2> QED
    BY <1>1, <2>1, <2>2, CasesAssumption DEF WorkersFit
<1>4. ResultsFit'
  <2>1. Queued' \cup active' = Queued \cup active
    BY <1>1
  <2> QED
    BY <1>1, <2>1 DEF ResultsFit, Unsampled
<1>5. ReportFits'
  <2>1. queue # <<>> /\ (cancelled => language = "python" \/ language = "go")
    BY DEF Takes, Claiming
  <2>2. report \in {"none", "escaped"} /\ (language = "python" => ~cancelled)
    BY <2>1 DEF ReportFits
  <2> QED
    BY <1>1, <2>2, ReportStands DEF ReportFits
<1> QED
  BY <1>2, <1>3, <1>4, <1>5

\* A case that is passed over in Rust is told to have been cancelled.
LEMMA SkipsKeeps == EvaluationParts /\ Skips /\ language' = language => EvaluationParts'
<1> SUFFICES ASSUME EvaluationParts, Skips, language' = language PROVE EvaluationParts'
  OBVIOUS
<1> USE DEF EvaluationParts
<1> DEFINE c == Head(queue)
<1>1. /\ c \in Queued /\ c \in Selection \ active
      /\ queue' \in Seq(Ids) /\ Line!Distinct(queue')
      /\ Queued' = Queued \ {c}
      /\ results' = [results EXCEPT ![c] = "cancelled"]
      /\ UNCHANGED <<cancelled, idle, active, begun, report>>
      /\ language = "rust" /\ cancelled /\ queue # <<>>
  BY FirstIsTaken DEF Skips, Queued
<1> HIDE DEF c
<1>2. QueueFits' /\ WorkersFit'
  BY <1>1 DEF QueueFits, Queued, WorkersFit, Selection
<1>3. ResultsFit'
  BY <1>1 DEF ResultsFit, Unsampled, Statuses, Selection, Ids
<1>4. ReportFits'
  BY <1>1, ReportStands DEF ReportFits
<1> QED
  BY <1>2, <1>3, <1>4

\* A case has been evaluated.
LEMMA EvaluatingKeeps ==
  EvaluationParts /\ (\E c \in Ids : Evaluating(c)) /\ language' = language => EvaluationParts'
<1> SUFFICES ASSUME EvaluationParts, NEW c \in Ids, Evaluating(c), language' = language PROVE EvaluationParts'
  OBVIOUS
<1> USE DEF EvaluationParts
<1>1. PICK status \in Evaluated : results' = [results EXCEPT ![c] = status]
  BY DEF Evaluating
<1>2. /\ c \in active /\ active' = active \ {c} /\ begun' = begun \ {c} /\ idle' = idle + 1
      /\ UNCHANGED <<cancelled, queue, report>>
  BY DEF Evaluating, QueueFits
<1>3. QueueFits' /\ Queued' = Queued /\ c \notin Queued /\ c \in Selection
  BY <1>2 DEF QueueFits, Queued
<1>4. WorkersFit'
  <2>1. IsFiniteSet(active') /\ Cardinality(active') = Cardinality(active) - 1
    BY <1>2, FS_RemoveElement DEF WorkersFit
  <2>2. Cardinality(active) \in Nat
    BY FS_CardinalityType DEF WorkersFit
  <2> QED
    BY <1>2, <2>1, <2>2, CasesAssumption DEF WorkersFit
<1>5. ResultsFit'
  BY <1>1, <1>2, <1>3 DEF ResultsFit, Unsampled, Statuses, Selection
<1>6. ReportFits'
  BY <1>2, ReportStands DEF ReportFits, ReportIsTrue
<1> QED
  BY <1>3, <1>4, <1>5, <1>6

\* An error of a subject leaves its run at once, the others at work.
LEMMA SubjectEscapesKeeps ==
  EvaluationParts /\ (\E c \in Ids : SubjectEscapes(c)) /\ language' = language => EvaluationParts'
<1> SUFFICES ASSUME EvaluationParts, NEW c \in Ids, SubjectEscapes(c), language' = language PROVE EvaluationParts'
  OBVIOUS
<1> USE DEF EvaluationParts
<1>1. /\ c \in active /\ active' = active \ {c} /\ begun' = begun \ {c} /\ idle' = idle + 1 /\ report' = "escaped"
      /\ UNCHANGED <<cancelled, queue, results>> /\ language = "python"
  BY DEF SubjectEscapes, QueueFits
<1>2. QueueFits'
  BY <1>1 DEF QueueFits, Queued
<1>3. WorkersFit'
  <2>1. IsFiniteSet(active') /\ Cardinality(active') = Cardinality(active) - 1
    BY <1>1, FS_RemoveElement DEF WorkersFit
  <2>2. Cardinality(active) \in Nat
    BY FS_CardinalityType DEF WorkersFit
  <2> QED
    BY <1>1, <2>1, <2>2, CasesAssumption DEF WorkersFit
<1>4. ResultsFit' /\ ReportFits'
  BY <1>1 DEF ResultsFit, ReportFits, ReportIsTrue
<1> QED
  BY <1>2, <1>3, <1>4

\* The report is made: it is true.
LEMMA SummarisesKeeps == EvaluationParts /\ Summarises /\ language' = language => EvaluationParts'
<1> SUFFICES ASSUME EvaluationParts, Summarises, language' = language PROVE EvaluationParts'
  OBVIOUS
<1> USE DEF EvaluationParts
<1>1. QueueFits' /\ WorkersFit'
  BY DEF Summarises, QueueFits, WorkersFit, Queued
<1>2. Queued \subseteq Selection /\ Selection = Ids \cap Sampled
  BY DEF QueueFits, Selection
<1>3. /\ report = "none" /\ report' = "summarised" /\ active = {} /\ active' = {}
      /\ UNCHANGED <<cancelled, queue>>
      /\ queue = <<>> \/ (cancelled /\ language \in {"typescript", "javascript"})
      /\ results' = [c \in Ids |-> IF c \in Queued THEN "cancelled" ELSE results[c]]
  BY DEF Summarises, Looping
<1>4. Queued = {} \/ cancelled
  BY <1>3, EmptyQueue
<1>5. ASSUME NEW c \in Ids
      PROVE  /\ results'[c] \in Statuses
             /\ c \notin Sampled => results'[c] = "not-sampled"
             /\ c \in Sampled => results'[c] \in Evaluated \/ (cancelled /\ results'[c] = "cancelled")
  BY <1>2, <1>3, <1>4 DEF ResultsFit, Statuses
<1>6. ResultsFit'
  BY <1>3, <1>5 DEF ResultsFit
<1>7. ReportFits'
  <2>1. \A c \in Ids :
           /\ results'[c] = "not-sampled" <=> c \notin Sampled
           /\ results'[c] \in Evaluated \cup {"not-sampled"} \/ (cancelled /\ results'[c] = "cancelled")
    BY <1>5 DEF Evaluated
  <2> QED
    BY <1>3, <2>1 DEF ReportFits, ReportIsTrue
<1> QED
  BY <1>1, <1>6, <1>7

\* The other steps of a run.
LEMMA LastKeeps ==
  /\ EvaluationParts /\ Delivering /\ language' = language => EvaluationParts'
  /\ EvaluationParts /\ Begins /\ language' = language => EvaluationParts'
  /\ EvaluationParts /\ TasksEnd /\ language' = language => EvaluationParts'
  /\ EvaluationParts /\ Cancelling /\ language # "python" /\ language' = language => EvaluationParts'
<1> USE DEF EvaluationParts
<1>1. ASSUME EvaluationParts, Delivering, language' = language PROVE EvaluationParts'
  BY <1>1 DEF Delivering, QueueFits, Queued, WorkersFit, ResultsFit, ReportFits, ReportIsTrue
<1>2. ASSUME EvaluationParts, TasksEnd, language' = language PROVE EvaluationParts'
  <2>1. queue' \in Seq(Ids) /\ Line!Elements(queue') = {} /\ Line!Distinct(queue')
    BY <1>2 DEF TasksEnd, Line!Elements, Line!Distinct
  <2>2. QueueFits'
    BY <1>2, <2>1 DEF TasksEnd, QueueFits, Queued
  <2>3. WorkersFit'
    BY <1>2, FS_EmptySet, FS_CardinalityType DEF TasksEnd, WorkersFit
  <2>4. ResultsFit' /\ ReportFits'
    BY <1>2 DEF TasksEnd, ResultsFit, ReportFits, ReportIsTrue
  <2> QED
    BY <2>2, <2>3, <2>4
<1>3. ASSUME EvaluationParts, Cancelling, language # "python", language' = language PROVE EvaluationParts'
  BY <1>3 DEF Cancelling, QueueFits, Queued, WorkersFit, ResultsFit, Unsampled, ReportFits, ReportIsTrue
<1>4. ASSUME EvaluationParts, Begins, language' = language PROVE EvaluationParts'
  BY <1>4 DEF Begins, QueueFits, Queued, WorkersFit, ResultsFit, Unsampled, ReportFits, ReportIsTrue
<1> QED
  BY <1>1, <1>2, <1>3, <1>4

\* Every step of a run keeps the invariant.
LEMMA EvaluationKeeps == EvaluationParts /\ EvaluationStep /\ language' = language => EvaluationParts'
BY TakesKeeps, SkipsKeeps, EvaluatingKeeps, SubjectEscapesKeeps, SummarisesKeeps, LastKeeps DEF EvaluationStep

\* A run begins with no more workers than there may be, and nothing evaluated.
LEMMA EvaluationBegins ==
  ASSUME NEW workers \in Nat, workers <= MaxConcurrency,
         BeginRun(workers, [c \in Ids |-> IF c \in Sampled THEN Unsampled ELSE "not-sampled"])
  PROVE  EvaluationParts
<1> USE DEF BeginRun
<1>1. QueueFits /\ Queued = Selection
  BY SelectedEffect DEF QueueFits, Queued, Selection
<1>2. WorkersFit
  BY FS_EmptySet DEF WorkersFit
<1>3. ResultsFit
  BY <1>1 DEF ResultsFit, Unsampled, Statuses, Selection
<1>4. ReportFits
  BY DEF ReportFits, ReportIsTrue
<1> QED
  BY <1>1, <1>2, <1>3, <1>4 DEF EvaluationParts

\* So it does in every language.
LEMMA EvaluationInit == InitEvaluation => EvaluationParts
<1> DEFINE start == [c \in Ids |-> IF c \in Sampled THEN Unsampled ELSE "not-sampled"]
           few == Least(MaxConcurrency, Len(Selected))
<1>1. /\ Len(Selected) \in Nat /\ few \in Nat /\ few <= MaxConcurrency
      /\ MaxConcurrency \in Nat
  BY SelectedEffect, LenProperties, CasesAssumption DEF Least
<1>2. SUFFICES ASSUME InitEvaluation PROVE BeginRun(few, start) \/ BeginRun(MaxConcurrency, start)
  <2> HIDE DEF few
  <2> QED
    BY <1>1, <1>2, EvaluationBegins
<1>3. CASE language = "typescript" /\ TypeScript!InitEvaluation
  <2>1. TypeScript!Selected = Selected
    BY Zenon DEF TypeScript!Selected, Selected
  <2>2. start = [c \in Ids |-> "not-sampled"]
    BY <1>3 DEF Unsampled
  <2> QED
    BY <1>3, <2>1, <2>2 DEF TypeScript!InitEvaluation, TypeScript!BeginRun, TypeScript!NotSampled,
      TypeScript!Least, TypeScript!Ids, Ids, BeginRun, Least
<1>4. CASE language = "javascript" /\ JavaScriptE!InitEvaluation
  <2>1. JavaScriptE!Selected = Selected
    BY Zenon DEF JavaScriptE!Selected, Selected
  <2>2. start = [c \in Ids |-> "not-sampled"]
    BY <1>4 DEF Unsampled
  <2> QED
    BY <1>4, <2>1, <2>2 DEF JavaScriptE!InitEvaluation, JavaScriptE!BeginRun, JavaScriptE!NotSampled,
      JavaScriptE!Least, JavaScriptE!Ids, Ids, BeginRun, Least
<1>5. CASE language = "python" /\ Python!InitEvaluation
  <2>1. Python!Selected = Selected
    BY Zenon DEF Python!Selected, Selected
  <2> QED
    BY <1>5, <2>1 DEF Python!InitEvaluation, Python!BeginRun, Python!Status, Python!Ids, Ids, BeginRun, Unsampled
<1>6. CASE language = "go" /\ Go!InitEvaluation
  <2>1. Go!Selected = Selected
    BY Zenon DEF Go!Selected, Selected
  <2> QED
    BY <1>6, <2>1 DEF Go!InitEvaluation, Go!BeginRun, Go!Status, Go!Least, Go!Ids, Ids, BeginRun, Least, Unsampled
<1>7. CASE language = "rust" /\ Rust!InitEvaluation
  <2>1. Rust!Selected = Selected
    BY Zenon DEF Rust!Selected, Selected
  <2> QED
    BY <1>7, <2>1 DEF Rust!InitEvaluation, Rust!BeginRun, Rust!Status, Rust!Least, Rust!Ids, Ids, BeginRun, Least, Unsampled
<1> QED
  BY <1>2, <1>3, <1>4, <1>5, <1>6, <1>7 DEF InitEvaluation

\* Other parts do not touch it.
LEMMA EvaluationStands == EvaluationInv /\ UNCHANGED <<choice, evaluationVars>> => EvaluationInv'
BY DEF choice, evaluationVars, EvaluationInv, EvaluationParts, QueueFits, Queued, WorkersFit, ResultsFit,
  Unsampled, ReportFits, ReportIsTrue, NoEvaluation

-----------------------------------------------------------------------------
(* The calls of providers.                                                 *)

\* No connection is opened: the caller has ended, what was called has thrown, or
\* the request cannot be serialised.
Refuses ==
  /\ step = "checking"
  /\ \/ Give("cancelled", FALSE) \/ Give("escaped", FALSE)
     \/ Reject(TRUE) /\ signal = "live" /\ language \in {"typescript", "javascript", "python"}
  /\ UNCHANGED <<signal, transport, response, held>>

\* The head of an answer arrives; fetch may refuse it for its declared length.
HeadArrives ==
  /\ step = "sending"
  /\ response' \in Responses
  /\ \/ step' = "reading" /\ UNCHANGED answer
     \/ Looping /\ response'.declared /\ response'.size > MaxBytes /\ Reject(FALSE)
  /\ UNCHANGED <<signal, transport, held>>

\* The answer r is judged when as much of its body as is wanted has been read.
Judges(r) ==
  /\ response' = r
  /\ transport' = (IF language = "python" /\ r.status # "accepted" THEN "open" ELSE "closed")
  /\ held' \in 0 .. r.size
  /\ Reject(FALSE) \/ (held' = r.size /\ r.size <= MaxBytes /\ (language = "go" => r.body # "list") /\ Judged(r))
  /\ UNCHANGED signal

\* The connection breaks, or the call is given up.
Breaks ==
  /\ step \in {"sending", "reading"}
  /\ transport' = "broken"
  /\ \/ Give("timeout", TRUE) \/ Give("cancelled", FALSE)
     \/ Reject(TRUE) /\ (signal = "cancelled" => language = "rust" \/ step = "reading")
  /\ UNCHANGED <<signal, response, held>>

\* A chunk of the body that is not the last that may be read.
ChunkArrives ==
  /\ step = "reading"
  /\ held' \in 0 .. response.size
  /\ held' <= MaxBytes
  /\ UNCHANGED <<signal, step, transport, response, answer>>

\* The caller ends; in Python that ends the call.
SignalFires ==
  /\ signal' \in {"cancelled", "expired"}
  /\ \/ step # "answered" /\ language # "python" /\ UNCHANGED <<step, answer>>
     \/ step = "sending" /\ language = "python" /\ Give("escaped", FALSE)
  /\ UNCHANGED <<transport, response, held>>

\* The thread of a call that was cancelled in Python ends.
ThreadIsOver ==
  /\ step = "answered"
  /\ transport' = "closed" /\ transport = "open"
  /\ UNCHANGED <<signal, step, response, held, answer>>

ProviderStep ==
  \/ Checking \/ Refuses \/ HeadArrives \/ ChunkArrives \/ Breaks \/ SignalFires \/ ThreadIsOver
  \/ step = "sending" /\ \E r \in Responses : Judges(r)
  \/ step = "reading" /\ Judges(response)

\* The adapter of TypeScript takes these steps.
LEMMA TypeScriptProvider == ProviderInv /\ Looping /\ TypeScript!NextProvider => ProviderStep
<1> SUFFICES ASSUME ProviderInv, Looping, TypeScript!NextProvider PROVE ProviderStep
  OBVIOUS
<1> USE DEF ProviderStep
<1>1. TypeScript!Check => ProviderStep
  BY DEF TypeScript!Check, TypeScript!Checking, TypeScript!Throwing, TypeScript!Reject, TypeScript!Give,
    Checking, Refuses, Looping, Reject, Give
<1>2. TypeScript!Respond => ProviderStep
  BY DEF TypeScript!Respond, TypeScript!Responses, TypeScript!Reject, TypeScript!Give, HeadArrives, Responses, Reject, Give
<1>3. TypeScript!Lose => ProviderStep
  BY DEF TypeScript!Lose, TypeScript!Reject, TypeScript!Give, Breaks, Reject, Give
<1>4. ASSUME TypeScript!Read PROVE ProviderStep
  <2>1. PICK n \in 1 .. response.size - held : held' = held + n
    BY <1>4 DEF TypeScript!Read
  <2>2. held \in Nat /\ response \in Responses /\ response.size \in Nat /\ MaxBytes \in Nat
    BY <1>4, MaxBytesAssumption DEF TypeScript!Read, ProviderInv, Responses
  <2>3. held' \in 0 .. response.size
    BY <2>1, <2>2
  <2>4. CASE held' > MaxBytes
    BY <1>4, <2>3, <2>4 DEF TypeScript!Read, TypeScript!TooLarge, TypeScript!Reject, TypeScript!Give, Judges, Looping, Reject, Give
  <2>5. CASE ~(held' > MaxBytes)
    BY <1>4, <2>2, <2>3, <2>5 DEF TypeScript!Read, TypeScript!TooLarge, ChunkArrives
  <2> QED
    BY <2>4, <2>5
<1>5. TypeScript!Break => ProviderStep
  BY DEF TypeScript!Break, TypeScript!Reject, TypeScript!Give, Breaks, Reject, Give
<1>6. ASSUME TypeScript!Judge PROVE ProviderStep
  <2>1. held = response.size /\ held \in Nat /\ held <= MaxBytes
    BY <1>6 DEF TypeScript!Judge, ProviderInv
  <2> QED
    BY <1>6, <2>1 DEF Looping, TypeScript!Judge, TypeScript!Judged, TypeScript!Reject, TypeScript!Give, Judges, Judged, Reject, Give
<1>7. TypeScript!EndProvider => ProviderStep
  BY DEF TypeScript!EndProvider, TypeScript!Ending, SignalFires, Looping
<1> QED
  BY <1>1, <1>2, <1>3, <1>4, <1>5, <1>6, <1>7 DEF TypeScript!NextProvider, TypeScript!ProceedProvider

\* That of JavaScript is the same.
LEMMA JavaScriptProvider == ProviderInv /\ Looping /\ JavaScriptP!NextProvider => ProviderStep
<1>1. JavaScriptP!NextProvider <=> TypeScript!NextProvider
  BY DEF JavaScriptP!NextProvider, JavaScriptP!ProceedProvider, JavaScriptP!Check, JavaScriptP!Respond,
    JavaScriptP!Lose, JavaScriptP!Read, JavaScriptP!Break, JavaScriptP!Judge, JavaScriptP!EndProvider,
    JavaScriptP!Checking, JavaScriptP!Throwing, JavaScriptP!Ending, JavaScriptP!Judged, JavaScriptP!TooLarge,
    JavaScriptP!Responses, JavaScriptP!Reject, JavaScriptP!Give, TypeScript!NextProvider,
    TypeScript!ProceedProvider, TypeScript!Check, TypeScript!Respond, TypeScript!Lose, TypeScript!Read,
    TypeScript!Break, TypeScript!Judge, TypeScript!EndProvider, TypeScript!Checking, TypeScript!Throwing, TypeScript!Ending,
    TypeScript!Judged, TypeScript!TooLarge, TypeScript!Responses, TypeScript!Reject, TypeScript!Give
<1> QED
  BY <1>1, TypeScriptProvider

\* The adapter of Python takes these steps; while it waits nobody has cancelled it.
LEMMA PythonProvider == ProviderInv /\ language = "python" /\ Python!NextProvider => ProviderStep
<1> SUFFICES ASSUME ProviderInv, language = "python", Python!NextProvider PROVE ProviderStep
  OBVIOUS
<1> USE DEF ProviderStep
<1>1. Python!Check => ProviderStep
  BY DEF Python!Check, Python!Checking, Python!Throwing, Python!Reject, Python!Give, Checking, Refuses, Reject, Give,
    ProviderInv
<1>2. ASSUME Python!Respond PROVE ProviderStep
  <2>1. PICK r \in Responses :
          /\ response' = r
          /\ held' = Least(r.size, MaxBytes + 1)
          /\ IF held' > MaxBytes THEN Reject(FALSE) ELSE Judged(r)
    BY <1>2 DEF Python!Respond, Python!Responses, Python!Least, Python!TooLarge, Python!Judged, Python!Reject, Python!Give,
      Responses, Least, Judged, Reject, Give
  <2>2. r.size \in Nat /\ MaxBytes \in Nat
    BY MaxBytesAssumption DEF Responses
  <2>3. held' \in 0 .. r.size /\ (~(held' > MaxBytes) => held' = r.size /\ r.size <= MaxBytes)
    BY <2>1, <2>2 DEF Least
  <2>4. transport' = IF r.status # "accepted" THEN "open" ELSE "closed"
    BY <1>2, <2>1 DEF Python!Respond, ProviderInv
  <2> QED
    BY <1>2, <2>1, <2>3, <2>4 DEF Python!Respond, Judges
<1>3. Python!Lose => ProviderStep
  BY DEF Python!Lose, Python!Reject, Python!Give, Breaks, Reject, Give, ProviderInv
<1>4. Python!EndProvider \/ Python!ThreadEnds => ProviderStep
  BY DEF Python!EndProvider, Python!ThreadEnds, Python!Give, SignalFires, ThreadIsOver, Give
<1> QED
  BY <1>1, <1>2, <1>3, <1>4 DEF Python!NextProvider, Python!ProceedProvider

\* The adapter of Go takes these steps.
LEMMA GoProvider == ProviderInv /\ language = "go" /\ Go!NextProvider => ProviderStep
<1> SUFFICES ASSUME ProviderInv, language = "go", Go!NextProvider PROVE ProviderStep
  OBVIOUS
<1> USE DEF ProviderStep
<1>1. Go!Check => ProviderStep
  BY DEF Go!Check, Go!Checking, Go!Reject, Go!Give, Checking, Reject, Give
<1>2. Go!Respond => ProviderStep
  BY DEF Go!Respond, Go!Responses, HeadArrives, Responses
<1>3. Go!Lose \/ Go!Break => ProviderStep
  BY DEF Go!Lose, Go!Break, Go!Reject, Go!Give, Breaks, Reject, Give
<1>4. ASSUME Go!Judge PROVE ProviderStep
  <2>1. response \in Responses /\ response.size \in Nat /\ MaxBytes \in Nat
    BY <1>4, MaxBytesAssumption DEF Go!Judge, ProviderInv, Responses
  <2>2. /\ held' = IF response.size > MaxBytes THEN MaxBytes + 1 ELSE response.size
        /\ Reject(FALSE) \/ (~(held' > MaxBytes) /\ response.body # "list" /\ Judged(response))
    BY <1>4 DEF Go!Judge, Go!TooLarge, Go!Judged, Go!Reject, Go!Give, Judged, Reject, Give
  <2>3. held' \in 0 .. response.size /\ (~(held' > MaxBytes) => held' = response.size /\ response.size <= MaxBytes)
    BY <2>1, <2>2
  <2> QED
    BY <1>4, <2>2, <2>3 DEF Go!Judge, Judges
<1>5. Go!EndProvider => ProviderStep
  BY DEF Go!EndProvider, Go!Ending, SignalFires
<1> QED
  BY <1>1, <1>2, <1>3, <1>4, <1>5 DEF Go!NextProvider, Go!ProceedProvider

\* The adapter of Rust takes these steps.
LEMMA RustProvider == ProviderInv /\ language = "rust" /\ Rust!NextProvider => ProviderStep
<1> SUFFICES ASSUME ProviderInv, language = "rust", Rust!NextProvider PROVE ProviderStep
  OBVIOUS
<1> USE DEF ProviderStep
<1>1. Rust!Check => ProviderStep
  BY DEF Rust!Check, Rust!Checking, Rust!Reject, Rust!Give, Checking, Refuses, Reject, Give
<1>2. ASSUME Rust!Respond PROVE ProviderStep
  <2>1. PICK r \in Responses :
          response' = r /\ held' = r.size /\ IF held' > MaxBytes THEN Reject(FALSE) ELSE Judged(r)
    BY <1>2 DEF Rust!Respond, Rust!Responses, Rust!TooLarge, Rust!Judged, Rust!Reject, Rust!Give,
      Responses, Judged, Reject, Give
  <2>2. r.size \in Nat /\ MaxBytes \in Nat
    BY MaxBytesAssumption DEF Responses
  <2>3. held' \in 0 .. r.size /\ (~(held' > MaxBytes) => held' = r.size /\ r.size <= MaxBytes)
    BY <2>1, <2>2
  <2> QED
    BY <1>2, <2>1, <2>3 DEF Rust!Respond, Judges
<1>3. Rust!Lose => ProviderStep
  BY DEF Rust!Lose, Rust!Reject, Rust!Give, Breaks, Reject, Give
<1>4. Rust!EndProvider => ProviderStep
  BY DEF Rust!EndProvider, Rust!Ending, SignalFires
<1> QED
  BY <1>1, <1>2, <1>3, <1>4 DEF Rust!NextProvider, Rust!ProceedProvider

\* What a provider answers is something.
LEMMA AnswersAreSomething ==
  ASSUME NEW r \in Responses
  PROVE  /\ r # Nothing /\ r.size \in Nat
         /\ r.status \in {"accepted", "transient", "rejected"} /\ r.body \in {"object", "failure", "null", "list", "text"}
BY MaxBytesAssumption DEF Responses, Nothing

\* An answer has the kind and the verdict with which it is given.
LEMMA AnswerIsGiven ==
  ASSUME NEW kind \in Kinds, NEW retryable \in BOOLEAN, Give(kind, retryable)
  PROVE  /\ step' = "answered" /\ answer' \in [kind : Kinds, retryable : BOOLEAN]
         /\ answer'.kind = kind /\ (answer'.retryable <=> retryable)
         /\ answer' = [kind |-> "provider", retryable |-> TRUE] => kind = "provider" /\ retryable
<1>1. answer' = [kind |-> kind, retryable |-> retryable] /\ step' = "answered"
  BY DEF Give
<1>2. answer'.retryable = retryable /\ answer'.kind = kind /\ answer' \in [kind : Kinds, retryable : BOOLEAN]
  BY <1>1
<1>3. ASSUME answer' = [kind |-> "provider", retryable |-> TRUE] PROVE answer'.retryable = TRUE /\ answer'.kind = "provider"
  BY <1>3
<1> QED
  BY <1>1, <1>2, <1>3, Zenon

\* A refusal is final.
LEMMA RefusalIsGiven ==
  ASSUME NEW kind \in Kinds, Give(kind, FALSE)
  PROVE  /\ step' = "answered" /\ answer' \in [kind : Kinds, retryable : BOOLEAN]
         /\ answer'.kind = kind /\ ~answer'.retryable
         /\ answer' # [kind |-> "provider", retryable |-> TRUE]
BY AnswerIsGiven, Zenon

\* An answer that is judged when all of it was read is judged as it is.
LEMMA JudgesKeeps ==
  ASSUME ProviderInv, NEW r \in Responses, Judges(r), language' = language
  PROVE  ProviderInv'
<1>1. /\ response' = r /\ transport' \in {"open", "closed"} /\ held' \in Nat /\ held' <= r.size
      /\ signal' = signal /\ step' = "answered" /\ r # Nothing
      /\ r.body \in {"object", "failure", "null", "list", "text"}
  BY AnswersAreSomething DEF Judges, Judged, Reject, Give
<1>2. PICK kind \in Kinds, retryable \in BOOLEAN :
        /\ Give(kind, retryable)
        /\ kind = "success" =>
             /\ r.status = "accepted" /\ r.body \in {"object", "null", "list"}
             /\ (language = "go" => r.body # "list") /\ held' = r.size /\ r.size <= MaxBytes
        /\ retryable => r.status = "transient" /\ held' = r.size
  <2>1. "provider" \in Kinds /\ "success" \in Kinds
    BY DEF Kinds
  <2>2. CASE Reject(FALSE)
    BY <2>1, <2>2 DEF Reject
  <2>3. CASE held' = r.size /\ r.size <= MaxBytes /\ (language = "go" => r.body # "list") /\ Judged(r)
    <3>1. CASE Reject(FALSE)
      BY <2>2, <3>1
    <3>2. CASE Reject(r.status = "transient")
      <4>1. PICK b \in BOOLEAN : Give("provider", b) /\ (b => r.status = "transient")
        BY <3>2, Zenon DEF Reject
      <4> QED
        BY <2>1, <2>3, <4>1
    <3>3. CASE Give("success", FALSE) /\ r.body \notin {"text", "failure"} /\ r.status = "accepted"
      BY <1>1, <2>1, <2>3, <3>3
    <3> QED
      BY <2>3, <3>1, <3>2, <3>3, Zenon DEF Judged
  <2> QED
    BY <2>2, <2>3 DEF Judges
<1>3. /\ answer' \in [kind : Kinds, retryable : BOOLEAN]
      /\ answer'.kind = kind /\ (answer'.retryable <=> retryable)
  BY <1>2, AnswerIsGiven
<1>4. VerdictIsTrue'
  BY <1>1, <1>2, <1>3 DEF VerdictIsTrue
<1>5. TransportIsReleased'
  <2>1. transport' = "open" => language' = "python" /\ response'.status \in {"transient", "rejected"}
    BY <1>1, AnswersAreSomething DEF Judges
  <2> QED
    BY <2>1 DEF TransportIsReleased
<1>6. AbortIsNoProviderFailure'
  BY <1>1 DEF AbortIsNoProviderFailure
<1> QED
  BY <1>1, <1>3, <1>4, <1>5, <1>6 DEF ProviderInv, ProviderContract

\* Every step of a call keeps the invariant.
LEMMA ProviderKeeps == ProviderInv /\ ProviderStep /\ language' = language => ProviderInv'
<1> SUFFICES ASSUME ProviderInv, ProviderStep, language' = language PROVE ProviderInv'
  OBVIOUS
<1> USE DEF ProviderInv, ProviderContract, TransportIsReleased, AbortIsNoProviderFailure, VerdictIsTrue, Kinds
<1>1. CASE Checking
  <2>1. CASE Reject(FALSE)
    BY <1>1, <2>1, RefusalIsGiven DEF Checking, Reject
  <2>2. CASE step' = "sending" /\ transport' = "open" /\ answer' = answer
    BY <1>1, <2>2 DEF Checking, NoAnswer
  <2> QED
    BY <1>1, <2>1, <2>2 DEF Checking
<1>2. CASE Refuses
  <2>1. CASE Give("cancelled", FALSE) \/ Give("escaped", FALSE)
    BY <1>2, <2>1, RefusalIsGiven DEF Refuses
  <2>2. CASE Reject(TRUE) /\ signal = "live" /\ language \in {"typescript", "javascript", "python"}
    BY <1>2, <2>2, AnswerIsGiven DEF Refuses, Reject
  <2> QED
    BY <1>2, <2>1, <2>2 DEF Refuses
<1>3. CASE HeadArrives
  <2>1. response' \in Responses /\ response' # Nothing /\ response'.size \in Nat /\ held = 0 /\ held' = 0
        /\ signal' = signal /\ transport' = "open"
    BY <1>3, AnswersAreSomething DEF HeadArrives, Nothing
  <2>2. CASE step' = "reading" /\ answer' = answer
    BY <1>3, <2>1, <2>2, MaxBytesAssumption DEF HeadArrives, NoAnswer
  <2>3. CASE Looping /\ response'.declared /\ response'.size > MaxBytes /\ Reject(FALSE)
    BY <1>3, <2>1, <2>3, RefusalIsGiven DEF HeadArrives, Looping, Reject
  <2> QED
    BY <1>3, <2>2, <2>3 DEF HeadArrives
<1>4. CASE ChunkArrives
  BY <1>4, AnswersAreSomething DEF ChunkArrives, NoAnswer
<1>5. CASE Breaks
  <2>1. step = "reading" => response # Nothing
    BY AnswersAreSomething
  <2>2. PICK kind \in {"timeout", "cancelled", "provider"}, retryable \in BOOLEAN :
          /\ Give(kind, retryable)
          /\ kind = "provider" => (signal = "cancelled" => language = "rust" \/ step = "reading")
    BY <1>5 DEF Breaks, Reject
  <2>3. /\ answer' \in [kind : Kinds, retryable : BOOLEAN] /\ answer'.kind = kind /\ step' = "answered"
        /\ answer' = [kind |-> "provider", retryable |-> TRUE] => kind = "provider"
    BY <2>2, AnswerIsGiven DEF Kinds
  <2> QED
    BY <1>5, <2>1, <2>2, <2>3 DEF Breaks
<1>6. CASE SignalFires
  <2>1. CASE step # "answered" /\ language # "python" /\ step' = step /\ answer' = answer
    BY <1>6, <2>1 DEF SignalFires, NoAnswer
  <2>2. CASE step = "sending" /\ language = "python" /\ Give("escaped", FALSE)
    BY <1>6, <2>2, RefusalIsGiven DEF SignalFires
  <2> QED
    BY <1>6, <2>1, <2>2 DEF SignalFires
<1>7. CASE ThreadIsOver
  BY <1>7 DEF ThreadIsOver
<1>8. CASE step = "sending" /\ \E r \in Responses : Judges(r)
  BY <1>8, JudgesKeeps
<1>9. CASE step = "reading" /\ Judges(response)
  BY <1>9, JudgesKeeps
<1> QED
  BY <1>1, <1>2, <1>3, <1>4, <1>5, <1>6, <1>7, <1>8, <1>9 DEF ProviderStep

\* It holds of a call that begins.
LEMMA ProviderBegins == BeginProvider => ProviderInv
BY DEF BeginProvider, ProviderInv, ProviderContract, TransportIsReleased, AbortIsNoProviderFailure, VerdictIsTrue,
  Nothing, NoAnswer

\* Other parts do not touch it.
LEMMA ProviderStands == ProviderInv /\ UNCHANGED <<language, providerVars>> => ProviderInv'
BY DEF providerVars, ProviderInv, ProviderContract, TransportIsReleased, AbortIsNoProviderFailure, VerdictIsTrue

-----------------------------------------------------------------------------
(* The handlers of frameworks.                                             *)

\* Every step at a handler keeps the invariant.
LEMMA HandlerKeeps == HandlerInv /\ HandlerNext => HandlerInv'
<1> SUFFICES ASSUME HandlerInv, HandlerNext PROVE HandlerInv'
  OBVIOUS
<1> USE DEF HandlerInv, ReplyTellsOutcome, ClosedByReading, Outcomes
<1>1. ASSUME NEW handlers, NEW refusal \in {"error", "refused"}, Accepting(handlers, refusal) PROVE HandlerInv'
  BY <1>1 DEF Accepting, Refuse, Ask
<1>2. CASE AcceptTypeScript \/ AcceptPython \/ AcceptGo \/ AcceptRust
  BY <1>1, <1>2 DEF AcceptTypeScript, AcceptPython, AcceptGo, AcceptRust
<1>3. CASE Probe
  BY <1>3 DEF Probe
<1>4. CASE Stop
  BY <1>4 DEF Stop
<1>5. CASE Reply
  BY <1>5 DEF Reply
<1>6. CASE Execute
  BY <1>6 DEF Execute
<1>7. CASE Leave
  BY <1>7 DEF Leave, Abort
<1>8. CASE Drop
  BY <1>8 DEF Drop
<1>9. CASE Consume
  BY <1>9 DEF Consume, Abort
<1>10. CASE ProbeFails
  BY <1>10 DEF ProbeFails
<1> QED
  BY <1>2, <1>3, <1>4, <1>5, <1>6, <1>7, <1>8, <1>9, <1>10 DEF HandlerNext, HandlerProceed

\* It holds of a request that is made.
LEMMA HandlerBegins == BeginHandler \/ NoHandler => HandlerInv
BY DEF BeginHandler, NoHandler, HandlerInv, ReplyTellsOutcome, ClosedByReading

\* Other parts do not touch it.
LEMMA HandlerStands == HandlerInv /\ UNCHANGED handlerVars => HandlerInv'
BY DEF handlerVars, HandlerInv, ReplyTellsOutcome, ClosedByReading

-----------------------------------------------------------------------------
(* The specification.                                                      *)

\* All parts begin as their invariants say.
LEMMA ModulesBegin == Init => ModulesInv
<1> SUFFICES ASSUME Init PROVE ModulesInv
  OBVIOUS
<1>1. part = "evaluation" => InitEvaluation
  BY DEF Init
<1>2. part # "evaluation" => NoEvaluation
  BY DEF Init, InitTool, InitProvider
<1>3. EvaluationInv
  BY <1>1, <1>2, EvaluationInit DEF EvaluationInv
<1>4. BeginCall \/ NoTool
  BY DEF Init, InitTool, InitEvaluation, InitProvider, TypeScript!InitTool, JavaScriptT!InitTool, Python!InitTool,
    Go!InitTool, Rust!InitTool, TypeScript!BeginCall, JavaScriptT!BeginCall, Python!BeginCall, Go!BeginCall,
    Rust!BeginCall, BeginCall
<1>5. BeginProvider
  BY DEF Init, InitTool, InitEvaluation, InitProvider, NoProvider, TypeScript!InitProvider, JavaScriptP!InitProvider,
    Python!InitProvider, Go!InitProvider, Rust!InitProvider, TypeScript!BeginProvider, JavaScriptP!BeginProvider,
    Python!BeginProvider, Go!BeginProvider, Rust!BeginProvider, TypeScript!Nothing, JavaScriptP!Nothing,
    Python!Nothing, Go!Nothing, Rust!Nothing, TypeScript!NoAnswer, JavaScriptP!NoAnswer, Python!NoAnswer,
    Go!NoAnswer, Rust!NoAnswer, BeginProvider, Nothing, NoAnswer
<1>6. BeginHandler \/ NoHandler
  BY DEF Init, InitTool, InitEvaluation, InitProvider
<1>7. BeginCall
  BY <1>4 DEF NoTool, BeginCall
<1> QED
  BY <1>3, <1>5, <1>6, <1>7, ToolBegins, ProviderBegins, HandlerBegins DEF ModulesInv

\* The steps of the part that a behaviour is about, whatever its language.
LEMMA StepsAreKnown ==
  ASSUME ModulesInv, Next
  PROVE  /\ language' = language /\ part' = part
         /\ \/ part = "tool" /\ ToolStep /\ UNCHANGED <<evaluationVars, providerVars, handlerVars>>
            \/ part = "evaluation" /\ EvaluationStep /\ UNCHANGED <<toolVars, providerVars, handlerVars>>
            \/ part = "provider" /\ ProviderStep /\ UNCHANGED <<toolVars, evaluationVars, handlerVars>>
            \/ part = "framework" /\ HandlerNext /\ UNCHANGED <<toolVars, evaluationVars, providerVars>>
<1> USE DEF choice
<1>1. CASE NextTool
  BY <1>1, TypeScriptTool, JavaScriptTool, PythonTool, GoTool, RustTool DEF NextTool
<1>2. CASE NextEvaluation
  BY <1>2, TypeScriptEvaluation, JavaScriptEvaluation, PythonEvaluation, GoEvaluation, RustEvaluation
     DEF NextEvaluation, ModulesInv, EvaluationInv, Looping
<1>3. CASE NextProvider
  BY <1>3, TypeScriptProvider, JavaScriptProvider, PythonProvider, GoProvider, RustProvider
     DEF NextProvider, ModulesInv, Looping
<1>4. CASE NextHandler
  BY <1>4 DEF NextHandler
<1> QED
  BY <1>1, <1>2, <1>3, <1>4 DEF Next

\* Every step keeps the invariant of its part, and those of the others.
LEMMA ModulesKeep == ModulesInv /\ [Next]_vars => ModulesInv'
<1> SUFFICES ASSUME ModulesInv, [Next]_vars PROVE ModulesInv'
  OBVIOUS
<1>1. CASE Next
  <2>1. language' = language /\ part' = part /\ UNCHANGED choice
    BY <1>1, StepsAreKnown DEF choice
  <2>2. ToolInv'
    BY <1>1, <2>1, StepsAreKnown, ToolKeeps, ToolStands DEF ModulesInv
  <2>3. EvaluationInv'
    <3>1. CASE part = "evaluation"
      BY <1>1, <2>1, <3>1, StepsAreKnown, EvaluationKeeps DEF ModulesInv, EvaluationInv
    <3>2. CASE part # "evaluation"
      BY <1>1, <2>1, <3>2, StepsAreKnown, EvaluationStands DEF ModulesInv
    <3> QED
      BY <3>1, <3>2
  <2>4. ProviderInv'
    BY <1>1, <2>1, StepsAreKnown, ProviderKeeps, ProviderStands DEF ModulesInv
  <2>5. HandlerInv'
    BY <1>1, <2>1, StepsAreKnown, HandlerKeeps, HandlerStands DEF ModulesInv
  <2> QED
    BY <2>2, <2>3, <2>4, <2>5 DEF ModulesInv
<1>2. CASE UNCHANGED vars
  BY <1>2, ToolStands, EvaluationStands, ProviderStands, HandlerStands DEF ModulesInv, vars, choice
<1> QED
  BY <1>1, <1>2

\* The inductive invariant holds of every behaviour.
THEOREM ModulesAreInvariant == Spec => []ModulesInv
BY ModulesBegin, ModulesKeep, PTL DEF Spec

\* The invariants of the parts say what the contract asks of them.
LEMMA ModulesMean == ModulesInv => ToolContract /\ ReportIsTrue /\ ProviderContract /\ ReplyTellsOutcome
<1> SUFFICES ASSUME ModulesInv PROVE ToolContract /\ ReportIsTrue /\ ProviderContract /\ ReplyTellsOutcome
  OBVIOUS
<1> USE DEF ModulesInv
<1>1. /\ cancelled \in BOOLEAN
      /\ active \subseteq Sampled /\ begun \subseteq active
      /\ idle + Cardinality(active) <= MaxConcurrency
      /\ results \in [DOMAIN results -> Statuses \cup {"none"}]
      /\ report \in {"none", "summarised", "returned", "escaped"}
      /\ ReportIsTrue
  <2>1. CASE part = "evaluation"
    <3>1. EvaluationParts
      BY <2>1 DEF EvaluationInv
    <3>2. results \in [DOMAIN results -> Statuses \cup {"none"}]
      BY <3>1 DEF EvaluationParts, ResultsFit
    <3> QED
      BY <3>1, <3>2 DEF EvaluationParts, QueueFits, Selection, WorkersFit, ReportFits
  <2>2. CASE part # "evaluation"
    <3>1. NoEvaluation
      BY <2>2 DEF EvaluationInv
    <3>2. idle + Cardinality(active) <= MaxConcurrency
      BY <3>1, FS_EmptySet, CasesAssumption DEF NoEvaluation
    <3>3. results \in [DOMAIN results -> Statuses \cup {"none"}]
      BY <3>1 DEF NoEvaluation
    <3> QED
      BY <3>1, <3>2, <3>3 DEF NoEvaluation, ReportIsTrue
  <2> QED
    BY <2>1, <2>2
<1>2. TypeOK
  BY <1>1 DEF TypeOK, ToolInv, ProviderInv, HandlerInv
<1>3. AbandonedIsTold
  BY DEF ToolInv, AbandonedIsTold
<1> QED
  BY <1>1, <1>2, <1>3 DEF ToolContract, ToolInv, ProviderInv, HandlerInv

\* Whoever looks at a call of a tool sees the same call, in every language.
THEOREM EveryToolCallIsContracted == Spec => []ToolContract
BY ModulesAreInvariant, ModulesMean, PTL

\* The report of a run comes after every case, and says what became of each.
THEOREM EveryReportIsTrue == Spec => []ReportIsTrue
BY ModulesAreInvariant, ModulesMean, PTL

\* The answer of a provider is judged as it is, and nothing is left open.
THEOREM EveryProviderCallIsContracted == Spec => []ProviderContract
BY ModulesAreInvariant, ModulesMean, PTL

\* The reply to a client comes after the runtime, and tells its outcome.
THEOREM EveryReplyTellsItsOutcome == Spec => []ReplyTellsOutcome
BY ModulesAreInvariant, ModulesMean, PTL

\* After the cancellation of a run no case of it is taken to its subject, except
\* in Go, and in Rust those that a thread has already.
LEMMA CancelledStartsNothing ==
  ModulesInv /\ [Next]_vars =>
    [part = "evaluation" /\ language # "go" /\ cancelled =>
       begun' \subseteq IF language = "rust" THEN active ELSE begun]_vars
<1> SUFFICES ASSUME ModulesInv, Next, part = "evaluation", language # "go", cancelled
             PROVE  begun' \subseteq IF language = "rust" THEN active ELSE begun
  OBVIOUS
<1>1. EvaluationStep /\ EvaluationParts
  BY StepsAreKnown DEF ModulesInv, EvaluationInv
<1>2. ~Takes
  BY <1>1 DEF Takes, Claiming, EvaluationParts, ReportFits
<1>3. begun \subseteq active
  BY <1>1 DEF EvaluationParts, QueueFits
<1> QED
  BY <1>1, <1>2, <1>3 DEF EvaluationStep, Begins, Skips, Summarises, Delivering, TasksEnd, Evaluating, SubjectEscapes, Cancelling

\* The same of every behaviour.
THEOREM CancellationStartsNothing == Spec => CancelStartsNothing
<1>1. Spec => []ModulesInv /\ [][Next]_vars
  BY ModulesAreInvariant DEF Spec
<1> QED
  BY <1>1, CancelledStartsNothing, PTL DEF CancelStartsNothing
=============================================================================
