-------------------------- MODULE TypeScriptModules --------------------------
(***************************************************************************)
(* The modules that are generated beside the TypeScript runtime: tooling,  *)
(* evaluation (src/extensions/runtimes/modules/typescript.ts) and the      *)
(* provider adapter (src/extensions/runtimes/providers/typescript.ts).     *)
(***************************************************************************)
EXTENDS ModuleCalls

------------------------------------------------------------------------------
(***************************************************************************)
(* ToolRunner of the generated TypeScript runtime                          *)
(* (src/extensions/runtimes/modules/typescript.ts).  The signal of the     *)
(* caller and a timer abort one controller, and the first of the handler   *)
(* and the abort wins the race: what follows happens in the same turn of   *)
(* the event loop.                                                         *)
(***************************************************************************)

InitTool == BeginCall

Start == Starting
Screen == Screening

\* Seeded fault: an approval port that fails is taken for one that agrees.
Approve_FailsOpen ==
  /\ pc = "asking"
  /\ pc' = "ready"
  /\ consent' \in {"granted", "required"}
  /\ UNCHANGED <<caller, handler, events, outcome>>

Approve == Asking

\* The handler is started even if the caller has ended, which then wins.
Invoke ==
  /\ pc = "ready"
  /\ IF Ended
     THEN Fail("cancelled") /\ handler' = "told"
     ELSE pc' = "racing" /\ handler' = "running" /\ UNCHANGED outcome
  /\ UNCHANGED <<caller, consent, events>>

Reply == Replying

\* Seeded fault: every abort is taken for one by the caller.
Deadline_IsCancelled ==
  /\ pc = "racing"
  /\ handler' = "told"
  /\ Fail("cancelled")
  /\ UNCHANGED <<caller, consent, events>>

Deadline ==
  /\ pc = "racing"
  /\ handler' = "told"
  /\ Fail("timeout")
  /\ UNCHANGED <<caller, consent, events>>

Report == Reporting

\* The caller aborts its signal, which aborts the controller.
EndTool ==
  /\ caller = "live"
  /\ caller' = "cancelled"
  /\ IF pc = "racing"
     THEN Fail("cancelled") /\ handler' = "told"
     ELSE UNCHANGED <<pc, outcome, handler>>
  /\ UNCHANGED <<consent, events>>

\* What happens without the help of a handler or a caller.
ProceedTool == Start \/ Screen \/ Approve \/ Invoke \/ Deadline \/ Report
NextTool == ProceedTool \/ Reply \/ EndTool \/ HandlerEnds

------------------------------------------------------------------------------
(***************************************************************************)
(* EvaluationRunner of the generated TypeScript runtime                    *)
(* (src/extensions/runtimes/modules/typescript.ts): asynchronous loops     *)
(* over a common cursor that look at the signal before each case.          *)
(***************************************************************************)

NotSampled == [c \in Ids |-> "not-sampled"]
InitEvaluation == BeginRun(Least(MaxConcurrency, Len(Selected)), NotSampled)

\* Seeded fault: the signal is looked at once, by the caller.
Take_Regardless == Taking

Take == ~cancelled /\ Taking

Evaluate(c) == Evaluating(c)

\* Seeded fault: the cases that were not reached keep the status they began with.
Summarise_Unmarked ==
  /\ report = "none"
  /\ active = {}
  /\ queue = <<>> \/ cancelled
  /\ report' = "summarised"
  /\ UNCHANGED <<cancelled, queue, idle, active, begun, results>>

\* All loops have ended: what was selected and not evaluated was cancelled.
Summarise ==
  /\ report = "none"
  /\ active = {}
  /\ queue = <<>> \/ cancelled
  /\ report' = "summarised"
  /\ results' = [c \in Ids |->
       IF cancelled /\ c \in Sampled /\ results[c] = "not-sampled" THEN "cancelled" ELSE results[c]]
  /\ UNCHANGED <<cancelled, queue, idle, active, begun>>

Deliver == Delivering
Cancel == Cancelling

ProceedEvaluation == Take \/ (\E c \in Ids : Evaluate(c)) \/ Summarise \/ Deliver
NextEvaluation == ProceedEvaluation \/ Cancel

------------------------------------------------------------------------------
(***************************************************************************)
(* ResponsesApiAdapter of the generated TypeScript runtime                 *)
(* (src/extensions/runtimes/providers/typescript.ts) over fetch, whose     *)
(* signal also ends the reading of the body.                               *)
(***************************************************************************)

InitProvider == BeginProvider

\* JSON.stringify is an argument of fetch; its errors are judged with those.
Check == Checking \/ Throwing(IF signal = "live" THEN Reject(TRUE) ELSE Give("cancelled", FALSE))

\* fetch resolves.  A declared length is enough to refuse the body, which is
\* then neither read nor cancelled.
Respond ==
  /\ step = "sending"
  /\ \E r \in Responses :
       /\ response' = r
       /\ IF r.declared /\ r.size > MaxBytes THEN Reject(FALSE) ELSE step' = "reading" /\ UNCHANGED answer
  /\ UNCHANGED <<signal, transport, held>>

\* fetch rejects.
Lose ==
  /\ step = "sending"
  /\ transport' = "broken"
  /\ IF signal = "live" THEN Reject(TRUE) ELSE Give("cancelled", FALSE)
  /\ UNCHANGED <<signal, response, held>>

\* Seeded fault: the reader is left alone when the limit is passed.
Read_Leaks ==
  /\ step = "reading"
  /\ held < response.size
  /\ \E n \in 1 .. response.size - held : held' = held + n
  /\ IF TooLarge' THEN Reject(FALSE) ELSE UNCHANGED <<step, answer>>
  /\ UNCHANGED <<signal, transport, response>>

\* A chunk, which may take the length over the limit: reader.cancel.
Read ==
  /\ step = "reading"
  /\ held < response.size
  /\ \E n \in 1 .. response.size - held : held' = held + n
  /\ IF TooLarge'
     THEN Reject(FALSE) /\ transport' = "closed"
     ELSE UNCHANGED <<step, answer, transport>>
  /\ UNCHANGED <<signal, response>>

\* The connection fails, or the signal is aborted, while the body is read.
Break ==
  /\ step = "reading"
  /\ transport' = "broken"
  /\ Reject(TRUE)
  /\ UNCHANGED <<signal, response, held>>

\* The end of the body.
Judge ==
  /\ step = "reading"
  /\ held = response.size
  /\ transport' = "closed"
  /\ Judged(response)
  /\ UNCHANGED <<signal, response, held>>

EndProvider == Ending("cancelled")

ProceedProvider == Check \/ Respond \/ Lose \/ Read \/ Break \/ Judge
NextProvider == ProceedProvider \/ EndProvider
==============================================================================
