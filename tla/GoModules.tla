------------------------------ MODULE GoModules ------------------------------
(***************************************************************************)
(* The modules that are generated beside the Go runtime: tooling,          *)
(* evaluation (src/extensions/runtimes/modules/go.ts) and the              *)
(* provider adapter (src/extensions/runtimes/providers/go.ts).             *)
(***************************************************************************)
EXTENDS ModuleCalls

------------------------------------------------------------------------------
(***************************************************************************)
(* ToolRunner of the generated Go runtime                                  *)
(* (src/extensions/runtimes/modules/go.ts).  The handler is a goroutine    *)
(* under a context derived from that of the caller; select takes its       *)
(* result or the end of that context, either one if both are ready.        *)
(***************************************************************************)

InitTool == BeginCall

Start == Starting
Screen == Screening
Approve == Asking

\* The goroutine is started whatever the context says.
Invoke ==
  /\ pc = "ready"
  /\ pc' = "racing"
  /\ handler' = IF Ended THEN "told" ELSE "running"
  /\ UNCHANGED <<caller, consent, events, outcome>>

\* Seeded fault: success is told before the output is validated.
Reply_TellsFirst ==
  /\ pc = "racing"
  /\ handler' = "finished"
  /\ Emit("tool-succeeded")
  /\ \/ Fail("invalid-output")
     \/ pc' = "done" /\ outcome' = "success"
  /\ UNCHANGED <<caller, consent>>

Reply == Replying

\* The context of the call is done; that of the caller tells why.
Done ==
  /\ pc = "racing"
  /\ handler' = "told"
  /\ Fail(IF Ended THEN "cancelled" ELSE "timeout")
  /\ UNCHANGED <<caller, consent, events>>

Report == Reporting

\* The context of the caller is cancelled or expires, with all derived ones.
EndTool ==
  /\ caller = "live"
  /\ caller' \in {"cancelled", "expired"}
  /\ handler' = IF handler = "running" THEN "told" ELSE handler
  /\ UNCHANGED <<pc, consent, events, outcome>>

\* What happens without the help of a handler or a caller.
ProceedTool == Start \/ Screen \/ Approve \/ Invoke \/ Done \/ Report
NextTool == ProceedTool \/ Reply \/ EndTool \/ HandlerEnds

------------------------------------------------------------------------------
(***************************************************************************)
(* EvaluationRunner of the generated Go runtime                            *)
(* (src/extensions/runtimes/modules/go.ts): goroutines that receive the    *)
(* cases over a channel.  Only subjects look at the context, so that a     *)
(* run that is cancelled still takes every case to its subject.            *)
(***************************************************************************)

Status == [c \in Ids |-> IF c \in Sampled THEN "none" ELSE "not-sampled"]
InitEvaluation == BeginRun(Least(MaxConcurrency, Len(Selected)), Status)

Take == Taking
Evaluate(c) == Evaluating(c)

\* Seeded fault: the report does not wait for the goroutines.
Summarise_Early ==
  /\ report = "none"
  /\ queue = <<>>
  /\ report' = "summarised"
  /\ UNCHANGED <<cancelled, queue, idle, active, begun, results>>

\* The channel is closed and workers.Wait has returned.
Summarise ==
  /\ report = "none"
  /\ queue = <<>>
  /\ active = {}
  /\ report' = "summarised"
  /\ UNCHANGED <<cancelled, queue, idle, active, begun, results>>

Deliver == Delivering
Cancel == Cancelling

ProceedEvaluation == Take \/ (\E c \in Ids : Evaluate(c)) \/ Summarise \/ Deliver
NextEvaluation == ProceedEvaluation \/ Cancel

------------------------------------------------------------------------------
(***************************************************************************)
(* ResponsesAPIAdapter of the generated Go runtime                         *)
(* (src/extensions/runtimes/providers/go.ts) over net/http, with a context *)
(* derived from that of the caller and config.Timeout.                     *)
(***************************************************************************)

InitProvider == BeginProvider
Check == Checking

\* http.Do returns the head of the answer.
Respond ==
  /\ step = "sending"
  /\ response' \in Responses
  /\ step' = "reading"
  /\ UNCHANGED <<signal, transport, held, answer>>

\* Seeded fault: the context is not asked.
Lose_NotCancelled ==
  /\ step = "sending"
  /\ transport' = "broken"
  /\ Reject(TRUE)
  /\ UNCHANGED <<signal, response, held>>

\* http.Do fails: the deadline, which may be that of the caller, the
\* cancellation, or the network.
Lose ==
  /\ step = "sending"
  /\ transport' = "broken"
  /\ \/ Give("timeout", TRUE)
     \/ signal = "cancelled" /\ Give("cancelled", FALSE)
     \/ signal = "live" /\ Reject(TRUE)
  /\ UNCHANGED <<signal, response, held>>

\* io.ReadAll fails, whether the context has ended or not.
Break ==
  /\ step = "reading"
  /\ transport' = "broken"
  /\ Reject(TRUE)
  /\ UNCHANGED <<signal, response, held>>

\* io.ReadAll of MaxResponseBytes + 1; only an object or null fits the map.
Judge ==
  /\ step = "reading"
  /\ transport' = "closed"
  /\ held' = IF response.size > MaxBytes THEN MaxBytes + 1 ELSE response.size
  /\ IF TooLarge' \/ response.body = "list" THEN Reject(FALSE) ELSE Judged(response)
  /\ UNCHANGED <<signal, response>>

EndProvider == \E how \in {"cancelled", "expired"} : Ending(how)

ProceedProvider == Check \/ Respond \/ Lose \/ Break \/ Judge
NextProvider == ProceedProvider \/ EndProvider
==============================================================================
