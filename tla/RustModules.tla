----------------------------- MODULE RustModules -----------------------------
(***************************************************************************)
(* The modules that are generated beside the Rust runtime: tooling,        *)
(* evaluation (src/extensions/runtimes/modules/rust.ts) and the            *)
(* provider adapter (src/extensions/runtimes/providers/rust.ts).           *)
(***************************************************************************)
EXTENDS ModuleCalls

------------------------------------------------------------------------------
(***************************************************************************)
(* ToolRunner of the generated Rust runtime                                *)
(* (src/extensions/runtimes/modules/rust.ts).  The handler is a thread     *)
(* with a token of its own; a loop looks at the token of the caller, at    *)
(* the clock, and for five milliseconds at the channel.                    *)
(***************************************************************************)

InitTool == BeginCall

Start == Starting
Screen == Screening
Approve == Asking

\* The thread is spawned whatever the token says.
Invoke ==
  /\ pc = "ready"
  /\ pc' = "racing"
  /\ handler' = "running"
  /\ UNCHANGED <<caller, consent, events, outcome>>

Reply == Replying

Interrupted ==
  /\ pc = "racing"
  /\ Ended
  /\ handler' = "told"
  /\ Fail("cancelled")
  /\ UNCHANGED <<caller, consent, events>>

\* Seeded fault: the deadline is looked at only when the caller has ended.
Deadline_OfCancelled ==
  /\ pc = "racing"
  /\ Ended
  /\ handler' = "told"
  /\ Fail("timeout")
  /\ UNCHANGED <<caller, consent, events>>

\* The token of the caller may have been set since it was looked at.
Deadline ==
  /\ pc = "racing"
  /\ handler' = "told"
  /\ Fail("timeout")
  /\ UNCHANGED <<caller, consent, events>>

Report == Reporting

\* The caller sets its token.
EndTool ==
  /\ caller = "live"
  /\ caller' = "cancelled"
  /\ UNCHANGED <<pc, consent, handler, events, outcome>>

\* What happens without the help of a handler or a caller.
ProceedTool == Start \/ Screen \/ Approve \/ Invoke \/ Interrupted \/ Deadline \/ Report
NextTool == ProceedTool \/ Reply \/ EndTool \/ HandlerEnds

------------------------------------------------------------------------------
(***************************************************************************)
(* EvaluationRunner of the generated Rust runtime                          *)
(* (src/extensions/runtimes/modules/rust.ts): scoped threads with a common *)
(* atomic cursor that claim a case, look at the token, and only then take  *)
(* the case to its subject.                                                *)
(***************************************************************************)

Status == [c \in Ids |-> IF c \in Sampled THEN "none" ELSE "not-sampled"]
InitEvaluation == BeginRun(Least(MaxConcurrency, Len(Selected)), Status)

\* The token is not set when a thread looks at it.
Take == ~cancelled /\ Claiming /\ UNCHANGED begun

\* subject.invoke, whatever has become of the token since.
Begin(c) ==
  /\ c \in active \ begun
  /\ begun' = begun \cup {c}
  /\ UNCHANGED <<cancelled, queue, idle, active, results, report>>

\* The token is set: the case is passed over.
Skip ==
  /\ cancelled
  /\ idle > 0
  /\ queue # <<>>
  /\ results' = [results EXCEPT ![Head(queue)] = "cancelled"]
  /\ queue' = Tail(queue)
  /\ UNCHANGED <<cancelled, idle, active, begun, report>>

\* Seeded fault: a thread ends with its first case.
Evaluate_Once(c) ==
  /\ c \in begun
  /\ begun' = begun \ {c}
  /\ active' = active \ {c}
  /\ \E status \in Evaluated : results' = [results EXCEPT ![c] = status]
  /\ UNCHANGED <<cancelled, queue, idle, report>>

Evaluate(c) == Evaluating(c)

\* The scope has joined its threads.
Summarise ==
  /\ report = "none"
  /\ queue = <<>>
  /\ active = {}
  /\ report' = "summarised"
  /\ results' = [c \in Ids |-> IF results[c] = "none" THEN "cancelled" ELSE results[c]]
  /\ UNCHANGED <<cancelled, queue, idle, active, begun>>

Deliver == Delivering
Cancel == Cancelling

ProceedEvaluation == Take \/ Skip \/ (\E c \in Ids : Begin(c) \/ Evaluate(c)) \/ Summarise \/ Deliver
NextEvaluation == ProceedEvaluation \/ Cancel

------------------------------------------------------------------------------
(***************************************************************************)
(* ResponsesApiAdapter of the generated Rust runtime                       *)
(* (src/extensions/runtimes/providers/rust.ts) over a ResponsesTransport,  *)
(* which sends, reads and parses in one call.                              *)
(***************************************************************************)

InitProvider == BeginProvider

\* A token that is set is seen before anything is sent.
Check ==
  \/ signal = "live" /\ Checking
  \/ /\ step = "checking"
     /\ signal # "live"
     /\ Give("cancelled", FALSE)
     /\ UNCHANGED <<signal, transport, response, held>>

\* Seeded fault: an answer with an error is taken for one without.
Respond_ByStatus ==
  /\ step = "sending"
  /\ \E r \in Responses :
       /\ r.body \in {"object", "failure"}
       /\ response' = r
       /\ held' = r.size
       /\ IF TooLarge' THEN Reject(FALSE)
          ELSE IF r.status # "accepted" THEN Reject(r.status = "transient")
          ELSE Give("success", FALSE)
  /\ transport' = "closed"
  /\ UNCHANGED signal

\* The transport has parsed the body and says how long it was.
Respond ==
  /\ step = "sending"
  /\ \E r \in Responses :
       /\ r.body \in {"object", "failure"}
       /\ response' = r
       /\ held' = r.size
       /\ IF TooLarge' THEN Reject(FALSE) ELSE Judged(r)
  /\ transport' = "closed"
  /\ UNCHANGED signal

\* The transport fails, whether the token is set or not.
Lose ==
  /\ step = "sending"
  /\ transport' = "broken"
  /\ Reject(TRUE)
  /\ UNCHANGED <<signal, response, held>>

EndProvider == Ending("cancelled")

ProceedProvider == Check \/ Respond \/ Lose
NextProvider == ProceedProvider \/ EndProvider
==============================================================================
