---------------------------- MODULE PythonModules ----------------------------
(***************************************************************************)
(* The modules that are generated beside the Python runtime: tooling,      *)
(* evaluation (src/extensions/runtimes/modules/python.ts) and the          *)
(* provider adapter (src/extensions/runtimes/providers/python.ts).         *)
(***************************************************************************)
EXTENDS ModuleCalls

------------------------------------------------------------------------------
(***************************************************************************)
(* ToolRunner of the generated Python runtime                              *)
(* (src/extensions/runtimes/modules/python.ts).  The call is an asyncio    *)
(* task and the handler another one.  Cancelling the call raises           *)
(* CancelledError at the await at which it stands: only that for the       *)
(* handler is caught.                                                      *)
(***************************************************************************)

InitTool == BeginCall

Start == Starting
Screen == Screening
Approve == Asking

\* asyncio.create_task and asyncio.wait.
Invoke ==
  /\ pc = "ready"
  /\ pc' = "racing"
  /\ handler' = "running"
  /\ UNCHANGED <<caller, consent, events, outcome>>

\* A handler may also end in a cancellation of its own, which is not caught.
Reply ==
  \/ Replying
  \/ /\ pc = "racing"
     /\ handler' = "finished"
     /\ pc' = "done"
     /\ outcome' = "escaped"
     /\ UNCHANGED <<caller, consent, events>>

\* Seeded fault: the task of the handler is left alone.
Deadline_InSilence ==
  /\ pc = "racing"
  /\ Fail("timeout")
  /\ UNCHANGED <<caller, consent, handler, events>>

Deadline ==
  /\ pc = "racing"
  /\ handler' = "told"
  /\ Fail("timeout")
  /\ UNCHANGED <<caller, consent, events>>

Report == Reporting

\* The events that are being emitted at an await outside the race.
Emitting == [starting |-> {"tool-started"}, asking |-> {}, failing |-> {"tool-failed"}, succeeding |-> {"tool-succeeded"}]

\* The call is cancelled; elsewhere than in the race nothing catches that.
EndTool ==
  /\ caller' = "cancelled"
  /\ \/ /\ pc = "racing"
        /\ handler' = "told"
        /\ Fail("cancelled")
        /\ UNCHANGED events
     \/ /\ pc \in DOMAIN Emitting
        /\ pc' = "done"
        /\ outcome' = "escaped"
        /\ events' \in {events} \cup {Append(events, e) : e \in Emitting[pc]}
        /\ UNCHANGED handler
  /\ UNCHANGED consent

\* What happens without the help of a handler or a caller.
ProceedTool == Start \/ Screen \/ Approve \/ Invoke \/ Deadline \/ Report
NextTool == ProceedTool \/ Reply \/ EndTool \/ HandlerEnds

------------------------------------------------------------------------------
(***************************************************************************)
(* EvaluationRunner of the generated Python runtime                        *)
(* (src/extensions/runtimes/modules/python.ts): a task for each case,      *)
(* gathered, with a semaphore around the evaluation.                       *)
(***************************************************************************)

Status == [c \in Ids |-> IF c \in Sampled THEN "none" ELSE "not-sampled"]
InitEvaluation == BeginRun(MaxConcurrency, Status)

\* Seeded fault: the semaphore is not asked.
Take_Unbounded ==
  /\ queue # <<>>
  /\ active' = active \cup {Head(queue)}
  /\ begun' = begun \cup {Head(queue)}
  /\ queue' = Tail(queue)
  /\ UNCHANGED <<cancelled, idle, results, report>>

Take == Taking

\* A subject may also raise a CancelledError of its own: that leaves run at once,
\* and the other tasks go on.
Evaluate(c) ==
  \/ Evaluating(c)
  \/ /\ c \in begun
     /\ begun' = begun \ {c}
     /\ active' = active \ {c}
     /\ idle' = idle + 1
     /\ report' = "escaped"
     /\ UNCHANGED <<cancelled, queue, results>>

\* gather has the results of all tasks.
Summarise ==
  /\ report = "none"
  /\ active = {}
  /\ queue = <<>>
  /\ report' = "summarised"
  /\ UNCHANGED <<cancelled, queue, idle, active, begun, results>>

Deliver == Delivering

\* The run is cancelled, and with it the tasks of the cases, whether they stand
\* at the semaphore or at their subject: CancelledError leaves run.
Cancel ==
  /\ report \in {"none", "summarised"}
  /\ cancelled' = TRUE
  /\ report' = "escaped"
  /\ active' = {}
  /\ begun' = {}
  /\ idle' = idle + Cardinality(active)
  /\ queue' = <<>>
  /\ UNCHANGED results

ProceedEvaluation == Take \/ (\E c \in Ids : Evaluate(c)) \/ Summarise \/ Deliver
NextEvaluation == ProceedEvaluation \/ Cancel

------------------------------------------------------------------------------
(***************************************************************************)
(* ResponsesApiAdapter of the generated Python runtime                     *)
(* (src/extensions/runtimes/providers/python.ts) with UrlLibHttpPort: the  *)
(* request is made by a thread, which a cancellation does not reach.       *)
(***************************************************************************)

InitProvider == BeginProvider

\* json.dumps stands in the try block around the request.
Check == Checking \/ Throwing(Reject(TRUE))

\* Seeded fault: the body is read without its limit.
Respond_Unbounded ==
  /\ step = "sending"
  /\ \E r \in Responses :
       /\ response' = r
       /\ held' = r.size
       /\ Judged(r)
  /\ transport' = "closed"
  /\ UNCHANGED signal

\* response.read(max_response_bytes + 1), the end of the thread, and the verdict.
\* The response is a context manager, the HTTPError of any other status is not:
\* its connection is left to be collected.
Respond ==
  /\ step = "sending"
  /\ \E r \in Responses :
       /\ response' = r
       /\ held' = Least(r.size, MaxBytes + 1)
       /\ IF TooLarge' THEN Reject(FALSE) ELSE Judged(r)
       /\ transport' = IF r.status = "accepted" THEN "closed" ELSE transport
  /\ UNCHANGED signal

\* urlopen or read raises, on its timeout or otherwise.
Lose ==
  /\ step = "sending"
  /\ transport' = "broken"
  /\ Reject(TRUE)
  /\ UNCHANGED <<signal, response, held>>

\* CancelledError is raised at the await of the thread.
EndProvider ==
  /\ step = "sending"
  /\ signal' = "cancelled"
  /\ Give("escaped", FALSE)
  /\ UNCHANGED <<transport, response, held>>

\* The thread of a call that was cancelled comes to its end, or what was left of
\* an HTTPError is collected.
ThreadEnds ==
  /\ step = "answered"
  /\ transport = "open"
  /\ transport' = "closed"
  /\ UNCHANGED <<signal, step, response, held, answer>>

ProceedProvider == Check \/ Respond \/ Lose \/ ThreadEnds
NextProvider == ProceedProvider \/ EndProvider
==============================================================================
