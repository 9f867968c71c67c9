-------------------------- MODULE FrameworkHandlers --------------------------
(***************************************************************************)
(* One HTTP request at a handler of src/extensions/runtimes/integrations:  *)
(* a model request is made of it, the runtime executes that, and the       *)
(* outcome becomes a reply.  How the runtime hears of a client that goes   *)
(* away differs: the handlers of TypeScript and Go hand on a signal, those *)
(* of Python ask every ten milliseconds, and those of Rust leave it to the *)
(* options that the application makes.  The signal of Express and Fastify  *)
(* is set when the request is closed: a request that the client leaves is, *)
(* but so is one whose body has been read to its end.                      *)
(***************************************************************************)

CONSTANT Frameworks  \* those whose handlers are modelled

VARIABLES
  framework,
  linked,     \* will the runtime hear of the client's going?
  client,     \* "connected" or "gone"
  aborted,    \* has the signal been set that the runtime is given?
  place,      \* "accepting", "executing", "stopping", "replied" or "abandoned"
  execution,  \* "none", "running", "told" to stop, or "over"
  result,     \* of the execution: "none", "success" or a FailureKind
  reply       \* "none", "error" of the framework, or the outcome it tells

handlerVars == <<framework, linked, client, aborted, place, execution, result, reply>>

TypeScriptHandlers == {"nextjs", "nestjs", "express", "fastify"}
PythonHandlers == {"fastapi", "django", "flask"}
GoHandlers == {"chi", "gin", "fiber"}
RustHandlers == {"axum", "actix"}
Outcomes == {"success", "timeout", "provider"}

\* Those that listen to "close" of the request.
CloseListeners == {"express", "fastify"}

\* What a handler is given by its framework, or may be given by the application.
\* A request of Express or Fastify may have been closed before anybody listens,
\* and the server of Go watches a connection once the body has been read.
Links(f) == IF f \in {"nextjs", "fastapi"} THEN {TRUE} ELSE BOOLEAN

BeginHandler ==
  /\ framework \in Frameworks
  /\ linked \in Links(framework)
  /\ client = "connected"
  /\ aborted = FALSE
  /\ place = "accepting"
  /\ execution = "none"
  /\ result = "none"
  /\ reply = "none"

Signalled == linked /\ framework \notin PythonHandlers

\* The request factory fails.
Refuse(how) ==
  /\ place' = "replied"
  /\ reply' = how
  /\ UNCHANGED execution

\* Seeded fault: a client that has gone before the runtime was asked is not heard.
Ask_Deaf ==
  /\ place' = "executing"
  /\ execution' = "running"
  /\ UNCHANGED reply

\* The runtime is asked; a signal may be set already.
Ask ==
  /\ place' = "executing"
  /\ execution' = IF aborted THEN "told" ELSE "running"
  /\ UNCHANGED reply

Accepting(handlers, refusal) ==
  /\ framework \in handlers
  /\ place = "accepting"
  /\ Refuse(refusal) \/ Ask
  /\ UNCHANGED <<framework, linked, client, aborted, result>>

\* An error of the request factory is left to the framework, or refused with 400.
AcceptTypeScript == Accepting(TypeScriptHandlers, "error")
AcceptPython == Accepting(PythonHandlers, "error")
AcceptGo == Accepting(GoHandlers, "refused")
AcceptRust == Accepting(RustHandlers, "refused")

\* The signal is set; a runtime that has it is told.
Abort ==
  /\ aborted' = TRUE
  /\ execution' = IF execution = "running" THEN "told" ELSE execution

\* The client closes the connection.
Leave ==
  /\ client = "connected"
  /\ place # "replied"
  /\ client' = "gone"
  /\ IF Signalled THEN Abort ELSE UNCHANGED <<aborted, execution>>
  /\ UNCHANGED <<framework, linked, place, result, reply>>

\* The body has been read to its end, which closes the request.
Consume ==
  /\ framework \in CloseListeners
  /\ linked
  /\ place \in {"accepting", "executing"}
  /\ linked' = FALSE
  /\ Abort
  /\ UNCHANGED <<framework, client, place, result, reply>>

\* The runtime is done; one that was told may have been so already, or not hear it.
Execute ==
  /\ execution \in {"running", "told"}
  /\ execution' = "over"
  /\ result' \in Outcomes \cup (IF execution = "told" THEN {"cancelled"} ELSE {})
  /\ UNCHANGED <<framework, linked, client, aborted, place, reply>>

\* Seeded fault: the probe is looked at only once.
Probe_Forgets ==
  /\ framework \in PythonHandlers
  /\ linked
  /\ place = "executing"
  /\ execution = "running"
  /\ client = "gone"
  /\ place' = "replied"
  /\ reply' = "cancelled"
  /\ UNCHANGED <<framework, linked, client, aborted, execution, result>>

\* The probe of _execute finds that the client has gone, and cancels the task,
\* which may have ended since the loop looked.
Probe ==
  /\ framework \in PythonHandlers
  /\ linked
  /\ place = "executing"
  /\ execution \in {"running", "over"}
  /\ client = "gone"
  /\ place' = "stopping"
  /\ execution' = IF execution = "running" THEN "told" ELSE execution
  /\ UNCHANGED <<framework, linked, client, aborted, result, reply>>

\* The probe raises: the task is left, and the framework answers.
ProbeFails ==
  /\ framework \in PythonHandlers
  /\ linked
  /\ place = "executing"
  /\ execution \in {"running", "over"}
  /\ place' = "abandoned"
  /\ reply' = "error"
  /\ UNCHANGED <<framework, linked, client, aborted, execution, result>>

\* The task has ended; what it was cancelled for is told, whatever came of it.
Stop ==
  /\ place = "stopping"
  /\ execution = "over"
  /\ place' = "replied"
  /\ reply' = "cancelled"
  /\ UNCHANGED <<framework, linked, client, aborted, execution, result>>

Reply ==
  /\ place = "executing"
  /\ execution = "over"
  /\ place' = "replied"
  /\ reply' = result
  /\ UNCHANGED <<framework, linked, client, aborted, execution, result>>

\* A server cancels the handler of a client that has gone.  While that waits for
\* the task the task is cancelled, and its end told; between two probes it is left.
Drop ==
  /\ framework \in PythonHandlers
  /\ client = "gone"
  /\ place = "executing"
  /\ execution = "running"
  /\ IF linked
     THEN place' = "abandoned" /\ UNCHANGED execution
     ELSE execution' = "told" /\ UNCHANGED place
  /\ UNCHANGED <<framework, linked, client, aborted, result, reply>>

\* What happens without the help of a client or of the runtime.
HandlerProceed == AcceptTypeScript \/ AcceptPython \/ AcceptGo \/ AcceptRust \/ Probe \/ Stop \/ Reply
HandlerNext == HandlerProceed \/ Execute \/ Leave \/ Consume \/ Drop \/ ProbeFails
=============================================================================
