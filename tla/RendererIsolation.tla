-------------------------- MODULE RendererIsolation --------------------------
(***************************************************************************)
(* renderSignedExtensionIsolated                                           *)
(* (src/infrastructure/isolation/node-renderer-isolation.ts): the host     *)
(* verifies a signed extension and renders it in a child process, which    *)
(* may hang, crash, ignore SIGTERM and write what it likes.  The host is   *)
(* one event loop: every handler is a step, and the answer of the child,   *)
(* its exit, the deadline, the abort, a failing send and the timers of the *)
(* shutdown come in any order the two processes allow.                     *)
(***************************************************************************)
EXTENDS Integers, Sequences

CONSTANT MaxMessages  \* a bound on the messages a child writes

ASSUME MessagesAssumption == MaxMessages \in Nat \ {0}

VARIABLES
  host,     \* "before", "waiting", "settled" or "resolved"
  result,   \* what finish was called with first
  timers,   \* the armed timers of the host
  aborted,  \* options.signal.aborted
  child,    \* "none", "starting", "rendering", "answered" or "dead"
  signals,  \* the signals sent to the child
  channel,  \* the messages from the child the host has not seen yet
  exited    \* child.exitCode or child.signalCode is set: the host knows

vars == <<host, result, timers, aborted, child, signals, channel, exited>>

Init ==
  /\ host = "before"
  /\ result = "none"
  /\ timers = {}
  /\ aborted \in BOOLEAN
  /\ child = "none"
  /\ signals = {}
  /\ channel = <<>>
  /\ exited = FALSE

\* The limits, the verification, the kind of the extension or the size of the
\* input rule the rendering out; no process is started.
Rule ==
  /\ host = "before"
  /\ host' = "resolved"
  /\ result' = "rejected"
  /\ UNCHANGED <<timers, aborted, child, signals, channel, exited>>

\* runWorker: an abort that came during the verification, or the child.
Spawn ==
  /\ host = "before"
  /\ IF aborted
     THEN /\ host' = "resolved"
          /\ result' = "cancelled"
          /\ UNCHANGED <<timers, child>>
     ELSE /\ host' = "waiting"
          /\ child' = "starting"
          /\ timers' = {"deadline"}
          /\ UNCHANGED result
  /\ UNCHANGED <<aborted, signals, channel, exited>>

-----------------------------------------------------------------------------
(* The child. *)

Alive == child \in {"starting", "rendering", "answered"}

\* The request arrives, unless the host has disconnected before.
Receive ==
  /\ child = "starting"
  /\ host = "waiting"
  /\ child' = "rendering"
  /\ UNCHANGED <<host, result, timers, aborted, signals, channel, exited>>

\* The package is hashed, imported, loaded and rendered, and the artifacts are
\* checked: the answer is one of the two the protocol has.
Answer ==
  /\ child = "rendering"
  /\ child' = "answered"
  /\ \E m \in {"rendered", "failed"} :
       channel' = IF host = "waiting" THEN Append(channel, m) ELSE channel
  /\ UNCHANGED <<host, result, timers, aborted, signals, exited>>

\* The renderer writes to the channel itself.
Babble ==
  /\ child = "rendering"
  /\ host = "waiting"
  /\ Len(channel) < MaxMessages
  /\ channel' = Append(channel, "foreign")
  /\ UNCHANGED <<host, result, timers, aborted, child, signals, exited>>

\* The child ends: it is done, it crashes, it runs out of memory, or it follows a
\* signal.
Exit ==
  /\ Alive
  /\ child' = "dead"
  /\ UNCHANGED <<host, result, timers, aborted, signals, channel, exited>>

-----------------------------------------------------------------------------
(* The host. *)

\* Seeded fault: the last call of finish counts, not the first.
Finish_Again(r) ==
  /\ result' = r
  /\ IF host # "waiting"
     THEN UNCHANGED <<host, timers, signals>>
     ELSE IF exited'
     THEN /\ host' = "resolved"
          /\ timers' = timers \ {"deadline"}
          /\ UNCHANGED signals
     ELSE /\ host' = "settled"
          /\ timers' = (timers \ {"deadline"}) \cup {"fallback", "forceKill"}
          /\ signals' = signals \cup {"SIGTERM"}

\* Seeded fault: a renderer that is stopped is not asked twice.
Finish_NoForce(r) ==
  IF host # "waiting"
  THEN UNCHANGED <<host, result, timers, signals>>
  ELSE /\ result' = r
       /\ IF exited'
          THEN /\ host' = "resolved"
               /\ timers' = timers \ {"deadline"}
               /\ UNCHANGED signals
          ELSE /\ host' = "settled"
               /\ timers' = (timers \ {"deadline"}) \cup {"fallback"}
               /\ signals' = signals \cup {"SIGTERM"}

\* Seeded fault: only the exit of the child resolves.
Finish_NoFallback(r) ==
  IF host # "waiting"
  THEN UNCHANGED <<host, result, timers, signals>>
  ELSE /\ result' = r
       /\ IF exited'
          THEN /\ host' = "resolved"
               /\ timers' = timers \ {"deadline"}
               /\ UNCHANGED signals
          ELSE /\ host' = "settled"
               /\ timers' = (timers \ {"deadline"}) \cup {"forceKill"}
               /\ signals' = signals \cup {"SIGTERM"}

\* Seeded fault: the deadline is not cancelled.
Finish_KeepsDeadline(r) ==
  IF host # "waiting"
  THEN UNCHANGED <<host, result, timers, signals>>
  ELSE /\ result' = r
       /\ IF exited'
          THEN /\ host' = "resolved"
               /\ UNCHANGED <<timers, signals>>
          ELSE /\ host' = "settled"
               /\ timers' = timers \cup {"fallback", "forceKill"}
               /\ signals' = signals \cup {"SIGTERM"}

\* finish: the first call settles the result and stops the child, which has two
\* seconds to go and is killed after half a second.
Finish(r) ==
  IF host # "waiting"
  THEN UNCHANGED <<host, result, timers, signals>>
  ELSE /\ result' = r
       /\ IF exited'
          THEN /\ host' = "resolved"
               /\ timers' = timers \ {"deadline"}
               /\ UNCHANGED signals
          ELSE /\ host' = "settled"
               /\ timers' = (timers \ {"deadline"}) \cup {"fallback", "forceKill"}
               /\ signals' = signals \cup {"SIGTERM"}

\* The first message, while the channel is connected; a second one has no
\* listener.
OnMessage ==
  /\ host = "waiting"
  /\ channel # <<>>
  /\ channel' = Tail(channel)
  /\ UNCHANGED <<aborted, child, exited>>
  /\ Finish(IF Head(channel) = "foreign" THEN "protocol" ELSE Head(channel))

\* The child writes more than 64 KiB of diagnostics; also while it is stopped.
OnDiagnostics ==
  /\ Alive
  /\ UNCHANGED <<aborted, child, channel, exited>>
  /\ Finish("protocol")

\* The child cannot be started, or the request cannot be sent to it any more.
OnError ==
  /\ host = "waiting"
  /\ child \in {"starting", "dead"}
  /\ UNCHANGED <<aborted, channel>>
  /\ \/ UNCHANGED <<child, exited>>
     \/ child' = "dead" /\ exited' = TRUE
  /\ Finish("protocol")

\* The exit of the child, which the host may see before its last message.
OnExit ==
  /\ child = "dead"
  /\ ~exited
  /\ exited' = TRUE
  /\ UNCHANGED <<aborted, child, channel>>
  /\ IF host = "waiting"
     THEN Finish("protocol")
     ELSE /\ timers' = (timers \ {"fallback", "forceKill"}) \cup {"linger"}
          /\ UNCHANGED <<host, result, signals>>

\* Somebody aborts.
Abort ==
  /\ ~aborted
  /\ aborted' = TRUE
  /\ UNCHANGED <<child, channel, exited>>
  /\ IF host = "waiting" THEN Finish("cancelled") ELSE UNCHANGED <<host, result, timers, signals>>

\* The deadline of the rendering.
OnDeadline ==
  /\ "deadline" \in timers
  /\ UNCHANGED <<aborted, child, channel, exited>>
  /\ Finish("timeout")

OnForceKill ==
  /\ "forceKill" \in timers
  /\ timers' = timers \ {"forceKill"}
  /\ signals' = IF exited THEN signals ELSE signals \cup {"SIGKILL"}
  /\ UNCHANGED <<host, result, aborted, child, channel, exited>>

\* The fallback is due a second and a half after the kill.
OnFallback ==
  /\ "fallback" \in timers
  /\ "forceKill" \notin timers
  /\ timers' = timers \ {"fallback"}
  /\ host' = "resolved"
  /\ UNCHANGED <<result, aborted, child, signals, channel, exited>>

\* A quarter of a second after the exit.
OnLinger ==
  /\ "linger" \in timers
  /\ timers' = timers \ {"linger"}
  /\ host' = "resolved"
  /\ UNCHANGED <<result, aborted, child, signals, channel, exited>>

Host == OnDeadline \/ OnForceKill \/ OnFallback \/ OnLinger

Next ==
  \/ Rule \/ Spawn \/ Receive \/ Answer \/ Babble \/ Exit
  \/ OnMessage \/ OnDiagnostics \/ OnError \/ OnExit \/ Abort \/ Host

Spec == Init /\ [][Next]_vars

-----------------------------------------------------------------------------

\* The type invariant, with the timers each phase of the host may have.
TypeOK ==
  /\ host \in {"before", "waiting", "settled", "resolved"}
  /\ result \in {"none", "rejected", "rendered", "failed", "cancelled", "timeout", "protocol"}
  /\ result = "none" <=> host \in {"before", "waiting"}
  /\ aborted \in BOOLEAN
  /\ child \in {"none", "starting", "rendering", "answered", "dead"}
  /\ signals \subseteq {"SIGTERM", "SIGKILL"}
  /\ channel \in Seq({"rendered", "failed", "foreign"})
  /\ exited \in BOOLEAN
  /\ exited => child = "dead"
  /\ host = "before" => timers = {}
  /\ host = "waiting" => timers = {"deadline"}
  /\ host = "settled" => timers \in {{"fallback", "forceKill"}, {"fallback"}, {"linger"}}
  /\ host = "resolved" => timers \in {{}, {"linger"}}

\* When the caller gets its result the child is gone or has been sent SIGKILL:
\* no renderer that ignores SIGTERM outlives its rendering.
ResolvedMeansStopped ==
  host = "resolved" /\ child # "none" => child = "dead" \/ "SIGKILL" \in signals

\* The result the caller gets is the first that was reached: the exit, an abort
\* or an answer during the shutdown does not replace it.
FirstResultStays == [][result # "none" => result' = result]_vars
=============================================================================
