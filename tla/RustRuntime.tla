---------------------------- MODULE RustRuntime ----------------------------
(***************************************************************************)
(* HarnessRuntime of the generated Rust runtime                            *)
(* (src/extensions/runtimes/rust.ts).  Requests are threads; the gate is a *)
(* counter under a mutex with a condition variable that is polled as well; *)
(* cancellation is a flag that everybody has to look at; an adapter runs   *)
(* on a thread of its own, with a flag of its own, and hands its result    *)
(* over a channel of capacity one.                                         *)
(***************************************************************************)
EXTENDS PortableRuntime

Init == Start

\* acquire: the token is looked at only when there is no slot.  A waiting
\* thread comes back to the loop when it is notified and every 10 ms.
Enter(r) ==
  /\ place[r] \in {"outside", "waiting"}
  /\ IF active < MaxConcurrency
     THEN place' = [place EXCEPT ![r] = "inside"] /\ active' = active + 1
     ELSE /\ place' = [place EXCEPT ![r] = IF Ended(r) THEN "refused" ELSE "waiting"]
          /\ UNCHANGED active
  /\ UNCHANGED <<context, pc, position, attempt, result, recorded, circuits, cache, calls>>

\* Dropping the permit.
Leave(r) ==
  /\ active' = active - 1
  /\ place' = [place EXCEPT ![r] = "left"]

\* Execution ends with a result, which is then recorded.
Settle(r, kind) ==
  /\ Goto(r, "reporting")
  /\ result' = [result EXCEPT ![r] = kind]

Report(r) ==
  /\ At(r, "reporting")
  /\ recorded' = [recorded EXCEPT ![r] = result[r]]
  /\ Goto(r, "done")
  /\ Leave(r)
  /\ UNCHANGED <<context, position, attempt, result, circuits, cache, calls>>

\* Budget, guards, approval and cache, which decide before any route is tried.
Screen(r) ==
  /\ At(r, "screen")
  /\ \/ \E kind \in Rejections : Settle(r, kind)
     \/ KeyOf[r] \in cache /\ Settle(r, "success")
     \/ Goto(r, "select") /\ UNCHANGED result
  /\ UNCHANGED <<context, active, place, position, attempt, recorded, circuits, cache, calls>>

\* circuit_allows, circuit_failure and circuit_success.
Ask(c) == circuits' = [circuits EXCEPT ![c] = Admitted(@)]
Count(c, failure) == circuits' = [circuits EXCEPT ![c] = IF failure.retryable THEN Failure(@) ELSE @]
Close(c) == circuits' = [circuits EXCEPT ![c] = Success(@)]

\* The n-th route has failed: the next one, or the end.
MoveOn(r, n, kind) ==
  IF n = Len(RoutesOf(r))
  THEN Settle(r, kind)
  ELSE Goto(r, "select") /\ result' = [result EXCEPT ![r] = kind]

\* The loop over the attempts looks at the token first.
Attempt(r, n) ==
  IF Ended(r)
  THEN Settle(r, "cancelled") /\ UNCHANGED attempt
  ELSE Goto(r, "invoke") /\ attempt' = [attempt EXCEPT ![r] = n] /\ UNCHANGED result

\* The next route has no adapter, an open circuit, or is tried.
Select(r) ==
  /\ At(r, "select")
  /\ position' = [position EXCEPT ![r] = @ + 1]
  /\ LET c == RoutesOf(r)[position'[r]] IN
       \/ /\ c \notin Adapters
          /\ MoveOn(r, position'[r], "provider")
          /\ UNCHANGED <<circuits, attempt>>
       \/ /\ c \in Adapters
          /\ Ask(c)
          /\ IF Allows(circuits[c])
             THEN Attempt(r, 1)
             ELSE MoveOn(r, position'[r], "circuit-open") /\ UNCHANGED attempt
  /\ UNCHANGED <<context, active, place, recorded, cache, calls>>

\* A failure is counted; then backoff, the end, or the next route.
Fail(r, failure) ==
  /\ Count(Route(r), failure)
  /\ IF failure.retryable /\ attempt[r] < MaxAttempts
     THEN Goto(r, "sleeping") /\ result' = [result EXCEPT ![r] = failure.kind]
     ELSE IF failure.kind \in PolicyKinds \cup {"cancelled"}
     THEN Settle(r, failure.kind)
     ELSE MoveOn(r, position[r], failure.kind)
  /\ UNCHANGED <<context, active, place, position, attempt, recorded, cache>>

\* invoke looks at the token and spawns the thread of the adapter.
Invoke(r) ==
  /\ At(r, "invoke")
  /\ IF Ended(r)
     THEN Fail(r, Cancelled) /\ UNCHANGED calls
     ELSE /\ Goto(r, "calling")
          /\ calls' = calls \cup {Call(r, FALSE)}
          /\ UNCHANGED <<context, active, place, position, attempt, result, recorded, circuits, cache>>

\* The channel has the result of the adapter (a panic is one)...
Reply(r) ==
  /\ At(r, "calling")
  /\ calls' = calls \ Current(r)
  /\ \E reply \in Replies :
       IF reply = Answer
       THEN /\ Goto(r, "checking")
            /\ UNCHANGED <<context, active, place, position, attempt, result, recorded, circuits, cache>>
       ELSE Fail(r, reply)

\* ... or the loop finds that the request was cancelled...
Interrupted(r) ==
  /\ At(r, "calling")
  /\ Ended(r)
  /\ calls' = Telling(Current(r))
  /\ Fail(r, Cancelled)

\* Seeded fault: the adapter is not told that its deadline has passed.
Deadline_InSilence(r) ==
  /\ At(r, "calling")
  /\ UNCHANGED calls
  /\ Fail(r, TimedOut)

\* Seeded fault: the deadline is looked at only by requests that were cancelled.
Deadline_OfCancelled(r) ==
  /\ At(r, "calling")
  /\ Ended(r)
  /\ calls' = Telling(Current(r))
  /\ Fail(r, TimedOut)

\* ... or that the deadline has passed (the token may have been set since it
\* was looked at).
Deadline(r) ==
  /\ At(r, "calling")
  /\ calls' = Telling(Current(r))
  /\ Fail(r, TimedOut)

\* sleep_cancellable, and the next attempt.
Wake(r) ==
  /\ At(r, "sleeping")
  /\ Attempt(r, attempt[r] + 1)
  /\ UNCHANGED <<context, active, place, position, recorded, circuits, cache, calls>>

\* No repair makes the answer valid.
Unrepairable(r) ==
  /\ At(r, "checking")
  /\ "invalid-output" \in Verdicts
  /\ MoveOn(r, position[r], "invalid-output")
  /\ UNCHANGED <<context, active, place, position, attempt, recorded, circuits, cache, calls>>

\* Seeded fault: a refused answer is returned without being recorded.
Refuse_ReturnsEarly(r) ==
  /\ At(r, "checking")
  /\ \E kind \in Verdicts \cap PolicyKinds : result' = [result EXCEPT ![r] = kind]
  /\ Goto(r, "done")
  /\ Leave(r)
  /\ UNCHANGED <<context, position, attempt, recorded, circuits, cache, calls>>

\* A guard or the cost budget refuses the answer.
Refuse(r) ==
  /\ At(r, "checking")
  /\ \E kind \in Verdicts \cap PolicyKinds : Settle(r, kind)
  /\ UNCHANGED <<context, active, place, position, attempt, recorded, circuits, cache, calls>>

Accept(r) ==
  /\ At(r, "checking")
  /\ "valid" \in Verdicts
  /\ Close(Route(r))
  /\ Goto(r, "storing")
  /\ UNCHANGED <<context, active, place, position, attempt, result, recorded, cache, calls>>

Store(r) ==
  /\ At(r, "storing")
  /\ cache' \in {cache, cache \cup ({KeyOf[r]} \ {None})}
  /\ Settle(r, "success")
  /\ UNCHANGED <<context, active, place, position, attempt, recorded, circuits, calls>>

\* The caller sets its token.
Cancel(c) ==
  /\ context[c] = "live"
  /\ "cancelled" \in CanEnd[c]
  /\ context' = [context EXCEPT ![c] = "cancelled"]
  /\ UNCHANGED <<active, place, pc, position, attempt, result, recorded, circuits, cache, calls>>

\* What a request does without the help of an adapter.
Proceed(r) ==
  Screen(r) \/ Select(r) \/ Invoke(r) \/ Interrupted(r) \/ Deadline(r) \/ Wake(r) \/ Unrepairable(r) \/ Refuse(r) \/ Accept(r) \/ Store(r) \/ Report(r)

\* The polling of a waiting thread.
Poll(r) == place[r] = "waiting" /\ Enter(r)

Next ==
  \/ \E r \in Requests : Enter(r) \/ Reply(r) \/ Proceed(r)
  \/ \E c \in Callers : Cancel(c)
  \/ CallEnds \/ Tick
=============================================================================
