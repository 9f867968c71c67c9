----------------------------- MODULE GoRuntime -----------------------------
(***************************************************************************)
(* HarnessRuntime of the generated Go runtime                              *)
(* (src/extensions/runtimes/go.ts).  Requests are goroutines; the gate is  *)
(* a buffered channel; the caller has a context that may be cancelled or   *)
(* expire; an adapter runs in a goroutine of its own, under a context      *)
(* derived from that of the caller, and hands its result over a channel of *)
(* capacity one.                                                           *)
(***************************************************************************)
EXTENDS PortableRuntime

Init == Start

\* Execute: a send on the capacity channel against ctx.Done().  When both are
\* ready either one is taken, so a request may enter although its context ended.
Enter(r) ==
  /\ place[r] = "outside"
  /\ \/ /\ active < MaxConcurrency
        /\ active' = active + 1
        /\ place' = [place EXCEPT ![r] = "inside"]
     \/ /\ ~(active < MaxConcurrency \/ Ended(r))
        /\ place' = [place EXCEPT ![r] = "waiting"]
        /\ UNCHANGED active
     \/ /\ Ended(r)
        /\ place' = [place EXCEPT ![r] = "refused"]
        /\ UNCHANGED active
  /\ UNCHANGED <<context, pc, position, attempt, result, recorded, circuits, cache, calls>>

Withdraw(r) ==
  /\ place[r] = "waiting"
  /\ Ended(r)
  /\ place' = [place EXCEPT ![r] = "refused"]
  /\ UNCHANGED <<context, active, pc, position, attempt, result, recorded, circuits, cache, calls>>

\* Seeded fault: the slot is given back only by requests that did not fail.
Leave_OnSuccessOnly(r) ==
  IF result[r] # "success"
  THEN place' = [place EXCEPT ![r] = "left"] /\ UNCHANGED active
  ELSE IF Waiting = {}
  THEN place' = [place EXCEPT ![r] = "left"] /\ active' = active - 1
  ELSE \E q \in Waiting :
         place' = [place EXCEPT ![r] = "left", ![q] = "inside"] /\ UNCHANGED active

\* The deferred receive: a waiting sender takes the place in the buffer at once.
Leave(r) ==
  IF Waiting = {}
  THEN place' = [place EXCEPT ![r] = "left"] /\ active' = active - 1
  ELSE \E q \in Waiting :
         place' = [place EXCEPT ![r] = "left", ![q] = "inside"] /\ UNCHANGED active

\* Execution ends with a result, which is then recorded.
Settle(r, kind) ==
  /\ Goto(r, "reporting")
  /\ result' = [result EXCEPT ![r] = kind]

Report(r) ==
  /\ At(r, "reporting")
  /\ recorded' = [recorded EXCEPT ![r] = result[r]]
  /\ Goto(r, "done")
  /\ Leave(r)
  /\ UNCHANGED <<context, position, attempt, result, circuits, cache, calls>>

\* Budget, guards, approval and cache, which decide before any route is tried.
Screen(r) ==
  /\ At(r, "screen")
  /\ \/ \E kind \in Rejections : Settle(r, kind)
     \/ KeyOf[r] \in cache /\ Settle(r, "success")
     \/ Goto(r, "select") /\ UNCHANGED result
  /\ UNCHANGED <<context, active, place, position, attempt, recorded, circuits, cache, calls>>

\* Allow, Failure and Success of CircuitBreaker.
Ask(c) == circuits' = [circuits EXCEPT ![c] = Admitted(@)]
Count(c, failure) == circuits' = [circuits EXCEPT ![c] = IF failure.retryable THEN Failure(@) ELSE @]
Close(c) == circuits' = [circuits EXCEPT ![c] = Success(@)]

\* The n-th route has failed: the next one, or the end.
MoveOn(r, n, kind) ==
  IF n = Len(RoutesOf(r))
  THEN Settle(r, kind)
  ELSE Goto(r, "select") /\ result' = [result EXCEPT ![r] = kind]

\* The next route has no adapter, an open circuit, or is tried.
Select(r) ==
  /\ At(r, "select")
  /\ position' = [position EXCEPT ![r] = @ + 1]
  /\ LET c == RoutesOf(r)[position'[r]] IN
       \/ /\ c \notin Adapters
          /\ MoveOn(r, position'[r], "provider")
          /\ UNCHANGED <<circuits, attempt>>
       \/ /\ c \in Adapters
          /\ Ask(c)
          /\ IF Allows(circuits[c])
             THEN Goto(r, "invoke") /\ attempt' = [attempt EXCEPT ![r] = 1] /\ UNCHANGED result
             ELSE MoveOn(r, position'[r], "circuit-open") /\ UNCHANGED attempt
  /\ UNCHANGED <<context, active, place, recorded, cache, calls>>

\* invoke starts the goroutine of the adapter, whatever the context says.
Invoke(r) ==
  /\ At(r, "invoke")
  /\ Goto(r, "calling")
  /\ calls' = calls \cup {Call(r, Ended(r))}
  /\ UNCHANGED <<context, active, place, position, attempt, result, recorded, circuits, cache>>

\* Seeded fault: the kinds that stop the fallback are left out.
Fail_FallsBack(r, failure) ==
  /\ Count(Route(r), failure)
  /\ IF failure.retryable /\ attempt[r] < MaxAttempts
     THEN Goto(r, "sleeping") /\ result' = [result EXCEPT ![r] = failure.kind]
     ELSE MoveOn(r, position[r], failure.kind)
  /\ UNCHANGED <<context, active, place, position, attempt, recorded, cache>>

\* A failure is counted; then backoff, the end, or the next route.
Fail(r, failure) ==
  /\ Count(Route(r), failure)
  /\ IF failure.retryable /\ attempt[r] < MaxAttempts
     THEN Goto(r, "sleeping") /\ result' = [result EXCEPT ![r] = failure.kind]
     ELSE IF failure.kind \in PolicyKinds \cup {"cancelled"}
     THEN Settle(r, failure.kind)
     ELSE MoveOn(r, position[r], failure.kind)
  /\ UNCHANGED <<context, active, place, position, attempt, recorded, cache>>

\* The adapter hands over its result (a panic is one) and select takes it...
Reply(r) ==
  /\ At(r, "calling")
  /\ calls' = calls \ Current(r)
  /\ \E reply \in Replies :
       IF reply = Answer
       THEN /\ Goto(r, "checking")
            /\ UNCHANGED <<context, active, place, position, attempt, result, recorded, circuits, cache>>
       ELSE Fail(r, reply)

\* Seeded fault: the error of the context of the attempt is taken for that of the
\* caller.
Done_IsCancelled(r) ==
  /\ At(r, "calling")
  /\ calls' = Telling(Current(r))
  /\ Fail(r, Cancelled)

\* ... or the context of the attempt is done: by its own deadline, by that of
\* the caller, which counts as a timeout too, or because the caller cancelled.
Done(r) ==
  /\ At(r, "calling")
  /\ calls' = Telling(Current(r))
  /\ Fail(r, IF context[CallerOf[r]] = "cancelled" THEN Cancelled ELSE TimedOut)

\* The sleep is over, or its context was done: if both, either one.
Wake(r) ==
  /\ At(r, "sleeping")
  /\ \/ /\ Goto(r, "invoke")
        /\ attempt' = [attempt EXCEPT ![r] = @ + 1]
        /\ UNCHANGED result
     \/ /\ Ended(r)
        /\ Settle(r, "cancelled")
        /\ UNCHANGED attempt
  /\ UNCHANGED <<context, active, place, position, recorded, circuits, cache, calls>>

\* No repair makes the answer valid.
Unrepairable(r) ==
  /\ At(r, "checking")
  /\ "invalid-output" \in Verdicts
  /\ MoveOn(r, position[r], "invalid-output")
  /\ UNCHANGED <<context, active, place, position, attempt, recorded, circuits, cache, calls>>

\* A guard or the cost budget refuses the answer.
Refuse(r) ==
  /\ At(r, "checking")
  /\ \E kind \in Verdicts \cap PolicyKinds : Settle(r, kind)
  /\ UNCHANGED <<context, active, place, position, attempt, recorded, circuits, cache, calls>>

Accept(r) ==
  /\ At(r, "checking")
  /\ "valid" \in Verdicts
  /\ Close(Route(r))
  /\ Goto(r, "storing")
  /\ UNCHANGED <<context, active, place, position, attempt, result, recorded, cache, calls>>

Store(r) ==
  /\ At(r, "storing")
  /\ cache' \in {cache, cache \cup ({KeyOf[r]} \ {None})}
  /\ Settle(r, "success")
  /\ UNCHANGED <<context, active, place, position, attempt, recorded, circuits, calls>>

\* The context of a caller ends, and all that are derived from it.
End(c) ==
  /\ context[c] = "live"
  /\ \E how \in CanEnd[c] : context' = [context EXCEPT ![c] = how]
  /\ calls' = Telling({a \in calls : CallerOf[a.by] = c})
  /\ UNCHANGED <<active, place, pc, position, attempt, result, recorded, circuits, cache>>

\* What a request does without the help of an adapter.
Proceed(r) ==
  Withdraw(r) \/ Screen(r) \/ Select(r) \/ Invoke(r) \/ Done(r) \/ Wake(r) \/ Unrepairable(r) \/ Refuse(r) \/ Accept(r) \/ Store(r) \/ Report(r)

Next ==
  \/ \E r \in Requests : Enter(r) \/ Reply(r) \/ Proceed(r)
  \/ \E c \in Callers : End(c)
  \/ CallEnds \/ Tick
=============================================================================
