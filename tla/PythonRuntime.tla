--------------------------- MODULE PythonRuntime ---------------------------
(***************************************************************************)
(* HarnessRuntime of the generated Python runtime                          *)
(* (src/extensions/runtimes/python.ts).  Requests are asyncio tasks; the   *)
(* gate is asyncio.Semaphore; cancelling a task raises CancelledError at   *)
(* the await at which it stands.  An adapter is awaited by the task of its *)
(* request itself, so that the deadline only asks it to stop and waits     *)
(* until it has.  Adapters let CancelledError pass.                        *)
(***************************************************************************)
EXTENDS PortableRuntime

Init == Start

Cancelling(r) == Ended(r)

\* A released slot is reserved for a waiting task before that task runs again.
Free(p) ==
  IF \E q \in Requests : p[q] = "waiting"
  THEN \E q \in Requests : p[q] = "waiting" /\ place' = [p EXCEPT ![q] = "granted"] /\ UNCHANGED active
  ELSE place' = p /\ active' = active - 1

\* async with self._gate.
Enter(r) ==
  /\ place[r] = "outside"
  /\ \/ /\ Cancelling(r)
        /\ place' = [place EXCEPT ![r] = "refused"]
        /\ UNCHANGED active
     \/ /\ ~Cancelling(r)
        /\ active < MaxConcurrency
        /\ place' = [place EXCEPT ![r] = "inside"]
        /\ active' = active + 1
     \/ /\ ~Cancelling(r)
        /\ ~(active < MaxConcurrency)
        /\ place' = [place EXCEPT ![r] = "waiting"]
        /\ UNCHANGED active
  /\ UNCHANGED <<context, pc, position, attempt, result, recorded, circuits, cache, calls>>

\* The waiting task runs again with its slot.
Resume(r) ==
  /\ place[r] = "granted"
  /\ ~Cancelling(r)
  /\ place' = [place EXCEPT ![r] = "inside"]
  /\ UNCHANGED <<context, active, pc, position, attempt, result, recorded, circuits, cache, calls>>

\* Seeded fault: the slot that was reserved for a cancelled task is not freed.
Withdraw_KeepsSlot(r) ==
  /\ place[r] \in {"waiting", "granted"}
  /\ Cancelling(r)
  /\ place' = [place EXCEPT ![r] = IF @ = "granted" THEN "left" ELSE "refused"]
  /\ UNCHANGED <<context, active, pc, position, attempt, result, recorded, circuits, cache, calls>>

\* It is cancelled while it waits, or when it has been given a slot already.
Withdraw(r) ==
  /\ place[r] \in {"waiting", "granted"}
  /\ Cancelling(r)
  /\ IF place[r] = "granted"
     THEN Free([place EXCEPT ![r] = "left"])
     ELSE place' = [place EXCEPT ![r] = "refused"] /\ UNCHANGED active
  /\ UNCHANGED <<context, pc, position, attempt, result, recorded, circuits, cache, calls>>

Running(r, step) == At(r, step) /\ ~Cancelling(r)

\* Execution ends with a result, which is then recorded.
Settle(r, kind) ==
  /\ Goto(r, "reporting")
  /\ result' = [result EXCEPT ![r] = kind]

Report(r) ==
  /\ Running(r, "reporting")
  /\ recorded' = [recorded EXCEPT ![r] = result[r]]
  /\ Goto(r, "done")
  /\ Free([place EXCEPT ![r] = "left"])
  /\ UNCHANGED <<context, position, attempt, result, circuits, cache, calls>>

\* CancelledError leaves execute: nothing is recorded any more, and the adapter,
\* if one was awaited, has stopped.
Interrupted(r) ==
  /\ place[r] = "inside"
  /\ Cancelling(r)
  /\ result' = [result EXCEPT ![r] = "cancelled"]
  /\ recorded' \in {recorded} \cup
       (IF pc[r] = "reporting" THEN {[recorded EXCEPT ![r] = result[r]]} ELSE {})
  /\ calls' = calls \ Current(r)
  /\ Goto(r, "done")
  /\ Free([place EXCEPT ![r] = "left"])
  /\ UNCHANGED <<context, position, attempt, circuits, cache>>

\* Budget, guards, approval and cache, which decide before any route is tried.
Screen(r) ==
  /\ Running(r, "screen")
  /\ \/ \E kind \in Rejections : Settle(r, kind)
     \/ KeyOf[r] \in cache /\ Settle(r, "success")
     \/ Goto(r, "select") /\ UNCHANGED result
  /\ UNCHANGED <<context, active, place, position, attempt, recorded, circuits, cache, calls>>

\* allow, failure and success of CircuitBreaker.
Ask(c) == circuits' = [circuits EXCEPT ![c] = Admitted(@)]
Count(c, failure) == circuits' = [circuits EXCEPT ![c] = IF failure.retryable THEN Failure(@) ELSE @]
Close(c) == circuits' = [circuits EXCEPT ![c] = Success(@)]

\* The n-th route has failed: the next one, or the end.
MoveOn(r, n, kind) ==
  IF n = Len(RoutesOf(r))
  THEN Settle(r, kind)
  ELSE Goto(r, "select") /\ result' = [result EXCEPT ![r] = kind]

\* The next route has no adapter, an open circuit, or is tried.
Select(r) ==
  /\ Running(r, "select")
  /\ position' = [position EXCEPT ![r] = @ + 1]
  /\ LET c == RoutesOf(r)[position'[r]] IN
       \/ /\ c \notin Adapters
          /\ MoveOn(r, position'[r], "provider")
          /\ UNCHANGED <<circuits, attempt>>
       \/ /\ c \in Adapters
          /\ Ask(c)
          /\ IF Allows(circuits[c])
             THEN Goto(r, "invoke") /\ attempt' = [attempt EXCEPT ![r] = 1] /\ UNCHANGED result
             ELSE MoveOn(r, position'[r], "circuit-open") /\ UNCHANGED attempt
  /\ UNCHANGED <<context, active, place, recorded, cache, calls>>

\* The event of the attempt has been emitted; _invoke awaits the adapter.
Invoke(r) ==
  /\ Running(r, "invoke")
  /\ Goto(r, "calling")
  /\ calls' = calls \cup {Call(r, FALSE)}
  /\ UNCHANGED <<context, active, place, position, attempt, result, recorded, circuits, cache>>

\* A failure is counted; then backoff, the end, or the next route.
Fail(r, failure) ==
  /\ Count(Route(r), failure)
  /\ IF failure.retryable /\ attempt[r] < MaxAttempts
     THEN Goto(r, "sleeping") /\ result' = [result EXCEPT ![r] = failure.kind]
     ELSE IF failure.kind \in PolicyKinds \cup {"cancelled"}
     THEN Settle(r, failure.kind)
     ELSE MoveOn(r, position[r], failure.kind)
  /\ UNCHANGED <<context, active, place, position, attempt, recorded, cache>>

\* The adapter returns or raises, in time or although it was asked to stop...
Reply(r) ==
  /\ Running(r, "calling") \/ Running(r, "expiring")
  /\ calls' = calls \ Current(r)
  /\ \E reply \in Replies :
       IF reply = Answer
       THEN /\ Goto(r, "checking")
            /\ UNCHANGED <<context, active, place, position, attempt, result, recorded, circuits, cache>>
       ELSE Fail(r, reply)

\* ... or the deadline passes, and asyncio.timeout asks it to stop...
Expire(r) ==
  /\ Running(r, "calling")
  /\ Goto(r, "expiring")
  /\ calls' = Telling(Current(r))
  /\ UNCHANGED <<context, active, place, position, attempt, result, recorded, circuits, cache>>

\* Seeded fault: the task does not wait until it has.
Expired_GoesOn(r) ==
  /\ Running(r, "expiring")
  /\ UNCHANGED calls
  /\ Fail(r, TimedOut)

\* ... which it does.
Expired(r) ==
  /\ Running(r, "expiring")
  /\ calls' = calls \ Current(r)
  /\ Fail(r, TimedOut)

\* The sleep is over.
Wake(r) ==
  /\ Running(r, "sleeping")
  /\ Goto(r, "invoke")
  /\ attempt' = [attempt EXCEPT ![r] = @ + 1]
  /\ UNCHANGED <<context, active, place, position, result, recorded, circuits, cache, calls>>

\* No repair makes the answer valid.
Unrepairable(r) ==
  /\ Running(r, "checking")
  /\ "invalid-output" \in Verdicts
  /\ MoveOn(r, position[r], "invalid-output")
  /\ UNCHANGED <<context, active, place, position, attempt, recorded, circuits, cache, calls>>

\* A guard or the cost budget refuses the answer.
Refuse(r) ==
  /\ Running(r, "checking")
  /\ \E kind \in Verdicts \cap PolicyKinds : Settle(r, kind)
  /\ UNCHANGED <<context, active, place, position, attempt, recorded, circuits, cache, calls>>

Accept(r) ==
  /\ Running(r, "checking")
  /\ "valid" \in Verdicts
  /\ Close(Route(r))
  /\ Goto(r, "storing")
  /\ UNCHANGED <<context, active, place, position, attempt, result, recorded, cache, calls>>

Store(r) ==
  /\ Running(r, "storing")
  /\ cache' \in {cache, cache \cup ({KeyOf[r]} \ {None})}
  /\ Settle(r, "success")
  /\ UNCHANGED <<context, active, place, position, attempt, recorded, circuits, calls>>

\* task.cancel(): the adapters awaited by the tasks of c are cancelled with them.
Cancel(c) ==
  /\ context[c] = "live"
  /\ "cancelled" \in CanEnd[c]
  /\ context' = [context EXCEPT ![c] = "cancelled"]
  /\ calls' = Telling({a \in calls : CallerOf[a.by] = c})
  /\ UNCHANGED <<active, place, pc, position, attempt, result, recorded, circuits, cache>>

\* What a task does on its own, its adapter stopping when it is asked to.
Proceed(r) ==
  \/ Resume(r) \/ Withdraw(r) \/ Interrupted(r) \/ Screen(r) \/ Select(r) \/ Invoke(r)
  \/ Expire(r) \/ Expired(r) \/ Wake(r) \/ Unrepairable(r) \/ Refuse(r) \/ Accept(r) \/ Store(r) \/ Report(r)

Next ==
  \/ \E r \in Requests : Enter(r) \/ Reply(r) \/ Proceed(r)
  \/ \E c \in Callers : Cancel(c)
  \/ Tick
=============================================================================
