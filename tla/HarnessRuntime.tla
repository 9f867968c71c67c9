--------------------------- MODULE HarnessRuntime ---------------------------
(***************************************************************************)
(* HarnessRuntime.execute of the generated TypeScript runtime              *)
(* (src/extensions/runtimes/typescript.ts): requests that share a          *)
(* concurrency gate, a circuit breaker per route and a cache, each retried *)
(* along its routes under a deadline and an abort signal.  A step is what  *)
(* runs between two awaits at which another request, a timer or an abort   *)
(* can change what the code goes on to read; events and records are left   *)
(* out.                                                                    *)
(***************************************************************************)
EXTENDS RuntimeRequests

CONSTANTS
  Signals, SignalOf, \* see ConcurrencyGate
  CanAbort           \* the signals somebody may fire

ASSUME SignalAssumption ==
  /\ SignalOf \in [Requests -> Signals]
  /\ CanAbort \subseteq Signals

VARIABLES
  aborted, active, waiting, place, \* of the gate
  pc,        \* pc[r]: where execute is
  position,  \* position[r]: routeIndex, from 1
  attempt,   \* attempt[r]
  result,    \* result[r]: the kind of finalFailure, or "success"
  circuits,  \* #circuits, with a closed breaker for every route not seen yet
  cache      \* the keys with a value

gateVars == <<aborted, active, waiting, place>>
vars == <<aborted, active, waiting, place, pc, position, attempt, result, circuits, cache>>

Gate == INSTANCE ConcurrencyGate WITH Maximum <- MaxConcurrency

Steps == {"screen", "select", "invoke", "calling", "checking", "storing", "sleeping", "done"}

Init ==
  /\ Gate!Init
  /\ pc = [r \in Requests |-> "screen"]
  /\ position = [r \in Requests |-> 0]
  /\ attempt = [r \in Requests |-> 0]
  /\ result = [r \in Requests |-> "provider"]
  /\ circuits = [c \in Routes |-> Closed]
  /\ cache = {}

Aborted(r) == Gate!Aborted(r)

Route(r) == RoutesOf(r)[position[r]]

At(r, step) == place[r] = "inside" /\ pc[r] = step
Goto(r, step) == pc' = [pc EXCEPT ![r] = step]

\* Seeded fault: the slot of a cancelled request is not given back.
Finish_KeepsSlot(r, kind) ==
  /\ Goto(r, "done")
  /\ result' = [result EXCEPT ![r] = kind]
  /\ IF kind = "cancelled" THEN UNCHANGED gateVars ELSE Gate!Release(r)

\* execute ends: the finally clause releases the slot before #finishFailure is
\* through.
Finish(r, kind) ==
  /\ Goto(r, "done")
  /\ result' = [result EXCEPT ![r] = kind]
  /\ Gate!Release(r)

\* The n-th route has failed: on to the next one, whose event is awaited, or, with
\* no await in between, the end of the loop.
MoveOn(r, n, kind) ==
  IF n = Len(RoutesOf(r))
  THEN Finish(r, kind)
  ELSE /\ Goto(r, "select")
       /\ result' = [result EXCEPT ![r] = kind]
       /\ UNCHANGED gateVars

\* execute starts; executeBatch starts several with one signal.
Enter(r) ==
  /\ Gate!Acquire(r)
  /\ UNCHANGED <<pc, position, attempt, result, circuits, cache>>

\* The budget, the input guards or the approval turn the request down.
Reject(r) ==
  /\ At(r, "screen")
  /\ \E kind \in Rejections : Finish(r, kind)
  /\ UNCHANGED <<position, attempt, circuits, cache>>

\* The value is cached.
Hit(r) ==
  /\ At(r, "screen")
  /\ KeyOf[r] \in cache
  /\ Finish(r, "success")
  /\ UNCHANGED <<position, attempt, circuits, cache>>

\* It is not, the cache fails, or the request has no key: on to the routes.
Miss(r) ==
  /\ At(r, "screen")
  /\ Goto(r, "select")
  /\ UNCHANGED <<gateVars, position, attempt, result, circuits, cache>>

\* The loop over the routes goes to its next one, which has no adapter...
SkipMissing(r) ==
  /\ At(r, "select")
  /\ position' = [position EXCEPT ![r] = @ + 1]
  /\ RoutesOf(r)[position'[r]] \notin Adapters
  /\ MoveOn(r, position'[r], "provider")
  /\ UNCHANGED <<attempt, circuits, cache>>

\* ... or whose circuit is open...
SkipOpen(r) ==
  /\ At(r, "select")
  /\ position' = [position EXCEPT ![r] = @ + 1]
  /\ LET c == RoutesOf(r)[position'[r]] IN
       /\ c \in Adapters
       /\ ~Allows(circuits[c])
       /\ circuits' = [circuits EXCEPT ![c] = Admitted(@)]
  /\ MoveOn(r, position'[r], "circuit-open")
  /\ UNCHANGED <<attempt, cache>>

\* ... or which is admitted; the first attempt looks at the signal at once.
Admit(r) ==
  /\ At(r, "select")
  /\ position' = [position EXCEPT ![r] = @ + 1]
  /\ LET c == RoutesOf(r)[position'[r]] IN
       /\ c \in Adapters
       /\ Allows(circuits[c])
       /\ circuits' = [circuits EXCEPT ![c] = Admitted(@)]
  /\ attempt' = [attempt EXCEPT ![r] = 1]
  /\ IF Aborted(r)
     THEN Finish(r, "cancelled")
     ELSE Goto(r, "invoke") /\ UNCHANGED <<gateVars, result>>
  /\ UNCHANGED cache

\* Seeded fault: the kinds that stop the fallback are left out.
Fail_FallsBack(r, failure) ==
  LET c == Route(r) IN
  /\ circuits' = [circuits EXCEPT ![c] = IF failure.retryable THEN Failure(@) ELSE @]
  /\ IF failure.retryable /\ attempt[r] < MaxAttempts
     THEN /\ Goto(r, "sleeping")
          /\ result' = [result EXCEPT ![r] = failure.kind]
          /\ UNCHANGED gateVars
     ELSE IF failure.kind = "cancelled"
     THEN Finish(r, failure.kind)
     ELSE MoveOn(r, position[r], failure.kind)
  /\ UNCHANGED <<position, attempt, cache>>

\* What execute does with a failure of #invoke: count it, then back off, stop or
\* fall back to the next route.
Fail(r, failure) ==
  LET c == Route(r) IN
  /\ circuits' = [circuits EXCEPT ![c] = IF failure.retryable THEN Failure(@) ELSE @]
  /\ IF failure.retryable /\ attempt[r] < MaxAttempts
     THEN /\ Goto(r, "sleeping")
          /\ result' = [result EXCEPT ![r] = failure.kind]
          /\ UNCHANGED gateVars
     ELSE IF failure.kind \in PolicyKinds \cup {"cancelled"}
     THEN Finish(r, failure.kind)
     ELSE MoveOn(r, position[r], failure.kind)
  /\ UNCHANGED <<position, attempt, cache>>

\* Seeded fault: #invoke does not look at the signal.
Invoke_Blindly(r) ==
  /\ At(r, "invoke")
  /\ Goto(r, "calling") /\ UNCHANGED <<gateVars, position, attempt, result, circuits, cache>>

\* #invoke, after the attempt-started event has been emitted.
Invoke(r) ==
  /\ At(r, "invoke")
  /\ IF Aborted(r)
     THEN Fail(r, Cancelled)
     ELSE Goto(r, "calling") /\ UNCHANGED <<gateVars, position, attempt, result, circuits, cache>>

\* The adapter answers or fails first...
Reply(r) ==
  /\ At(r, "calling")
  /\ ~Aborted(r)
  /\ \E reply \in Replies :
       IF reply = Answer
       THEN Goto(r, "checking") /\ UNCHANGED <<gateVars, position, attempt, result, circuits, cache>>
       ELSE Fail(r, reply)

\* ... or the deadline comes first...
Deadline(r) ==
  /\ At(r, "calling")
  /\ ~Aborted(r)
  /\ Fail(r, TimedOut)

\* ... or the abort.
Interrupted(r) ==
  /\ At(r, "calling")
  /\ Aborted(r)
  /\ Fail(r, Cancelled)

\* The backoff is over, or the abort has cut it short: the next attempt.
Wake(r) ==
  /\ At(r, "sleeping")
  /\ IF Aborted(r)
     THEN Finish(r, "cancelled") /\ UNCHANGED attempt
     ELSE /\ Goto(r, "invoke")
          /\ attempt' = [attempt EXCEPT ![r] = @ + 1]
          /\ UNCHANGED <<gateVars, result>>
  /\ UNCHANGED <<position, circuits, cache>>

\* #validateAndRepair, the output guards and the cost budget accept the answer...
Accept(r) ==
  /\ At(r, "checking")
  /\ "valid" \in Verdicts
  /\ circuits' = [circuits EXCEPT ![Route(r)] = Success(@)]
  /\ Goto(r, "storing")
  /\ UNCHANGED <<gateVars, position, attempt, result, cache>>

\* ... or it cannot be repaired (an abort that makes the repair fail included)
\* and the next route is tried...
Unrepairable(r) ==
  /\ At(r, "checking")
  /\ "invalid-output" \in Verdicts
  /\ MoveOn(r, position[r], "invalid-output")
  /\ UNCHANGED <<position, attempt, circuits, cache>>

\* ... or the guards or the budget refuse it.
Refuse(r) ==
  /\ At(r, "checking")
  /\ \E kind \in Verdicts \cap PolicyKinds : Finish(r, kind)
  /\ UNCHANGED <<position, attempt, circuits, cache>>

\* The value goes to the cache, which may fail, and the request ends.
Store(r) ==
  /\ At(r, "storing")
  /\ \/ cache' = cache \cup ({KeyOf[r]} \ {None})
     \/ UNCHANGED cache
  /\ Finish(r, "success")
  /\ UNCHANGED <<position, attempt, circuits>>

\* The caller aborts.
Abort(s) ==
  /\ s \in CanAbort
  /\ Gate!Abort(s)
  /\ UNCHANGED <<pc, position, attempt, result, circuits, cache>>

\* The clock goes on.
Tick ==
  /\ circuits' = [c \in Routes |-> Aged(circuits[c])]
  /\ circuits' # circuits
  /\ UNCHANGED <<gateVars, pc, position, attempt, result, cache>>

\* What execute does on its own once it has a slot: every port it waits for
\* answers or, for an adapter, the deadline ends the wait.
Proceed(r) ==
  \/ Miss(r) \/ SkipMissing(r) \/ SkipOpen(r) \/ Admit(r)
  \/ Invoke(r) \/ Deadline(r) \/ Interrupted(r) \/ Wake(r)
  \/ Accept(r) \/ Unrepairable(r) \/ Refuse(r) \/ Store(r)

Next ==
  \/ \E r \in Requests : Enter(r) \/ Reject(r) \/ Hit(r) \/ Reply(r) \/ Proceed(r)
  \/ \E s \in Signals : Abort(s)
  \/ Tick

Spec == Init /\ [][Next]_vars

FairSpec == Spec /\ \A r \in Requests : WF_vars(Proceed(r))

-----------------------------------------------------------------------------

\* How far r is along its routes and attempts: there is a next route as long as
\* it looks for one, and a next attempt as long as it waits for one.
Fits(r) ==
  /\ position[r] <= Len(RoutesOf(r))
  /\ pc[r] \in {"screen", "select"} => position[r] < Len(RoutesOf(r))
  /\ pc[r] \in {"invoke", "calling", "checking", "storing", "sleeping"} => position[r] > 0
  /\ pc[r] = "sleeping" => attempt[r] < MaxAttempts
  /\ place[r] = "left" <=> pc[r] = "done"
  /\ place[r] \in {"outside", "waiting", "refused"} => pc[r] = "screen"

\* The type invariant; a request that is not inside the gate is not started or
\* done.
TypeOK ==
  /\ Gate!TypeOK
  /\ pc \in [Requests -> Steps]
  /\ position \in [Requests -> Nat]
  /\ attempt \in [Requests -> 0 .. MaxAttempts]
  /\ result \in [Requests -> FailureKinds \cup {"success"}]
  /\ circuits \in [Routes -> Breakers]
  /\ cache \subseteq Keys
  /\ \A r \in Requests : Fits(r)

\* execute uses the gate as the gate expects, on every one of its returns: the
\* slot is given back once, and given back in the end.
ImplementsGate == Gate!FairSpec

\* So the runtime is a concurrency limit: at most MaxConcurrency requests are under
\* way, and each that waits is served or turned away in the end.
ImplementsBoundedSlots == Gate!ImplementsBoundedSlots

\* Nobody overtakes a request that waits for a slot.
FirstComeFirstServed == Gate!FirstComeFirstServed

OnRoute(r, c) ==
  /\ place[r] = "inside"
  /\ pc[r] \in {"invoke", "calling", "checking", "sleeping"}
  /\ Route(r) = c

\* A half-open circuit that admits nobody has a probe under way that will close
\* or open it: it is not stuck.
NoLostProbe ==
  \A c \in Routes :
    circuits[c].state = "half-open" =>
      circuits[c].probes <= Cardinality({r \in Requests : OnRoute(r, c)})

\* What may end the use of a route without deciding about its circuit.
Undecided ==
  PolicyKinds \cup {"cancelled", "invalid-output"}
    \cup {f.kind : f \in {g \in Replies \ {Answer} : ~g.retryable}}

\* The probes that are lost are the known ones: a request leaves the route of a
\* half-open circuit without deciding it only when it is cancelled, refused by
\* policy, answered with what cannot be repaired, or failed by the adapter with
\* what may not be retried.  A failure that may be retried and an accepted answer
\* always decide.
ProbesAreDecided ==
  [][\A r \in Requests, c \in Routes :
       /\ OnRoute(r, c) /\ ~OnRoute(r, c)'
       /\ circuits[c].state = "half-open" /\ circuits'[c].state = "half-open"
       => result'[r] \in Undecided]_vars

Calls(r) == pc[r] # "calling" /\ pc'[r] = "calling"

\* "An aborted request is not retried": after the abort no adapter is called for
\* it any more, on the same or on another route.
AbortedIsNotCalled == [][\A r \in Requests : Aborted(r) => ~Calls(r)]_vars

\* Application policy "cannot be silently bypassed by a fallback route": once a
\* guard, the approval or a budget has refused a request, here or in the
\* adapter, the request ends and that is its result; an adapter that calls its
\* refusal retryable may be asked again, but no other route is.
PolicyIsTerminal ==
  \A r \in Requests : result[r] \in PolicyKinds =>
    \/ pc[r] = "done"
    \/ pc[r] \notin {"screen", "select"} /\ \E f \in Replies : f.kind = result[r] /\ f.retryable

\* The invariant of execute: its slots, positions and results fit together, no
\* slot is lost, used twice or left idle, and a refusal is final.
HarnessInv == TypeOK /\ Gate!GateInv /\ PolicyIsTerminal
=============================================================================
