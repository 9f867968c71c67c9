----------------------- MODULE HarnessRuntime_proofs -----------------------
(***************************************************************************)
(* Proofs about HarnessRuntime, for any requests, routes, options and      *)
(* adapters.  Whatever execute does to its gate is a step of               *)
(* ConcurrencyGate, so that the theorems about the gate hold of it; what   *)
(* remains is how far each request is, which every action of a request     *)
(* leaves fitting for that request and untouched for the others.           *)
(***************************************************************************)
EXTENDS HarnessRuntime, TLAPS, FiniteSetTheorems

\* The gate, with the theorems about it.
GateP == INSTANCE ConcurrencyGate_proofs WITH Maximum <- MaxConcurrency

\* What a request may end with, and where it may be.
Outcomes == FailureKinds \cup {"success"}
Places == {"outside", "waiting", "inside", "refused", "left"}

-----------------------------------------------------------------------------
(* The gate as a part of the runtime.                                      *)

\* The gate's parameters are as its theorems expect.
LEMMA GateFits == GateP!GateParameters
  BY RuntimeAssumption, SignalAssumption DEF GateP!GateParameters, GateP!IsFiniteSet, IsFiniteSet

\* The gate of the runtime is the one the theorems are about: its invariant.
LEMMA SameInv == (Gate!GateInv <=> GateP!GateInv) /\ (Gate!GateInv <=> GateP!GateInv)'
  BY DEF Gate!GateInv, GateP!GateInv, Gate!TypeOK, GateP!TypeOK, Gate!Queued, GateP!Queued,
     Gate!SlotsAreAccountedFor, GateP!SlotsAreAccountedFor, Gate!Inside, GateP!Inside,
     Gate!NoIdleSlot, GateP!NoIdleSlot, Gate!Aborted, GateP!Aborted, Gate!Cardinality, GateP!Cardinality

\* Its initial states and its steps.
LEMMA SameActions ==
  /\ Gate!Init <=> GateP!Init
  /\ \A r \in Requests : Gate!Acquire(r) <=> GateP!Acquire(r)
  /\ \A r \in Requests : Gate!Release(r) <=> GateP!Release(r)
  /\ \A s \in Signals : Gate!Abort(s) <=> GateP!Abort(s)
<1>1. Gate!Init <=> GateP!Init
  BY DEF Gate!Init, GateP!Init
<1>2. ASSUME NEW r \in Requests PROVE Gate!Acquire(r) <=> GateP!Acquire(r)
  BY DEF Gate!Acquire, GateP!Acquire, Gate!Aborted, GateP!Aborted
<1>3. ASSUME NEW r \in Requests PROVE Gate!Release(r) <=> GateP!Release(r)
  BY DEF Gate!Release, GateP!Release
<1>4. ASSUME NEW s \in Signals PROVE Gate!Abort(s) <=> GateP!Abort(s)
  BY DEF Gate!Abort, GateP!Abort, Gate!Without, GateP!Without
<1> QED
  BY <1>1, <1>2, <1>3, <1>4

\* The gate's invariant is kept by a step of the gate.
LEMMA GateKeeps ==
  ASSUME Gate!GateInv,
         \/ UNCHANGED gateVars
         \/ \E r \in Requests : Gate!Acquire(r) \/ Gate!Release(r)
         \/ \E s \in Signals : Gate!Abort(s)
  PROVE  Gate!GateInv' /\ [GateP!Next]_gateVars
<1>1. [GateP!Next]_gateVars
  BY SameActions DEF GateP!Next
<1>2. GateP!GateInv /\ GateP!GateParameters
  BY SameInv, GateFits
<1>3. GateP!GateInv'
  BY <1>1, <1>2, GateP!GateStep DEF GateP!vars, gateVars
<1> QED
  BY <1>1, <1>3, SameInv

\* What a release does to the places: the request leaves, and one that waits may
\* get in.
LEMMA ReleaseMoves ==
  ASSUME Gate!GateInv, NEW r \in Requests, Gate!Release(r)
  PROVE  /\ place[r] = "inside" /\ place'[r] = "left"
         /\ \A q \in Requests \ {r} : \/ place'[q] = place[q]
                                      \/ place[q] = "waiting" /\ place'[q] = "inside"
<1>1. place \in [Requests -> Places] /\ waiting \in Seq(Requests) /\ place[r] = "inside"
  BY DEF Gate!GateInv, Gate!TypeOK, Gate!Release, Places
<1>2. CASE waiting = <<>>
  BY <1>1, <1>2 DEF Gate!Release
<1>3. CASE waiting # <<>>
  <2> DEFINE h == Head(waiting)
  <2>1. h \in Requests /\ place[h] = "waiting"
    <3>1. 1 \in 1 .. Len(waiting) /\ h = waiting[1]
      BY <1>1, <1>3
    <3> QED
      BY <3>1 DEF Gate!GateInv, Gate!TypeOK, Gate!Queued
  <2>2. place' = [place EXCEPT ![r] = "left", ![h] = "inside"]
    BY <1>3 DEF Gate!Release
  <2> HIDE DEF h
  <2> QED
    BY <1>1, <2>1, <2>2
<1> QED
  BY <1>2, <1>3

-----------------------------------------------------------------------------
(* The operators of the model.                                             *)

\* Every request has at least one route.
LEMMA SomeRoute == ASSUME NEW r \in Requests PROVE Len(RoutesOf(r)) \in Nat \ {0}
<1> DEFINE all == <<RouteOf[r]>> \o FallbackRoutes
           First(i) == \A j \in 1 .. i - 1 : all[j] # all[i]
           F == {i \in 1 .. Len(all) : First(i)}
<1>1. all \in Seq(Routes) /\ Len(all) \in Nat \ {0}
  BY RuntimeAssumption
<1> HIDE DEF all
<1>2. F \subseteq 1 .. Len(all) /\ 1 \in F
  BY <1>1
<1>3. IsFiniteSet(F) /\ Cardinality(F) \in Nat
  <2>1. IsFiniteSet(1 .. Len(all))
    BY <1>1, FS_Interval
  <2> HIDE DEF F
  <2>2. IsFiniteSet(F)
    BY <1>2, <2>1, FS_Subset
  <2> QED
    BY <2>2, FS_CardinalityType
<1>4. Cardinality(F) # 0
  BY <1>2, <1>3, FS_EmptySet
<1>5. Len(RoutesOf(r)) = Cardinality(F)
  <2> DEFINE Later(i) == Cardinality({j \in 1 .. i : First(j)})
             nth(n) == all[CHOOSE i \in 1 .. Len(all) : First(i) /\ Later(i) = n]
  <2>1. RoutesOf(r) = [n \in 1 .. Cardinality(F) |-> nth(n)]
    BY DEF RoutesOf, all
  <2> HIDE DEF nth, F
  <2> QED
    BY <1>3, <2>1
<1> QED
  BY <1>3, <1>4, <1>5

\* The methods of a circuit breaker leave a circuit breaker.
LEMMA BreakerTypes ==
  ASSUME NEW b, b \in Breakers
  PROVE  /\ Seen(b) \in Breakers /\ Admitted(b) \in Breakers /\ Failure(b) \in Breakers
         /\ Success(b) \in Breakers /\ Aged(b) \in Breakers /\ Closed \in Breakers
<1> USE BreakerAssumption
<1>1. Closed \in Breakers /\ Success(b) \in Breakers
  BY DEF Closed, Success, Breakers
<1>2. Failure(b) \in Breakers
  BY DEF Failure, Breakers
<1>3. Aged(b) \in Breakers
  BY DEF Aged, Breakers
<1>4. Seen(b) \in Breakers
  <2> DEFINE halfOpen == [b EXCEPT !.state = "half-open"]
             restarted == [halfOpen EXCEPT !.openFor = 0]
             fresh == [restarted EXCEPT !.probes = 0]
  <2>1. halfOpen \in Breakers
    BY DEF Breakers
  <2> HIDE DEF halfOpen
  <2>2. restarted \in Breakers
    BY <2>1 DEF Breakers
  <2> HIDE DEF restarted
  <2>3. fresh \in Breakers
    BY <2>2 DEF Breakers
  <2>4. Seen(b) = IF b.state = "open" /\ b.openFor >= ResetAfterMs THEN fresh ELSE b
    BY DEF Seen, fresh, restarted, halfOpen
  <2> HIDE DEF fresh
  <2> QED
    BY <2>3, <2>4
<1>5. Admitted(b) \in Breakers
  <2> DEFINE s == Seen(b)
             counted == [s EXCEPT !.probes = s.probes + 1]
  <2>1. s \in Breakers
    BY <1>4
  <2>2. Admitted(b) = IF Allows(b) /\ s.state = "half-open" THEN counted ELSE s
    BY DEF Admitted
  <2>3. Allows(b) /\ s.state = "half-open" => s.probes < HalfOpenMaxAttempts
    BY DEF Allows
  <2> HIDE DEF s
  <2>4. s.probes < HalfOpenMaxAttempts => counted \in Breakers
    BY <2>1 DEF Breakers
  <2> HIDE DEF counted
  <2> QED
    BY <2>1, <2>2, <2>3, <2>4
<1> QED
  BY <1>1, <1>2, <1>3, <1>4, <1>5

\* A failure opens a half-open circuit, and nothing else does but looking at it.
LEMMA FailureOpens == ASSUME NEW b \in Breakers, b.state = "half-open" PROVE Failure(b).state = "open"
  BY DEF Failure

-----------------------------------------------------------------------------
(* The steps.                                                              *)

\* Where the variables of the requests range.
Ranges ==
  /\ pc \in [Requests -> Steps] /\ position \in [Requests -> Nat]
  /\ attempt \in [Requests -> 0 .. MaxAttempts] /\ result \in [Requests -> Outcomes]
  /\ circuits \in [Routes -> Breakers] /\ cache \subseteq Keys

\* A refusal that r has had is final, or may be repeated on the same route.
Final(r) ==
  result[r] \in PolicyKinds =>
    \/ pc[r] = "done"
    \/ pc[r] \notin {"screen", "select"} /\ \E f \in Replies : f.kind = result[r] /\ f.retryable

\* How far r is, and what it leaves of the gate: what Fits says besides.
Placed(r) ==
  /\ position[r] <= Len(RoutesOf(r))
  /\ pc[r] \in {"screen", "select"} => position[r] < Len(RoutesOf(r))
  /\ pc[r] \in {"invoke", "calling", "checking", "storing", "sleeping"} => position[r] > 0
  /\ pc[r] = "sleeping" => attempt[r] < MaxAttempts

\* The requests but r are where they were.
OthersStay(r) ==
  \A q \in Requests \ {r} :
    pc'[q] = pc[q] /\ position'[q] = position[q] /\ attempt'[q] = attempt[q] /\ result'[q] = result[q]

\* What each step of a request inside the gate does: it goes on with its slot, or
\* it ends and gives the slot back.
Moves(r) ==
  /\ Ranges' /\ OthersStay(r) /\ Placed(r)' /\ Final(r)'
  /\ place[r] = "inside"
  /\ \/ pc'[r] # "done" /\ UNCHANGED gateVars
     \/ pc'[r] = "done" /\ Gate!Release(r)

\* The invariant in these terms.
LEMMA InvMeans ==
  HarnessInv <=> /\ Gate!GateInv /\ Ranges
                 /\ \A r \in Requests :
                      /\ Placed(r) /\ Final(r)
                      /\ place[r] = "left" <=> pc[r] = "done"
                      /\ place[r] \in {"outside", "waiting", "refused"} => pc[r] = "screen"
  BY DEF HarnessInv, TypeOK, Fits, Placed, PolicyIsTerminal, Final, Ranges, Outcomes, Gate!GateInv

\* The same of the next state.
LEMMA InvMeansNext ==
  HarnessInv' <=> /\ Gate!GateInv' /\ Ranges'
                  /\ \A r \in Requests :
                       /\ Placed(r)' /\ Final(r)'
                       /\ place'[r] = "left" <=> pc'[r] = "done"
                       /\ place'[r] \in {"outside", "waiting", "refused"} => pc'[r] = "screen"
  BY DEF HarnessInv, TypeOK, Fits, Placed, PolicyIsTerminal, Final, Ranges, Outcomes, Gate!GateInv

\* Steps of this kind preserve the invariant.
LEMMA MovesKeeps ==
  ASSUME HarnessInv, NEW r \in Requests, Moves(r)
  PROVE  HarnessInv'
<1>1. /\ Gate!GateInv /\ Ranges
      /\ \A q \in Requests :
           /\ Placed(q) /\ Final(q)
           /\ place[q] = "left" <=> pc[q] = "done"
           /\ place[q] \in {"outside", "waiting", "refused"} => pc[q] = "screen"
  BY InvMeans
<1>2. Gate!GateInv'
  BY <1>1, GateKeeps DEF Moves
<1>3. ASSUME NEW q \in Requests \ {r}
      PROVE  /\ Placed(q)' /\ Final(q)'
             /\ pc'[q] = pc[q]
             /\ \/ place'[q] = place[q]
                \/ place[q] = "waiting" /\ place'[q] = "inside"
  <2>1. pc'[q] = pc[q] /\ position'[q] = position[q] /\ attempt'[q] = attempt[q] /\ result'[q] = result[q]
    BY DEF Moves, OthersStay
  <2>2. Placed(q)' /\ Final(q)'
    BY <1>1, <2>1 DEF Placed, Final
  <2>3. CASE UNCHANGED gateVars
    BY <2>1, <2>2, <2>3 DEF gateVars
  <2>4. CASE Gate!Release(r)
    BY <1>1, <2>1, <2>2, <2>4, ReleaseMoves
  <2> QED
    BY <2>3, <2>4 DEF Moves
<1>4. /\ Placed(r)' /\ Final(r)'
      /\ place'[r] = "left" <=> pc'[r] = "done"
      /\ place'[r] \notin {"outside", "waiting", "refused"}
  <2>1. CASE pc'[r] # "done" /\ UNCHANGED gateVars
    BY <2>1 DEF Moves, gateVars
  <2>2. CASE pc'[r] = "done" /\ Gate!Release(r)
    BY <1>1, <2>2, ReleaseMoves DEF Moves
  <2> QED
    BY <2>1, <2>2 DEF Moves
<1>5. Ranges'
  BY DEF Moves
<1>6. ASSUME NEW q \in Requests
      PROVE  /\ Placed(q)' /\ Final(q)'
             /\ place'[q] = "left" <=> pc'[q] = "done"
             /\ place'[q] \in {"outside", "waiting", "refused"} => pc'[q] = "screen"
  <2>1. CASE q = r
    BY <1>4, <2>1
  <2>2. CASE q # r
    BY <1>1, <1>3, <2>2
  <2> QED
    BY <2>1, <2>2
<1> HIDE DEF gateVars
<1> QED
  BY <1>2, <1>5, <1>6, InvMeansNext

\* What is known where a step begins.
LEMMA Begins ==
  ASSUME HarnessInv, NEW r \in Requests
  PROVE  /\ Ranges /\ Placed(r) /\ Final(r)
         /\ Len(RoutesOf(r)) \in Nat \ {0} /\ position[r] \in Nat /\ attempt[r] \in 0 .. MaxAttempts
         /\ MaxAttempts \in Nat \ {0}
<1>1. Ranges /\ Placed(r) /\ Final(r)
  BY InvMeans
<1> QED
  BY <1>1, SomeRoute, RuntimeAssumption DEF Ranges

\* Finish ends a request.
LEMMA FinishMoves ==
  ASSUME HarnessInv, NEW r \in Requests, NEW kind \in Outcomes, Finish(r, kind), place[r] = "inside",
         position' \in [Requests -> Nat], attempt' \in [Requests -> 0 .. MaxAttempts],
         circuits' \in [Routes -> Breakers], cache' \subseteq Keys, position'[r] <= Len(RoutesOf(r)),
         \A q \in Requests \ {r} : position'[q] = position[q] /\ attempt'[q] = attempt[q]
  PROVE  Moves(r)
<1>1. Ranges
  BY Begins
<1>2. pc' = [pc EXCEPT ![r] = "done"] /\ result' = [result EXCEPT ![r] = kind] /\ Gate!Release(r)
  BY DEF Finish, Goto
<1>3. Ranges' /\ OthersStay(r) /\ pc'[r] = "done"
  BY <1>1, <1>2 DEF Ranges, Steps, OthersStay
<1>4. Placed(r)' /\ Final(r)'
  BY <1>3 DEF Placed, Final
<1> QED
  BY <1>2, <1>3, <1>4 DEF Moves

\* A request that goes on to `step` keeps its slot.
LEMMA GoesOn ==
  ASSUME HarnessInv, NEW r \in Requests, NEW step \in Steps \ {"done"}, Goto(r, step), UNCHANGED gateVars,
         place[r] = "inside",
         position' \in [Requests -> Nat], attempt' \in [Requests -> 0 .. MaxAttempts],
         result' \in [Requests -> Outcomes], circuits' \in [Routes -> Breakers], cache' \subseteq Keys,
         \A q \in Requests \ {r} : /\ position'[q] = position[q] /\ attempt'[q] = attempt[q]
                                   /\ result'[q] = result[q],
         position'[r] <= Len(RoutesOf(r)),
         step \in {"screen", "select"} => position'[r] < Len(RoutesOf(r)),
         step \in {"invoke", "calling", "checking", "storing", "sleeping"} => position'[r] > 0,
         step = "sleeping" => attempt'[r] < MaxAttempts,
         result'[r] \in PolicyKinds =>
           step \notin {"screen", "select"} /\ \E f \in Replies : f.kind = result'[r] /\ f.retryable
  PROVE  Moves(r)
<1>1. Ranges
  BY Begins
<1>2. pc' = [pc EXCEPT ![r] = step]
  BY DEF Goto
<1>3. Ranges' /\ OthersStay(r) /\ pc'[r] = step
  BY <1>1, <1>2 DEF Ranges, OthersStay
<1>4. Placed(r)' /\ Final(r)'
  BY <1>3 DEF Placed, Final
<1> QED
  BY <1>3, <1>4 DEF Moves

\* A request whose route has failed goes to the next one, or ends.
LEMMA MoveOnMoves ==
  ASSUME HarnessInv, NEW r \in Requests, NEW kind \in Outcomes \ PolicyKinds, place[r] = "inside",
         NEW n, n \in Nat, n > 0, n <= Len(RoutesOf(r)), position'[r] = n, MoveOn(r, n, kind),
         position' \in [Requests -> Nat], attempt' \in [Requests -> 0 .. MaxAttempts],
         circuits' \in [Routes -> Breakers], cache' \subseteq Keys,
         \A q \in Requests \ {r} : position'[q] = position[q] /\ attempt'[q] = attempt[q]
  PROVE  Moves(r)
<1>1. CASE n = Len(RoutesOf(r))
  BY <1>1, FinishMoves, SomeRoute DEF MoveOn
<1>2. CASE n # Len(RoutesOf(r))
  <2>1. Goto(r, "select") /\ result' = [result EXCEPT ![r] = kind] /\ UNCHANGED gateVars
    BY <1>2 DEF MoveOn
  <2>2. result \in [Requests -> Outcomes]
    BY Begins DEF Ranges
  <2>3. /\ result' \in [Requests -> Outcomes] /\ result'[r] \notin PolicyKinds
        /\ \A q \in Requests \ {r} : result'[q] = result[q]
    BY <2>1, <2>2
  <2>4. n < Len(RoutesOf(r)) /\ "select" \in Steps \ {"done"}
    BY <1>2, SomeRoute DEF Steps
  <2> HIDE DEF gateVars
  <2> QED
    BY <2>1, <2>3, <2>4, GoesOn
<1> QED
  BY <1>1, <1>2

-----------------------------------------------------------------------------
(* The actions.                                                            *)

\* The failures execute deals with: those of adapters, a deadline, an abort.
Failures == (Replies \ {Answer}) \cup {TimedOut, Cancelled}

\* Their kinds are those of failures, and only adapters report refusals so.
LEMMA FailureTypes ==
  ASSUME NEW f \in Failures
  PROVE  /\ f.kind \in FailureKinds /\ f.retryable \in BOOLEAN /\ f.kind \in Outcomes
         /\ f.kind \in PolicyKinds => f \in Replies
<1>1. CASE f \in Replies \ {Answer}
  <2>1. f \in [kind : FailureKinds, retryable : BOOLEAN]
    BY <1>1, RuntimeAssumption
  <2> QED
    BY <1>1, <2>1 DEF Outcomes
<1>2. CASE f = TimedOut
  BY <1>2 DEF TimedOut, FailureKinds, PolicyKinds, Outcomes
<1>3. CASE f = Cancelled
  BY <1>3 DEF Cancelled, FailureKinds, PolicyKinds, Outcomes
<1> QED
  BY <1>1, <1>2, <1>3 DEF Failures

\* Where r is leaves the other variables of the types they have.
LEMMA Typed ==
  ASSUME HarnessInv
  PROVE  /\ pc \in [Requests -> Steps] /\ position \in [Requests -> Nat]
         /\ attempt \in [Requests -> 0 .. MaxAttempts] /\ result \in [Requests -> Outcomes]
         /\ circuits \in [Routes -> Breakers] /\ cache \subseteq Keys
  BY InvMeans DEF Ranges

\* A failure is retried, ends the request, or ends its route.
LEMMA FailMoves ==
  ASSUME HarnessInv, NEW r \in Requests, NEW f \in Failures, Fail(r, f), place[r] = "inside",
         pc[r] \in {"invoke", "calling"}
  PROVE  Moves(r)
<1>1. /\ position[r] \in Nat /\ position[r] > 0 /\ position[r] <= Len(RoutesOf(r))
  BY Begins DEF Placed
<1>2. /\ UNCHANGED <<position, attempt, cache>>
      /\ position' \in [Requests -> Nat] /\ attempt' \in [Requests -> 0 .. MaxAttempts] /\ cache' \subseteq Keys
  BY Typed DEF Fail
<1>3. circuits' \in [Routes -> Breakers]
  <2>1. circuits \in [Routes -> Breakers]
    BY Typed
  <2>2. circuits' = [circuits EXCEPT ![Route(r)] = IF f.retryable THEN Failure(circuits[Route(r)]) ELSE circuits[Route(r)]]
    BY DEF Fail
  <2>3. CASE Route(r) \in Routes
    <3>1. circuits[Route(r)] \in Breakers
      BY <2>1, <2>3
    <3>2. Failure(circuits[Route(r)]) \in Breakers
      BY <3>1, BreakerTypes
    <3> QED
      BY <2>1, <2>2, <3>1, <3>2
  <2>4. CASE Route(r) \notin Routes
    BY <2>1, <2>2, <2>4
  <2> QED
    BY <2>3, <2>4
<1>4. f.kind \in Outcomes /\ (f.kind \in PolicyKinds => f \in Replies)
  BY FailureTypes
<1> HIDE DEF gateVars
<1>5. CASE f.retryable /\ attempt[r] < MaxAttempts
  <2>1. Goto(r, "sleeping") /\ result' = [result EXCEPT ![r] = f.kind] /\ UNCHANGED gateVars
    BY <1>5 DEF Fail
  <2>2. /\ result' \in [Requests -> Outcomes] /\ result'[r] = f.kind
        /\ \A q \in Requests \ {r} : result'[q] = result[q]
    BY <1>4, <2>1, Typed
  <2>3. "sleeping" \in Steps \ {"done"}
    BY DEF Steps
  <2> QED
    BY <1>1, <1>2, <1>3, <1>4, <1>5, <2>1, <2>2, <2>3, GoesOn
<1>6. CASE ~(f.retryable /\ attempt[r] < MaxAttempts) /\ f.kind \in PolicyKinds \cup {"cancelled"}
  <2>1. Finish(r, f.kind)
    BY <1>6 DEF Fail
  <2> QED
    BY <1>1, <1>2, <1>3, <1>4, <2>1, FinishMoves
<1>7. CASE ~(f.retryable /\ attempt[r] < MaxAttempts) /\ f.kind \notin PolicyKinds \cup {"cancelled"}
  <2>1. MoveOn(r, position[r], f.kind) /\ position'[r] = position[r]
    BY <1>2, <1>7 DEF Fail
  <2>2. f.kind \in Outcomes \ PolicyKinds
    BY <1>4, <1>7
  <2> QED
    BY <1>1, <1>2, <1>3, <2>1, <2>2, MoveOnMoves
<1> QED
  BY <1>5, <1>6, <1>7

\* What is screened.
LEMMA ScreenMoves ==
  ASSUME HarnessInv, NEW r \in Requests, Reject(r) \/ Hit(r) \/ Miss(r)
  PROVE  Moves(r)
<1>1. /\ position[r] \in Nat /\ position[r] < Len(RoutesOf(r)) /\ Len(RoutesOf(r)) \in Nat
      /\ pc[r] = "screen" /\ place[r] = "inside"
  BY Begins DEF Placed, Reject, Hit, Miss, At
<1>2. /\ UNCHANGED <<position, attempt, circuits, cache>>
      /\ position' \in [Requests -> Nat] /\ attempt' \in [Requests -> 0 .. MaxAttempts] /\ cache' \subseteq Keys
      /\ circuits' \in [Routes -> Breakers]
  BY Typed DEF Reject, Hit, Miss
<1>3. position[r] <= Len(RoutesOf(r))
  BY <1>1
<1>4. CASE Reject(r)
  <2>1. PICK kind \in Rejections : Finish(r, kind)
    BY <1>4 DEF Reject
  <2>2. kind \in Outcomes
    BY RuntimeAssumption DEF Outcomes, FailureKinds
  <2> QED
    BY <1>1, <1>2, <1>3, <2>1, <2>2, FinishMoves
<1>5. CASE Hit(r)
  <2>1. Finish(r, "success") /\ "success" \in Outcomes
    BY <1>5 DEF Hit, Outcomes
  <2> QED
    BY <1>1, <1>2, <1>3, <2>1, FinishMoves
<1>6. CASE Miss(r)
  <2>1. Goto(r, "select") /\ UNCHANGED gateVars /\ result' = result /\ "select" \in Steps \ {"done"}
    BY <1>6 DEF Miss, Steps
  <2>2. result \in [Requests -> Outcomes] /\ result[r] \notin PolicyKinds
    BY <1>1, Typed, Begins DEF Final
  <2> HIDE DEF gateVars
  <2> QED
    BY <1>1, <1>2, <1>3, <2>1, <2>2, GoesOn
<1> QED
  BY <1>4, <1>5, <1>6

\* What looks for a route.
LEMMA SelectMoves ==
  ASSUME HarnessInv, NEW r \in Requests, SkipMissing(r) \/ SkipOpen(r) \/ Admit(r)
  PROVE  Moves(r)
<1> DEFINE n == position[r] + 1
           c == RoutesOf(r)[n]
<1>1. /\ n \in Nat /\ n > 0 /\ n <= Len(RoutesOf(r)) /\ Len(RoutesOf(r)) \in Nat
      /\ pc[r] = "select" /\ place[r] = "inside"
  BY Begins DEF Placed, SkipMissing, SkipOpen, Admit, At
<1>2. /\ position' \in [Requests -> Nat] /\ position'[r] = n
      /\ \A q \in Requests \ {r} : position'[q] = position[q]
      /\ cache' \subseteq Keys
  BY <1>1, Typed DEF SkipMissing, SkipOpen, Admit
<1>3. ASSUME c \in Adapters, circuits' = [circuits EXCEPT ![c] = Admitted(circuits[c])]
      PROVE  circuits' \in [Routes -> Breakers]
  <2>1. c \in Routes /\ circuits \in [Routes -> Breakers]
    BY <1>3, RuntimeAssumption, Typed
  <2> HIDE DEF c
  <2>2. Admitted(circuits[c]) \in Breakers
    BY <2>1, BreakerTypes
  <2> QED
    BY <1>3, <2>1, <2>2
<1> HIDE DEF gateVars
<1>4. CASE SkipMissing(r)
  <2>1. /\ attempt' \in [Requests -> 0 .. MaxAttempts] /\ circuits' \in [Routes -> Breakers]
        /\ \A q \in Requests \ {r} : attempt'[q] = attempt[q]
        /\ MoveOn(r, n, "provider") /\ "provider" \in Outcomes \ PolicyKinds
    BY <1>2, <1>4, Typed DEF SkipMissing, Outcomes, FailureKinds, PolicyKinds
  <2> HIDE DEF n
  <2> QED
    BY <1>1, <1>2, <2>1, MoveOnMoves
<1>5. CASE SkipOpen(r)
  <2>1. /\ attempt' \in [Requests -> 0 .. MaxAttempts]
        /\ \A q \in Requests \ {r} : attempt'[q] = attempt[q]
        /\ MoveOn(r, n, "circuit-open") /\ "circuit-open" \in Outcomes \ PolicyKinds
    BY <1>2, <1>5, Typed DEF SkipOpen, Outcomes, FailureKinds, PolicyKinds
  <2>2. circuits' \in [Routes -> Breakers]
    BY <1>2, <1>3, <1>5 DEF SkipOpen
  <2> HIDE DEF n
  <2> QED
    BY <1>1, <1>2, <2>1, <2>2, MoveOnMoves
<1>6. CASE Admit(r)
  <2>1. /\ attempt' \in [Requests -> 0 .. MaxAttempts]
        /\ \A q \in Requests \ {r} : attempt'[q] = attempt[q]
    BY <1>6, Typed, RuntimeAssumption DEF Admit
  <2>2. circuits' \in [Routes -> Breakers]
    BY <1>2, <1>3, <1>6 DEF Admit
  <2> HIDE DEF n
  <2>3. CASE Aborted(r)
    <3>1. Finish(r, "cancelled") /\ "cancelled" \in Outcomes
      BY <1>6, <2>3 DEF Admit, Outcomes, FailureKinds
    <3> QED
      BY <1>1, <1>2, <2>1, <2>2, <3>1, FinishMoves
  <2>4. CASE ~Aborted(r)
    <3>1. Goto(r, "invoke") /\ UNCHANGED gateVars /\ result' = result /\ "invoke" \in Steps \ {"done"}
      BY <1>6, <2>4 DEF Admit, Steps
    <3>2. result \in [Requests -> Outcomes] /\ result[r] \notin PolicyKinds
      BY <1>1, Typed, Begins DEF Final
    <3> QED
      BY <1>1, <1>2, <2>1, <2>2, <3>1, <3>2, GoesOn
  <2> QED
    BY <2>3, <2>4
<1> QED
  BY <1>4, <1>5, <1>6

\* What calls an adapter, or ends a call.
LEMMA CallMoves ==
  ASSUME HarnessInv, NEW r \in Requests, Invoke(r) \/ Reply(r) \/ Deadline(r) \/ Interrupted(r)
  PROVE  Moves(r)
<1>1. /\ position[r] \in Nat /\ position[r] > 0 /\ position[r] <= Len(RoutesOf(r))
      /\ pc[r] \in {"invoke", "calling"} /\ place[r] = "inside"
  BY Begins DEF Placed, Invoke, Reply, Deadline, Interrupted, At
<1> HIDE DEF gateVars
<1>2. ASSUME NEW step \in {"calling", "checking"}, Goto(r, step),
             UNCHANGED <<gateVars, position, attempt, result, circuits, cache>>
      PROVE  Moves(r)
  <2>1. step \in Steps \ {"done"} /\ step \notin {"screen", "select", "sleeping"}
    BY DEF Steps
  <2>2. Final(r) /\ pc[r] \notin {"done"}
    BY <1>1, Begins
  <2>3. result[r] \in PolicyKinds => \E f \in Replies : f.kind = result[r] /\ f.retryable
    BY <2>2 DEF Final
  <2>4. position' = position /\ attempt' = attempt /\ result' = result /\ circuits' = circuits /\ cache' = cache
    BY <1>2
  <2> QED
    BY <1>1, <1>2, <2>1, <2>3, <2>4, Typed, GoesOn
<1>3. CASE Invoke(r)
  <2>1. Cancelled \in Failures
    BY DEF Failures
  <2> QED
    BY <1>1, <1>2, <1>3, <2>1, FailMoves DEF Invoke
<1>4. CASE Reply(r)
  <2>1. PICK reply \in Replies :
          IF reply = Answer
          THEN Goto(r, "checking") /\ UNCHANGED <<gateVars, position, attempt, result, circuits, cache>>
          ELSE Fail(r, reply)
    BY <1>4 DEF Reply
  <2>2. reply # Answer => reply \in Failures
    BY DEF Failures
  <2> QED
    BY <1>1, <1>2, <2>1, <2>2, FailMoves
<1>5. CASE Deadline(r) \/ Interrupted(r)
  <2>1. Cancelled \in Failures /\ TimedOut \in Failures
    BY DEF Failures
  <2> QED
    BY <1>1, <1>5, <2>1, FailMoves DEF Deadline, Interrupted
<1> QED
  BY <1>3, <1>4, <1>5

\* What ends a backoff.
LEMMA WakeMoves ==
  ASSUME HarnessInv, NEW r \in Requests, Wake(r)
  PROVE  Moves(r)
<1>1. /\ position[r] \in Nat /\ position[r] > 0 /\ position[r] <= Len(RoutesOf(r))
      /\ attempt[r] < MaxAttempts /\ attempt[r] \in 0 .. MaxAttempts /\ MaxAttempts \in Nat
      /\ pc[r] = "sleeping" /\ place[r] = "inside"
  BY Begins DEF Placed, Wake, At
<1>2. position' = position /\ circuits' = circuits /\ cache' = cache
  BY DEF Wake
<1> HIDE DEF gateVars
<1>3. CASE Aborted(r)
  <2>1. Finish(r, "cancelled") /\ attempt' = attempt /\ "cancelled" \in Outcomes
    BY <1>3 DEF Wake, Outcomes, FailureKinds
  <2> QED
    BY <1>1, <1>2, <2>1, Typed, FinishMoves
<1>4. CASE ~Aborted(r)
  <2>1. /\ Goto(r, "invoke") /\ UNCHANGED gateVars /\ result' = result /\ "invoke" \in Steps \ {"done"}
        /\ attempt' = [attempt EXCEPT ![r] = attempt[r] + 1]
    BY <1>4 DEF Wake, Steps
  <2>2. attempt' \in [Requests -> 0 .. MaxAttempts] /\ \A q \in Requests \ {r} : attempt'[q] = attempt[q]
    BY <1>1, <2>1, Typed
  <2>3. result[r] \in PolicyKinds => \E f \in Replies : f.kind = result[r] /\ f.retryable
    BY <1>1, Begins DEF Final
  <2> QED
    BY <1>1, <1>2, <2>1, <2>2, <2>3, Typed, GoesOn
<1> QED
  BY <1>3, <1>4

\* What deals with an answer.
LEMMA AnswerMoves ==
  ASSUME HarnessInv, NEW r \in Requests, Accept(r) \/ Unrepairable(r) \/ Refuse(r) \/ Store(r)
  PROVE  Moves(r)
<1>1. /\ position[r] \in Nat /\ position[r] > 0 /\ position[r] <= Len(RoutesOf(r))
      /\ pc[r] \in {"checking", "storing"} /\ place[r] = "inside"
  BY Begins DEF Placed, Accept, Unrepairable, Refuse, Store, At
<1>2. position' = position /\ attempt' = attempt
  BY DEF Accept, Unrepairable, Refuse, Store
<1> HIDE DEF gateVars
<1>3. CASE Accept(r)
  <2>1. /\ Goto(r, "storing") /\ UNCHANGED gateVars /\ result' = result /\ cache' = cache
        /\ circuits' = [circuits EXCEPT ![Route(r)] = Success(circuits[Route(r)])]
        /\ "storing" \in Steps \ {"done"}
    BY <1>3 DEF Accept, Steps
  <2>2. Closed \in Breakers
    BY BreakerAssumption DEF Closed, Breakers
  <2>3. circuits' \in [Routes -> Breakers]
    BY <2>1, <2>2, Typed DEF Success
  <2>4. result[r] \in PolicyKinds => \E f \in Replies : f.kind = result[r] /\ f.retryable
    BY <1>1, Begins DEF Final
  <2> QED
    BY <1>1, <1>2, <2>1, <2>3, <2>4, Typed, GoesOn
<1>4. CASE Unrepairable(r)
  <2>1. /\ MoveOn(r, position[r], "invalid-output") /\ circuits' = circuits /\ cache' = cache
        /\ "invalid-output" \in Outcomes \ PolicyKinds
    BY <1>4 DEF Unrepairable, Outcomes, FailureKinds, PolicyKinds
  <2> QED
    BY <1>1, <1>2, <2>1, Typed, MoveOnMoves
<1>5. CASE Refuse(r)
  <2>1. PICK kind \in Verdicts \cap PolicyKinds : Finish(r, kind)
    BY <1>5 DEF Refuse
  <2>2. kind \in Outcomes /\ circuits' = circuits /\ cache' = cache
    BY <1>5 DEF Refuse, Outcomes, FailureKinds
  <2> QED
    BY <1>1, <1>2, <2>1, <2>2, Typed, FinishMoves
<1>6. CASE Store(r)
  <2>1. Finish(r, "success") /\ "success" \in Outcomes /\ circuits' = circuits
    BY <1>6 DEF Store, Outcomes
  <2>2. cache' \subseteq Keys
    BY <1>6, Typed, RuntimeAssumption DEF Store
  <2> QED
    BY <1>1, <1>2, <2>1, <2>2, Typed, FinishMoves
<1> QED
  BY <1>3, <1>4, <1>5, <1>6

-----------------------------------------------------------------------------
(* The theorems.                                                           *)

\* What a request inside the gate does, in one.
Acts(r) == Reject(r) \/ Hit(r) \/ Reply(r) \/ Proceed(r)

\* It is a step of the kind that MovesKeeps is about.
LEMMA ActsMoves == ASSUME HarnessInv, NEW r \in Requests, Acts(r) PROVE Moves(r)
  BY ScreenMoves, SelectMoves, CallMoves, WakeMoves, AnswerMoves DEF Acts, Proceed

\* What becomes of the gate when a request enters, a signal fires or time passes.
LEMMA OutsideKeeps ==
  ASSUME HarnessInv,
         \/ \E r \in Requests : Enter(r)
         \/ \E s \in Signals : Abort(s)
         \/ Tick
  PROVE  /\ HarnessInv'
         /\ UNCHANGED <<pc, position, attempt, result>>
         /\ \A r \in Requests : place[r] = "inside" => place'[r] = "inside"
<1>1. /\ Gate!GateInv /\ Ranges /\ Gate!TypeOK
      /\ \A q \in Requests :
           /\ Placed(q) /\ Final(q)
           /\ place[q] = "left" <=> pc[q] = "done"
           /\ place[q] \in {"outside", "waiting", "refused"} => pc[q] = "screen"
  BY InvMeans DEF Gate!GateInv
<1>2. UNCHANGED <<pc, position, attempt, result>>
  BY DEF Enter, Abort, Tick
<1>3. \A q \in Requests : Placed(q)' /\ Final(q)'
  BY <1>1, <1>2 DEF Placed, Final
<1>4. Gate!GateInv'
  BY <1>1, GateKeeps DEF Enter, Abort, Tick
<1>5. Ranges'
  <2>1. CASE Tick
    <3>1. circuits' \in [Routes -> Breakers]
      BY <1>1, <2>1, BreakerTypes DEF Tick, Ranges
    <3> QED
      BY <1>1, <1>2, <2>1, <3>1 DEF Tick, Ranges
  <2>2. CASE UNCHANGED <<circuits, cache>>
    BY <1>1, <1>2, <2>2 DEF Ranges
  <2> QED
    BY <2>1, <2>2 DEF Enter, Abort
<1>6. ASSUME NEW q \in Requests
      PROVE  \/ place'[q] = place[q]
             \/ place[q] \in {"outside", "waiting"} /\ place'[q] \in {"inside", "refused", "waiting"}
  <2>1. place \in [Requests -> Places]
    BY <1>1 DEF Gate!TypeOK, Places
  <2>2. ASSUME NEW r \in Requests, Gate!Acquire(r)
        PROVE  \/ place'[q] = place[q]
               \/ place[q] = "outside" /\ place'[q] \in {"inside", "refused", "waiting"}
    BY <2>1, <2>2 DEF Gate!Acquire
  <2>3. ASSUME NEW s \in Signals, Gate!Abort(s)
        PROVE  \/ place'[q] = place[q]
               \/ place[q] = "waiting" /\ place'[q] = "refused"
    BY <2>1, <2>3 DEF Gate!Abort
  <2>4. CASE Tick
    BY <2>4 DEF Tick, gateVars
  <2> QED
    BY <2>2, <2>3, <2>4 DEF Enter, Abort
<1>7. ASSUME NEW q \in Requests
      PROVE  /\ place'[q] = "left" <=> pc'[q] = "done"
             /\ place'[q] \in {"outside", "waiting", "refused"} => pc'[q] = "screen"
  BY <1>1, <1>2, <1>6
<1>8. HarnessInv'
  BY <1>3, <1>4, <1>5, <1>7, InvMeansNext
<1> QED
  BY <1>2, <1>6, <1>8

\* Every step is one of a request that acts, or one outside of them.
LEMMA Cases ==
  ASSUME Next
  PROVE  \/ \E r \in Requests : Acts(r)
         \/ \E r \in Requests : Enter(r)
         \/ \E s \in Signals : Abort(s)
         \/ Tick
  BY DEF Next, Acts

\* Initially everybody is outside.
LEMMA HarnessBegins == Init => HarnessInv
<1> SUFFICES ASSUME Init PROVE HarnessInv
  OBVIOUS
<1>1. GateP!Init /\ Gate!Init
  BY SameActions DEF Init
<1>2. Gate!GateInv
  BY <1>1, GateFits, SameInv, GateP!GateBegins
<1>3. Closed \in Breakers
  BY BreakerAssumption DEF Closed, Breakers
<1>4. Ranges
  BY <1>3, RuntimeAssumption DEF Init, Ranges, Steps, Outcomes, FailureKinds
<1>5. ASSUME NEW r \in Requests
      PROVE  /\ Placed(r) /\ Final(r)
             /\ place[r] = "left" <=> pc[r] = "done"
             /\ place[r] \in {"outside", "waiting", "refused"} => pc[r] = "screen"
  BY <1>1, SomeRoute DEF Init, Gate!Init, Placed, Final, PolicyKinds
<1> QED
  BY <1>2, <1>4, <1>5, InvMeans

\* Every step preserves the invariant.
LEMMA HarnessStep == HarnessInv /\ [Next]_vars => HarnessInv'
<1> SUFFICES ASSUME HarnessInv, [Next]_vars PROVE HarnessInv'
  OBVIOUS
<1>1. CASE Next
  BY <1>1, Cases, ActsMoves, MovesKeeps, OutsideKeeps
<1>2. CASE UNCHANGED vars
  <2>1. UNCHANGED <<aborted, active, waiting, place, pc, position, attempt, result, circuits, cache>>
    BY <1>2 DEF vars
  <2>2. Gate!GateInv'
    BY <2>1, InvMeans, GateKeeps DEF gateVars
  <2>3. Ranges' /\ \A r \in Requests : Placed(r)' /\ Final(r)'
    BY <2>1, InvMeans DEF Ranges, Placed, Final
  <2> QED
    BY <2>1, <2>2, <2>3, InvMeans, InvMeansNext
<1> QED
  BY <1>1, <1>2

\* Whatever adapters, guards, timers and callers do: the slots of the gate are
\* accounted for and none is idle, every request is where its route, its attempt
\* and its slot say, and no other route is tried after a refusal.
THEOREM HarnessIsSound == Spec => []HarnessInv
  BY HarnessBegins, HarnessStep, PTL DEF Spec

\* After the abort no adapter is called for a request any more.
THEOREM AbortStopsCalls == Spec => AbortedIsNotCalled
<1>1. ASSUME HarnessInv, Next, NEW r \in Requests, Aborted(r) PROVE ~Calls(r)
  <2> SUFFICES ASSUME Calls(r) PROVE FALSE
    OBVIOUS
  <2>1. pc \in [Requests -> Steps] /\ pc'[r] = "calling" /\ pc[r] # "calling"
    BY <1>1, Typed DEF Calls
  <2>2. PICK x \in Requests : Acts(x)
    BY <1>1, <2>1, Cases, OutsideKeeps
  <2>3. x = r
    BY <1>1, <2>1, <2>2, ActsMoves DEF Moves, OthersStay
  <2>4. Acts(r) /\ Aborted(r)
    BY <1>1, <2>2, <2>3
  <2>5. ASSUME NEW kind, Finish(r, kind) PROVE FALSE
    BY <2>1, <2>5 DEF Finish, Goto
  <2>6. ASSUME NEW n, NEW kind, MoveOn(r, n, kind) PROVE FALSE
    BY <2>1, <2>5, <2>6 DEF MoveOn, Goto
  <2>7. ASSUME NEW f, Fail(r, f) PROVE FALSE
    BY <2>1, <2>5, <2>6, <2>7 DEF Fail, Goto
  <2>8. CASE Reject(r) \/ Hit(r) \/ Miss(r)
    BY <2>1, <2>5, <2>8 DEF Reject, Hit, Miss, Goto
  <2>9. CASE SkipMissing(r) \/ SkipOpen(r) \/ Admit(r)
    BY <2>1, <2>5, <2>6, <2>9 DEF SkipMissing, SkipOpen, Admit, Goto
  <2>10. CASE Invoke(r) \/ Reply(r) \/ Deadline(r) \/ Interrupted(r)
    BY <2>1, <2>4, <2>7, <2>10 DEF Invoke, Reply, Deadline, Interrupted, Goto
  <2>11. CASE Wake(r)
    BY <2>1, <2>4, <2>5, <2>11 DEF Wake, Goto
  <2>12. CASE Accept(r) \/ Unrepairable(r) \/ Refuse(r) \/ Store(r)
    BY <2>1, <2>5, <2>6, <2>12 DEF Accept, Unrepairable, Refuse, Store, Goto
  <2> QED
    BY <2>4, <2>8, <2>9, <2>10, <2>11, <2>12 DEF Acts, Proceed
<1>2. HarnessInv /\ [Next]_vars => [\A r \in Requests : Aborted(r) => ~Calls(r)]_vars
  BY <1>1
<1> QED
  BY <1>2, HarnessIsSound, PTL DEF Spec, AbortedIsNotCalled

\* What a failure does with the circuit of its route, and that its kind is the
\* result.
LEMMA FailDecides ==
  ASSUME HarnessInv, NEW r \in Requests, NEW f \in Failures, Fail(r, f), NEW c \in Routes, Route(r) = c,
         circuits[c].state = "half-open", circuits'[c].state = "half-open"
  PROVE  result'[r] \in Undecided
<1>1. result \in [Requests -> Outcomes] /\ circuits \in [Routes -> Breakers]
  BY Typed
<1>2. result' = [result EXCEPT ![r] = f.kind]
  BY DEF Fail, MoveOn, Finish
<1>3. circuits'[c] = IF f.retryable THEN Failure(circuits[c]) ELSE circuits[c]
  BY <1>1 DEF Fail
<1>4. ~f.retryable
  <2>1. circuits[c] \in Breakers
    BY <1>1
  <2>2. Failure(circuits[c]).state = "open"
    BY <2>1, FailureOpens
  <2> QED
    BY <1>3, <2>2
<1>5. f # TimedOut
  BY <1>4 DEF TimedOut
<1>6. f = Cancelled => f.kind = "cancelled"
  BY DEF Cancelled
<1>7. f.kind \in Undecided
  BY <1>4, <1>5, <1>6 DEF Failures, Undecided
<1> QED
  BY <1>1, <1>2, <1>7

\* A request is on its route until it leaves it itself.
LEMMA OnlyItselfLeaves ==
  ASSUME HarnessInv, Next, NEW r \in Requests, NEW c, OnRoute(r, c), ~OnRoute(r, c)'
  PROVE  Acts(r)
<1>1. /\ place[r] = "inside" /\ pc[r] \in {"invoke", "calling", "checking", "sleeping"}
      /\ RoutesOf(r)[position[r]] = c
  BY DEF OnRoute, Route
<1>2. ~(place'[r] = "inside" /\ pc'[r] = pc[r] /\ position'[r] = position[r])
  BY <1>1 DEF OnRoute, Route
<1>3. PICK x \in Requests : Acts(x)
  BY <1>1, <1>2, Cases, OutsideKeeps
<1>4. Moves(x)
  BY <1>3, ActsMoves
<1>5. x = r
  <2> SUFFICES ASSUME x # r PROVE FALSE
    OBVIOUS
  <2>1. pc'[r] = pc[r] /\ position'[r] = position[r]
    BY <1>4 DEF Moves, OthersStay
  <2>2. place'[r] = "inside"
    <3>1. CASE UNCHANGED gateVars
      BY <1>1, <3>1 DEF gateVars
    <3>2. CASE Gate!Release(x)
      <4>1. Gate!GateInv
        BY InvMeans
      <4> QED
        BY <1>1, <3>2, <4>1, ReleaseMoves
    <3> QED
      BY <1>4, <3>1, <3>2 DEF Moves
  <2> QED
    BY <1>2, <2>1, <2>2
<1> QED
  BY <1>3, <1>5

\* A half-open circuit is left undecided in the known ways only.
THEOREM ProbesDecide == Spec => ProbesAreDecided
<1>1. ASSUME HarnessInv, Next, NEW r \in Requests, NEW c \in Routes, OnRoute(r, c), ~OnRoute(r, c)',
             circuits[c].state = "half-open", circuits'[c].state = "half-open"
      PROVE  result'[r] \in Undecided
  <2>1. Acts(r)
    BY <1>1, OnlyItselfLeaves
  <2>2. /\ place[r] = "inside" /\ pc[r] \in {"invoke", "calling", "checking", "sleeping"}
        /\ RoutesOf(r)[position[r]] = c /\ Route(r) = c
    BY <1>1 DEF OnRoute, Route
  <2>3. /\ pc \in [Requests -> Steps] /\ result \in [Requests -> Outcomes]
        /\ circuits \in [Routes -> Breakers]
    BY <1>1, Typed
  <2>4. ASSUME NEW step \in {"calling", "checking", "invoke"}, Goto(r, step), UNCHANGED <<gateVars, position>>
        PROVE  FALSE
    <3>1. pc'[r] = step /\ place' = place /\ position' = position
      BY <2>3, <2>4 DEF Goto, gateVars
    <3> QED
      BY <1>1, <2>2, <3>1 DEF OnRoute, Route
  <2>5. ASSUME NEW kind \in Undecided, Finish(r, kind) \/ MoveOn(r, position[r], kind)
        PROVE  result'[r] \in Undecided
    BY <2>3, <2>5 DEF Finish, MoveOn
  <2>6. "cancelled" \in Undecided /\ "invalid-output" \in Undecided /\ PolicyKinds \subseteq Undecided
    BY DEF Undecided
  <2>7. Cancelled \in Failures /\ TimedOut \in Failures
    BY DEF Failures
  <2> HIDE DEF gateVars
  <2>8. CASE Reject(r) \/ Hit(r) \/ Miss(r) \/ SkipMissing(r) \/ SkipOpen(r) \/ Admit(r) \/ Store(r)
    BY <2>2, <2>8 DEF Reject, Hit, Miss, SkipMissing, SkipOpen, Admit, Store, At
  <2>9. CASE Invoke(r)
    BY <1>1, <2>2, <2>4, <2>7, <2>9, FailDecides DEF Invoke
  <2>10. CASE Reply(r)
    <3>1. PICK reply \in Replies :
            IF reply = Answer
            THEN Goto(r, "checking") /\ UNCHANGED <<gateVars, position, attempt, result, circuits, cache>>
            ELSE Fail(r, reply)
      BY <2>10 DEF Reply
    <3>2. reply # Answer => reply \in Failures
      BY DEF Failures
    <3> QED
      BY <1>1, <2>2, <2>4, <3>1, <3>2, FailDecides
  <2>11. CASE Deadline(r) \/ Interrupted(r)
    BY <1>1, <2>2, <2>7, <2>11, FailDecides DEF Deadline, Interrupted
  <2>12. CASE Wake(r)
    BY <2>4, <2>5, <2>6, <2>12 DEF Wake
  <2>13. CASE Accept(r)
    <3>1. circuits' = [circuits EXCEPT ![c] = Closed]
      BY <2>2, <2>13 DEF Accept, Success
    <3>2. circuits'[c].state = "closed"
      BY <2>3, <3>1 DEF Closed
    <3> QED
      BY <1>1, <3>2
  <2>14. CASE Unrepairable(r)
    BY <2>5, <2>6, <2>14 DEF Unrepairable
  <2>15. CASE Refuse(r)
    BY <2>5, <2>6, <2>15 DEF Refuse
  <2> QED
    BY <2>1, <2>8, <2>9, <2>10, <2>11, <2>12, <2>13, <2>14, <2>15 DEF Acts, Proceed
<1>2. ASSUME HarnessInv, UNCHANGED vars, NEW r \in Requests, NEW c \in Routes, OnRoute(r, c)
      PROVE  OnRoute(r, c)'
  BY <1>2 DEF vars, OnRoute, Route
<1>3. HarnessInv /\ [Next]_vars =>
        [\A r \in Requests, c \in Routes :
           /\ OnRoute(r, c) /\ ~OnRoute(r, c)'
           /\ circuits[c].state = "half-open" /\ circuits'[c].state = "half-open"
           => result'[r] \in Undecided]_vars
  BY <1>1
<1> QED
  BY <1>3, HarnessIsSound, PTL DEF Spec, ProbesAreDecided

\* On every one of its returns execute uses the gate as the gate expects: each
\* step is one of the gate's, or leaves it alone.
THEOREM UsesTheGate == Spec => GateP!Spec
<1>1. Init => GateP!Init
  BY SameActions DEF Init
<1>2. ASSUME HarnessInv, [Next]_vars PROVE [GateP!Next]_gateVars
  <2>1. \/ UNCHANGED gateVars
        \/ \E r \in Requests : Gate!Acquire(r) \/ Gate!Release(r)
        \/ \E s \in Signals : Gate!Abort(s)
    <3>1. ASSUME NEW r \in Requests, Acts(r) PROVE UNCHANGED gateVars \/ Gate!Release(r)
      BY <1>2, <3>1, ActsMoves DEF Moves
    <3>2. ASSUME NEW r \in Requests, Enter(r) PROVE Gate!Acquire(r)
      BY <3>2 DEF Enter
    <3>3. ASSUME NEW s \in Signals, Abort(s) PROVE Gate!Abort(s)
      BY <3>3 DEF Abort
    <3>4. CASE Tick
      BY <3>4 DEF Tick
    <3>5. CASE UNCHANGED vars
      BY <3>5 DEF vars, gateVars
    <3> HIDE DEF gateVars
    <3> QED
      BY <1>2, <3>1, <3>2, <3>3, <3>4, <3>5, Cases
  <2>2. Gate!GateInv
    BY <1>2, InvMeans
  <2> HIDE DEF gateVars
  <2> QED
    BY <2>1, <2>2, GateKeeps
<1>3. HarnessInv /\ [Next]_vars => [GateP!Next]_gateVars
  BY <1>2
<1> QED
  BY <1>1, <1>3, HarnessIsSound, PTL DEF Spec, GateP!Spec, GateP!vars, gateVars

\* Nobody overtakes a request that waits for a slot.
THEOREM ServedInOrder == Spec => FirstComeFirstServed
<1>1. GateP!Spec => GateP!FirstComeFirstServed
  BY GateFits, GateP!ArrivalOrder
<1> QED
  BY <1>1, UsesTheGate, PTL
     DEF FirstComeFirstServed, Gate!FirstComeFirstServed, GateP!FirstComeFirstServed, Gate!vars, GateP!vars

\* The runtime is a concurrency limit: at most MaxConcurrency requests are under
\* way, and a slot passes from one that ends to one that waits at most.
THEOREM LimitsConcurrency == Spec => GateP!Slots!Bounded
<1>1. GateP!Spec => GateP!Slots!Bounded
  BY GateFits, GateP!GateBoundsSlots
<1> QED
  BY <1>1, UsesTheGate, PTL
=============================================================================
