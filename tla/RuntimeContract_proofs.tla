----------------------- MODULE RuntimeContract_proofs -----------------------
(***************************************************************************)
(* Proofs about RuntimeContract, for any requests, callers, routes,        *)
(* options and adapters.  A request does much the same in Python, in Go    *)
(* and in Rust: what its steps have in common is stated here in the terms  *)
(* of PortableRuntime, and preserves the invariant; the actions of the     *)
(* three runtimes are then cases of it.                                    *)
(***************************************************************************)
EXTENDS RuntimeContract, TLAPS, FiniteSetTheorems

Outcomes == FailureKinds \cup {"success"}
Places == {"outside", "waiting", "granted", "inside", "refused", "left"}

-----------------------------------------------------------------------------
(* The operators of the model.                                             *)

\* Every request has a route, and no more than there are.
LEMMA RoutesFit ==
  ASSUME NEW r \in Requests
  PROVE  /\ Len(RoutesOf(r)) \in Nat \ {0}
         /\ Len(FallbackRoutes) \in Nat
         /\ Len(RoutesOf(r)) <= Len(FallbackRoutes) + 1
<1> DEFINE all == <<RouteOf[r]>> \o FallbackRoutes
           First(i) == \A j \in 1 .. i - 1 : all[j] # all[i]
           F == {i \in 1 .. Len(all) : First(i)}
<1>1. all \in Seq(Routes) /\ Len(all) = Len(FallbackRoutes) + 1 /\ Len(FallbackRoutes) \in Nat
  BY RuntimeAssumption
<1> HIDE DEF all
<1>2. F \subseteq 1 .. Len(all) /\ 1 \in F
  BY <1>1
<1>3. IsFiniteSet(F) /\ Cardinality(F) \in Nat /\ Cardinality(F) <= Len(all)
  <2>1. IsFiniteSet(1 .. Len(all)) /\ Cardinality(1 .. Len(all)) = Len(all)
    BY <1>1, FS_Interval
  <2> HIDE DEF F
  <2>2. IsFiniteSet(F) /\ Cardinality(F) <= Cardinality(1 .. Len(all))
    BY <1>2, <2>1, FS_Subset
  <2> QED
    BY <2>1, <2>2, FS_CardinalityType
<1>4. Cardinality(F) # 0
  BY <1>2, <1>3, FS_EmptySet
<1>5. Len(RoutesOf(r)) = Cardinality(F)
  <2> DEFINE Later(i) == Cardinality({j \in 1 .. i : First(j)})
             nth(n) == all[CHOOSE i \in 1 .. Len(all) : First(i) /\ Later(i) = n]
  <2>1. RoutesOf(r) = [n \in 1 .. Cardinality(F) |-> nth(n)]
    BY DEF RoutesOf, all
  <2> HIDE DEF nth, F
  <2> QED
    BY <1>3, <2>1
<1> QED
  BY <1>1, <1>3, <1>4, <1>5

\* The methods of a circuit breaker leave a circuit breaker.
LEMMA BreakerTypes ==
  ASSUME NEW b, b \in Breakers
  PROVE  /\ Seen(b) \in Breakers /\ Admitted(b) \in Breakers /\ Failure(b) \in Breakers
         /\ Success(b) \in Breakers /\ Aged(b) \in Breakers /\ Closed \in Breakers
<1> USE BreakerAssumption
<1>1. Closed \in Breakers /\ Success(b) \in Breakers
  BY DEF Closed, Success, Breakers
<1>2. Failure(b) \in Breakers
  BY DEF Failure, Breakers
<1>3. Aged(b) \in Breakers
  BY DEF Aged, Breakers
<1>4. Seen(b) \in Breakers
  <2> DEFINE halfOpen == [b EXCEPT !.state = "half-open"]
             restarted == [halfOpen EXCEPT !.openFor = 0]
             fresh == [restarted EXCEPT !.probes = 0]
  <2>1. halfOpen \in Breakers
    BY DEF Breakers
  <2> HIDE DEF halfOpen
  <2>2. restarted \in Breakers
    BY <2>1 DEF Breakers
  <2> HIDE DEF restarted
  <2>3. fresh \in Breakers
    BY <2>2 DEF Breakers
  <2>4. Seen(b) = IF b.state = "open" /\ b.openFor >= ResetAfterMs THEN fresh ELSE b
    BY DEF Seen, fresh, restarted, halfOpen
  <2> HIDE DEF fresh
  <2> QED
    BY <2>3, <2>4
<1>5. Admitted(b) \in Breakers
  <2> DEFINE s == Seen(b)
             counted == [s EXCEPT !.probes = s.probes + 1]
  <2>1. s \in Breakers
    BY <1>4
  <2>2. Admitted(b) = IF Allows(b) /\ s.state = "half-open" THEN counted ELSE s
    BY DEF Admitted
  <2>3. Allows(b) /\ s.state = "half-open" => s.probes < HalfOpenMaxAttempts
    BY DEF Allows
  <2> HIDE DEF s
  <2>4. s.probes < HalfOpenMaxAttempts => counted \in Breakers
    BY <2>1 DEF Breakers
  <2> HIDE DEF counted
  <2> QED
    BY <2>1, <2>2, <2>3, <2>4
<1> QED
  BY <1>1, <1>2, <1>3, <1>4, <1>5

-----------------------------------------------------------------------------
(* The invariant.                                                          *)

\* Where the variables range.
Ranges ==
  /\ context \in [Callers -> {"live", "cancelled", "expired"}]
  /\ place \in [Requests -> Places] /\ pc \in [Requests -> Steps]
  /\ position \in [Requests -> Nat] /\ attempt \in [Requests -> 0 .. MaxAttempts]
  /\ result \in [Requests -> Outcomes] /\ recorded \in [Requests -> Outcomes \cup {"nothing"}]
  /\ circuits \in [Routes -> Breakers] /\ cache \subseteq Keys

\* The slots that are taken are those inside.
SlotsTaken == active \in Nat /\ active = Cardinality(Inside) /\ active <= MaxConcurrency

\* How far r is on its routes.
Placed(r) ==
  /\ position[r] <= Len(RoutesOf(r))
  /\ pc[r] \in {"screen", "select"} => position[r] < Len(RoutesOf(r))
  /\ pc[r] = "sleeping" => attempt[r] < MaxAttempts
  /\ pc[r] \notin {"screen", "done"} => place[r] = "inside"

\* What PolicyIsTerminal and CancelledMeansEnded say of r, which both look at its
\* result.
Meant(r) ==
  /\ result[r] \in PolicyKinds =>
       \/ pc[r] \in {"reporting", "done"}
       \/ pc[r] \notin {"screen", "select"} /\ \E f \in Replies : f.kind = result[r] /\ f.retryable
  /\ result[r] = "cancelled" => Ended(r) \/ \E f \in Replies : f.kind = "cancelled"

\* What was recorded for r.
Recorded(r) == pc[r] = "done" => recorded[r] = result[r] \/ (language = "python" /\ result[r] = "cancelled")

\* The calls under way: their types, that those not told to stop are waited for,
\* and that in Python there are no others, and one for each request.
CallTypes == \A c \in calls : c \in [by : Requests, position : Nat, attempt : Nat, told : BOOLEAN]
UntoldIsAwaited == \A c \in calls : Abandoned(c) => c.told
CallIsUnderWay == \A r \in Requests : pc[r] = "calling" => Current(r) # {}
PythonAwaits ==
  language = "python" => /\ \A c \in calls : ~Abandoned(c)
                         /\ \A c, d \in calls : c.by = d.by => c = d
CallsFit == CallTypes /\ UntoldIsAwaited /\ CallIsUnderWay /\ PythonAwaits

\* The inductive invariant.
ContractInv ==
  Ranges /\ SlotsTaken /\ CallsFit /\ \A r \in Requests : Placed(r) /\ Meant(r) /\ Recorded(r)

\* It says what is promised.
LEMMA ContractMeans == ContractInv => OutcomesAgree /\ CallsAreAccountedFor
<1> SUFFICES ASSUME ContractInv PROVE OutcomesAgree /\ CallsAreAccountedFor
  OBVIOUS
<1> USE DEF ContractInv
<1>1. TypeOK
  <2>1. position \in [Requests -> 0 .. Len(FallbackRoutes) + 1]
    <3>1. \A r \in Requests : position[r] \in 0 .. Len(FallbackRoutes) + 1
      <4> TAKE r \in Requests
      <4>1. position[r] \in Nat /\ position[r] <= Len(RoutesOf(r))
        BY DEF Ranges, Placed
      <4> QED
        BY <4>1, RoutesFit
    <3> QED
      BY <3>1 DEF Ranges
  <2> QED
    BY <2>1 DEF TypeOK, Ranges, SlotsTaken, CallsFit, CallIsUnderWay, Outcomes, Places
<1>2. PolicyIsTerminal /\ RecordAgrees /\ CancelledMeansEnded
  BY DEF PolicyIsTerminal, RecordAgrees, CancelledMeansEnded, Meant, Recorded
<1>3. AbandonedIsTold
  BY DEF AbandonedIsTold, CallsFit, UntoldIsAwaited
<1>4. PythonCallsAreBounded
  <2> SUFFICES ASSUME language = "python" PROVE Cardinality(calls) <= MaxConcurrency
    BY DEF PythonCallsAreBounded
  <2> DEFINE f == [c \in calls |-> c.by]
  <2>1. \A c \in calls : c.by \in Inside
    <3> TAKE c \in calls
    <3>1. c.by \in Requests /\ pc[c.by] \in {"calling", "expiring"}
      BY DEF CallsFit, CallTypes, PythonAwaits, Abandoned
    <3>2. place[c.by] = "inside"
      BY <3>1 DEF Placed
    <3> QED
      BY <3>1, <3>2 DEF Inside
  <2>2. \A c, d \in calls : c.by = d.by => c = d
    BY DEF CallsFit, PythonAwaits
  <2>3. f \in Injection(calls, Inside)
    BY <2>1, <2>2 DEF Injection, IsInjective
  <2>4. IsFiniteSet(Inside)
    BY RuntimeAssumption, FS_Subset DEF Inside
  <2>5. Cardinality(calls) <= Cardinality(Inside) /\ IsFiniteSet(calls)
    BY <2>3, <2>4, FS_Injection DEF ExistsInjection
  <2> QED
    BY <2>5, FS_CardinalityType, RuntimeAssumption DEF SlotsTaken
<1> QED
  BY <1>1, <1>2, <1>3, <1>4 DEF OutcomesAgree, CallsAreAccountedFor
-----------------------------------------------------------------------------
(* What the steps of the three runtimes have in common.                    *)

\* A request inside its slot goes on; nobody comes or goes.
Stands(r) == place[r] = "inside" /\ UNCHANGED <<language, context, active, place, recorded>>

\* The requests but r are where they were.
OthersStay(r) ==
  \A q \in Requests \ {r} :
    pc'[q] = pc[q] /\ position'[q] = position[q] /\ attempt'[q] = attempt[q] /\ result'[q] = result[q]

\* r has no call that it waits for any more: there was none, it has ended, or it
\* was told to stop.
LetsGo(r) ==
  \/ pc[r] \notin {"calling", "expiring"} /\ calls' = calls
  \/ calls' = calls \ Current(r)
  \/ language # "python" /\ calls' = Telling(Current(r))

\* The failures that a call of r may come to.
FailuresOf(r) == (Replies \ {Answer}) \cup {TimedOut} \cup (IF Ended(r) THEN {Cancelled} ELSE {})

\* Execution ends with a result; the n-th route has failed; a failure is counted.
Settles(r, kind) == Goto(r, "reporting") /\ result' = [result EXCEPT ![r] = kind]
MovesOn(r, n, kind) ==
  IF n = Len(RoutesOf(r))
  THEN Settles(r, kind)
  ELSE Goto(r, "select") /\ result' = [result EXCEPT ![r] = kind]
Fails(r, f) ==
  /\ circuits' = [circuits EXCEPT ![Route(r)] = IF f.retryable THEN Failure(@) ELSE @]
  /\ IF f.retryable /\ attempt[r] < MaxAttempts
     THEN Goto(r, "sleeping") /\ result' = [result EXCEPT ![r] = f.kind]
     ELSE IF f.kind \in PolicyKinds \cup {"cancelled"}
     THEN Settles(r, f.kind)
     ELSE MovesOn(r, position[r], f.kind)
  /\ UNCHANGED <<position, attempt, cache>>

Screens(r) ==
  /\ pc[r] = "screen"
  /\ \/ \E kind \in Rejections \cup {"success"} : Settles(r, kind)
     \/ Goto(r, "select") /\ UNCHANGED result
  /\ UNCHANGED <<position, attempt, circuits, cache, calls>>

Selects(r) ==
  /\ pc[r] = "select"
  /\ position' = [position EXCEPT ![r] = @ + 1]
  /\ \/ /\ MovesOn(r, position[r] + 1, "provider")
        /\ UNCHANGED <<circuits, attempt>>
     \/ /\ \E c \in Adapters : circuits' = [circuits EXCEPT ![c] = Admitted(@)]
        /\ \/ Goto(r, "invoke") /\ attempt' = [attempt EXCEPT ![r] = 1] /\ UNCHANGED result
           \/ MovesOn(r, position[r] + 1, "circuit-open") /\ UNCHANGED attempt
           \/ Ended(r) /\ Settles(r, "cancelled") /\ UNCHANGED attempt
  /\ UNCHANGED <<cache, calls>>

Invokes(r) ==
  /\ pc[r] = "invoke"
  /\ Goto(r, "calling")
  /\ \E told \in BOOLEAN : calls' = calls \cup {Call(r, told)}
  /\ UNCHANGED <<position, attempt, result, circuits, cache>>

\* The call fails, ends, or is not waited for any more.
CallFails(r) ==
  /\ pc[r] \in {"invoke", "calling", "expiring"}
  /\ LetsGo(r)
  /\ \E f \in FailuresOf(r) : Fails(r, f)

CallAnswers(r) ==
  /\ pc[r] \in {"calling", "expiring"}
  /\ calls' = calls \ Current(r)
  /\ Goto(r, "checking")
  /\ UNCHANGED <<position, attempt, result, circuits, cache>>

Expires(r) ==
  /\ pc[r] = "calling"
  /\ Goto(r, "expiring")
  /\ calls' = Telling(Current(r))
  /\ UNCHANGED <<position, attempt, result, circuits, cache>>

Wakes(r) ==
  /\ pc[r] = "sleeping"
  /\ \/ Goto(r, "invoke") /\ attempt' = [attempt EXCEPT ![r] = @ + 1] /\ UNCHANGED result
     \/ Ended(r) /\ Settles(r, "cancelled") /\ UNCHANGED attempt
  /\ UNCHANGED <<position, circuits, cache, calls>>

\* An answer cannot be repaired, is refused, or is accepted.
Checks(r) ==
  /\ pc[r] = "checking"
  /\ \/ MovesOn(r, position[r], "invalid-output") /\ UNCHANGED circuits
     \/ (\E kind \in PolicyKinds : Settles(r, kind)) /\ UNCHANGED circuits
     \/ /\ circuits' = [circuits EXCEPT ![Route(r)] = Success(@)]
        /\ Goto(r, "storing")
        /\ UNCHANGED result
  /\ UNCHANGED <<position, attempt, cache, calls>>

Stores(r) ==
  /\ pc[r] = "storing"
  /\ cache' \in {cache, cache \cup ({KeyOf[r]} \ {None})}
  /\ Settles(r, "success")
  /\ UNCHANGED <<position, attempt, circuits, calls>>

GoesOn(r) ==
  /\ Stands(r)
  /\ Screens(r) \/ Selects(r) \/ Invokes(r) \/ CallFails(r) \/ CallAnswers(r) \/ Expires(r)
     \/ Wakes(r) \/ Checks(r) \/ Stores(r)

\* A slot is given up, or handed to a request that waits.
Leaves(r) ==
  \/ place' = [place EXCEPT ![r] = "left"] /\ active' = active - 1
  \/ \E q \in Waiting, p \in {"inside", "granted"} :
       place' = [place EXCEPT ![r] = "left", ![q] = p] /\ active' = active

\* A request is reported and leaves, or, in Python, is interrupted.
Ends(r) ==
  /\ place[r] = "inside"
  /\ Goto(r, "done")
  /\ Leaves(r)
  /\ \/ pc[r] = "reporting" /\ recorded' = [recorded EXCEPT ![r] = result[r]] /\ UNCHANGED <<result, calls>>
     \/ /\ language = "python"
        /\ Ended(r)
        /\ result' = [result EXCEPT ![r] = "cancelled"]
        /\ recorded' \in {recorded, [recorded EXCEPT ![r] = result[r]]}
        /\ calls' = calls \ Current(r)
  /\ UNCHANGED <<language, context, position, attempt, circuits, cache>>

\* A request comes to the gate, or is dealt with there.
Passes(r) ==
  /\ \/ /\ place[r] \in {"outside", "waiting"}
        /\ active < MaxConcurrency
        /\ place' = [place EXCEPT ![r] = "inside"]
        /\ active' = active + 1
     \/ /\ place[r] \in {"outside", "waiting"}
        /\ \E p \in {"waiting", "refused"} : place' = [place EXCEPT ![r] = p]
        /\ UNCHANGED active
     \/ /\ place[r] = "granted"
        /\ place' = [place EXCEPT ![r] = "inside"]
        /\ UNCHANGED active
     \/ place[r] = "granted" /\ Leaves(r)
  /\ UNCHANGED <<language, context, pc, position, attempt, result, recorded, circuits, cache, calls>>

\* A caller ends, a call that nobody waits for does, or time passes.
Elsewhere ==
  /\ UNCHANGED <<language, active, place, pc, position, attempt, result, recorded, cache>>
  /\ \/ /\ \E c \in Callers, how \in {"cancelled", "expired"} :
             context[c] = "live" /\ context' = [context EXCEPT ![c] = how]
        /\ \E C \in SUBSET calls : calls' = Telling(C)
        /\ UNCHANGED circuits
     \/ /\ language # "python"
        /\ \E c \in calls : Abandoned(c) /\ calls' = calls \ {c}
        /\ UNCHANGED <<context, circuits>>
     \/ /\ circuits' = [c \in Routes |-> Aged(circuits[c])]
        /\ UNCHANGED <<context, calls>>

-----------------------------------------------------------------------------
(* The calls under way.                                                    *)

\* A request lets its call go.
LEMMA LetGoFits ==
  ASSUME CallsFit, NEW r \in Requests, LetsGo(r), language' = language,
         pc'[r] \notin {"calling", "expiring"}, OthersStay(r)
  PROVE  CallsFit'
<1> USE DEF CallsFit
<1>1. \A q \in Requests \ {r} :
        pc'[q] = pc[q] /\ position'[q] = position[q] /\ attempt'[q] = attempt[q]
  BY DEF OthersStay
<1>2. CASE pc[r] \notin {"calling", "expiring"} /\ calls' = calls
  <2>1. CallTypes'
    BY <1>2 DEF CallTypes
  <2>2. UntoldIsAwaited'
    BY <1>1, <1>2 DEF UntoldIsAwaited, Abandoned, Current, CallTypes
  <2>3. CallIsUnderWay'
    BY <1>1, <1>2 DEF CallIsUnderWay, Current
  <2>4. PythonAwaits'
    BY <1>1, <1>2 DEF PythonAwaits, Abandoned, Current, CallTypes
  <2> QED
    BY <2>1, <2>2, <2>3, <2>4
<1>3. CASE calls' = calls \ Current(r)
  <2>1. CallTypes'
    BY <1>3 DEF CallTypes
  <2>2. UntoldIsAwaited'
    BY <1>1, <1>3 DEF UntoldIsAwaited, Abandoned, Current, CallTypes
  <2>3. CallIsUnderWay'
    <3> SUFFICES ASSUME NEW q \in Requests, pc'[q] = "calling" PROVE Current(q)' # {}
      BY DEF CallIsUnderWay
    <3>1. q # r /\ pc[q] = "calling"
      BY <1>1
    <3>2. PICK c \in calls : c.by = q /\ c.position = position[q] /\ c.attempt = attempt[q]
      BY <3>1 DEF CallIsUnderWay, Current
    <3> QED
      BY <1>1, <1>3, <3>1, <3>2 DEF Current
  <2>4. PythonAwaits'
    BY <1>1, <1>3 DEF PythonAwaits, Abandoned, Current, CallTypes
  <2> QED
    BY <2>1, <2>2, <2>3, <2>4
<1>4. CASE language # "python" /\ calls' = Telling(Current(r))
  <2> DEFINE told(c) == IF c \in Current(r) THEN [c EXCEPT !.told = TRUE] ELSE c
  <2>1. calls' = {told(c) : c \in calls}
    BY <1>4 DEF Telling
  <2>2. \A c \in calls : /\ told(c) \in [by : Requests, position : Nat, attempt : Nat, told : BOOLEAN]
                         /\ told(c).by = c.by /\ told(c).position = c.position /\ told(c).attempt = c.attempt
                         /\ c \in Current(r) => told(c).told
                         /\ c \notin Current(r) => told(c) = c
    BY DEF CallTypes
  <2> HIDE DEF told
  <2>3. CallTypes'
    BY <2>1, <2>2 DEF CallTypes
  <2>4. UntoldIsAwaited'
    BY <1>1, <2>1, <2>2 DEF UntoldIsAwaited, Abandoned, Current, CallTypes
  <2>5. CallIsUnderWay'
    <3> SUFFICES ASSUME NEW q \in Requests, pc'[q] = "calling" PROVE Current(q)' # {}
      BY DEF CallIsUnderWay
    <3>1. q # r /\ pc[q] = "calling"
      BY <1>1
    <3>2. PICK c \in calls : c.by = q /\ c.position = position[q] /\ c.attempt = attempt[q]
      BY <3>1 DEF CallIsUnderWay, Current
    <3>3. told(c) \in Current(q)'
      BY <1>1, <2>1, <2>2, <3>1, <3>2 DEF Current
    <3> QED
      BY <3>3
  <2>6. PythonAwaits'
    BY <1>4 DEF PythonAwaits
  <2> QED
    BY <2>3, <2>4, <2>5, <2>6
<1> QED
  BY <1>2, <1>3, <1>4 DEF LetsGo
\* A request calls its adapter.
LEMMA InvokeFits ==
  ASSUME CallsFit, NEW r \in Requests, Invokes(r), language' = language, OthersStay(r),
         position[r] \in Nat, attempt[r] \in Nat, pc'[r] = "calling"
  PROVE  CallsFit'
<1> USE DEF CallsFit
<1>1. PICK t \in BOOLEAN : calls' = calls \cup {Call(r, t)}
  BY DEF Invokes
<1>2. PICK new : new = Call(r, t)
  OBVIOUS
<1>3. /\ calls' = calls \cup {new}
      /\ new \in [by : Requests, position : Nat, attempt : Nat, told : BOOLEAN]
      /\ new.by = r /\ new.position = position[r] /\ new.attempt = attempt[r]
  BY <1>1, <1>2 DEF Call
<1>4. /\ pc[r] = "invoke" /\ pc'[r] = "calling" /\ UNCHANGED <<position, attempt>>
      /\ \A q \in Requests \ {r} : pc'[q] = pc[q]
  BY DEF Invokes, OthersStay
<1>5. new \in Current(r)' /\ Current(r) \subseteq Current(r)'
  BY <1>3, <1>4 DEF Current
<1>6. CallTypes'
  BY <1>3 DEF CallTypes
<1>7. UntoldIsAwaited'
  BY <1>3, <1>4 DEF UntoldIsAwaited, Abandoned, Current, CallTypes
<1>8. CallIsUnderWay'
  BY <1>3, <1>4, <1>5 DEF CallIsUnderWay, Current
<1>9. PythonAwaits'
  <2> SUFFICES ASSUME language = "python"
               PROVE  (\A c \in calls' : ~Abandoned(c)') /\ \A c, d \in calls' : c.by = d.by => c = d
    BY DEF PythonAwaits
  <2>1. \A c \in calls : ~Abandoned(c) /\ c.by # r
    BY <1>4 DEF PythonAwaits, Abandoned
  <2>2. ~Abandoned(new)'
    BY <1>3, <1>4, <1>5 DEF Abandoned
  <2>3. \A c \in calls : ~Abandoned(c)'
    BY <1>3, <1>4, <2>1 DEF Abandoned, Current, CallTypes
  <2>4. \A c, d \in calls : c.by = d.by => c = d
    BY DEF PythonAwaits
  <2> QED
    BY <1>3, <2>1, <2>2, <2>3, <2>4
<1> QED
  BY <1>6, <1>7, <1>8, <1>9

\* Calls are told to stop, and where the requests are matters no less to them.
LEMMA TellingFits ==
  ASSUME CallsFit, NEW C, C \subseteq calls, calls' = Telling(C), language' = language,
         UNCHANGED <<position, attempt>>,
         \A q \in Requests : \/ pc'[q] = pc[q]
                             \/ pc[q] = "calling" /\ pc'[q] = "expiring"
  PROVE  CallsFit'
<1> USE DEF CallsFit
<1> DEFINE told(c) == IF c \in C THEN [c EXCEPT !.told = TRUE] ELSE c
<1>1. calls' = {told(c) : c \in calls}
  BY DEF Telling
<1>2. \A c \in calls : /\ told(c) \in [by : Requests, position : Nat, attempt : Nat, told : BOOLEAN]
                       /\ told(c).by = c.by /\ told(c).position = c.position /\ told(c).attempt = c.attempt
                       /\ c.told => told(c).told
  BY DEF CallTypes
<1> HIDE DEF told
<1>3. \A c \in calls : ~Abandoned(c) => ~Abandoned(told(c))'
  <2> SUFFICES ASSUME NEW c \in calls, ~Abandoned(c) PROVE ~Abandoned(told(c))'
    OBVIOUS
  <2>1. c.by \in Requests /\ c.position = position[c.by] /\ c.attempt = attempt[c.by]
        /\ pc[c.by] \in {"calling", "expiring"}
    BY DEF Abandoned, Current, CallTypes
  <2>2. pc'[c.by] \in {"calling", "expiring"}
    BY <2>1
  <2>3. told(c) \in Current(told(c).by)'
    BY <1>1, <1>2, <2>1 DEF Current
  <2> QED
    BY <1>2, <2>2, <2>3 DEF Abandoned
<1>4. CallTypes'
  BY <1>1, <1>2 DEF CallTypes
<1>5. UntoldIsAwaited'
  BY <1>1, <1>2, <1>3 DEF UntoldIsAwaited
<1>6. CallIsUnderWay'
  <2> SUFFICES ASSUME NEW q \in Requests, pc'[q] = "calling" PROVE Current(q)' # {}
    BY DEF CallIsUnderWay
  <2>1. PICK c \in calls : c.by = q /\ c.position = position[q] /\ c.attempt = attempt[q]
    BY DEF CallIsUnderWay, Current
  <2>2. told(c) \in Current(q)'
    BY <1>1, <1>2, <2>1 DEF Current
  <2> QED
    BY <2>2
<1>7. PythonAwaits'
  BY <1>1, <1>2, <1>3 DEF PythonAwaits
<1> QED
  BY <1>4, <1>5, <1>6, <1>7

\* A call that nobody waits for ends.
LEMMA EndOfCallFits ==
  ASSUME CallsFit, language # "python", UNCHANGED <<language, pc, position, attempt>>,
         NEW c \in calls, Abandoned(c), calls' = calls \ {c}
  PROVE  CallsFit'
<1> USE DEF CallsFit
<1>1. CallTypes' /\ PythonAwaits'
  BY DEF CallTypes, PythonAwaits
<1>2. UntoldIsAwaited'
  BY DEF UntoldIsAwaited, Abandoned, Current
<1>3. CallIsUnderWay'
  <2> SUFFICES ASSUME NEW q \in Requests, pc'[q] = "calling" PROVE Current(q)' # {}
    BY DEF CallIsUnderWay
  <2>1. PICK d \in Current(q) : TRUE
    BY DEF CallIsUnderWay
  <2>2. d \in calls /\ d.by = q /\ d # c
    BY <2>1 DEF Current, Abandoned
  <2> QED
    BY <2>1, <2>2 DEF Current
<1> QED
  BY <1>1, <1>2, <1>3

\* Nothing becomes of the calls or of what they are for.
LEMMA SameFits ==
  ASSUME CallsFit, UNCHANGED <<language, pc, position, attempt, calls>> PROVE CallsFit'
  BY DEF CallsFit, CallTypes, UntoldIsAwaited, CallIsUnderWay, PythonAwaits, Abandoned, Current

-----------------------------------------------------------------------------
(* Requests that go on.                                                    *)

\* What such a step leaves.
Works(r) ==
  /\ Stands(r) /\ OthersStay(r) /\ Ranges' /\ CallsFit'
  /\ Placed(r)' /\ Meant(r)' /\ pc'[r] # "done"

LEMMA WorksKeeps == ASSUME ContractInv, NEW r \in Requests, Works(r) PROVE ContractInv'
<1> USE DEF ContractInv
<1>1. UNCHANGED <<language, context, active, place, recorded>> /\ Ranges' /\ CallsFit'
  BY DEF Works, Stands
<1>2. SlotsTaken'
  BY <1>1 DEF SlotsTaken, Inside
<1>3. ASSUME NEW q \in Requests PROVE Placed(q)' /\ Meant(q)' /\ Recorded(q)'
  <2>1. CASE q = r
    BY <2>1 DEF Works, Recorded
  <2>2. CASE q # r
    <3>1. pc'[q] = pc[q] /\ position'[q] = position[q] /\ attempt'[q] = attempt[q] /\ result'[q] = result[q]
      BY <2>2 DEF Works, OthersStay
    <3>2. Ended(q)' <=> Ended(q)
      BY <1>1 DEF Ended
    <3> QED
      BY <1>1, <3>1, <3>2 DEF Placed, Meant, Recorded
  <2> QED
    BY <2>1, <2>2
<1> QED
  BY <1>1, <1>2, <1>3

\* What a step may leave of the variables that Settles and MovesOn do not set.
Trail(r) ==
  /\ Stands(r) /\ LetsGo(r)
  /\ position' \in [Requests -> Nat] /\ attempt' \in [Requests -> 0 .. MaxAttempts]
  /\ circuits' \in [Routes -> Breakers] /\ cache' \subseteq Keys
  /\ position'[r] <= Len(RoutesOf(r))
  /\ \A q \in Requests \ {r} : position'[q] = position[q] /\ attempt'[q] = attempt[q]

\* A request goes to another step.
LEMMA StepWorks ==
  ASSUME ContractInv, NEW r \in Requests, Trail(r), NEW step, Goto(r, step), step \in Steps,
         step \notin {"calling", "expiring", "done"}, result' \in [Requests -> Outcomes],
         \A q \in Requests \ {r} : result'[q] = result[q],
         step \in {"screen", "select"} => position'[r] < Len(RoutesOf(r)),
         step = "sleeping" => attempt'[r] < MaxAttempts,
         result'[r] \in PolicyKinds =>
           \/ step = "reporting"
           \/ step \notin {"screen", "select"} /\ \E f \in Replies : f.kind = result'[r] /\ f.retryable,
         result'[r] = "cancelled" => Ended(r) \/ \E f \in Replies : f.kind = "cancelled"
  PROVE  Works(r)
<1> USE DEF ContractInv
<1>1. UNCHANGED <<language, context, active, place, recorded>> /\ place[r] = "inside"
  BY DEF Trail, Stands
<1>2. pc' = [pc EXCEPT ![r] = step]
  BY DEF Goto
<1>3. Ranges'
  BY <1>1, <1>2 DEF Ranges, Trail
<1>4. OthersStay(r) /\ pc'[r] = step
  BY <1>2 DEF OthersStay, Trail, Ranges
<1>5. CallsFit'
  BY <1>1, <1>4, LetGoFits DEF Trail
<1>6. Placed(r)'
  BY <1>1, <1>4 DEF Placed, Trail
<1>7. Ended(r)' <=> Ended(r)
  BY <1>1 DEF Ended
<1>8. Meant(r)'
  BY <1>4, <1>7 DEF Meant
<1> QED
  BY <1>3, <1>4, <1>5, <1>6, <1>8 DEF Works, Trail

\* Its execution ends.
LEMMA SettleWorks ==
  ASSUME ContractInv, NEW r \in Requests, Trail(r), NEW kind \in Outcomes, Settles(r, kind),
         kind = "cancelled" => Ended(r) \/ \E f \in Replies : f.kind = "cancelled"
  PROVE  Works(r)
<1>1. result' = [result EXCEPT ![r] = kind] /\ result \in [Requests -> Outcomes] /\ Goto(r, "reporting")
  BY DEF Settles, ContractInv, Ranges
<1>2. result' \in [Requests -> Outcomes] /\ result'[r] = kind /\ \A q \in Requests \ {r} : result'[q] = result[q]
  BY <1>1
<1>3. "reporting" \in Steps
  BY DEF Steps
<1> QED
  BY <1>1, <1>2, <1>3, StepWorks

\* It goes to its next route, or ends.
LEMMA MoveOnWorks ==
  ASSUME ContractInv, NEW r \in Requests, Trail(r), NEW kind \in Outcomes \ PolicyKinds, kind # "cancelled",
         NEW n \in Nat, n <= Len(RoutesOf(r)), position'[r] = n, MovesOn(r, n, kind)
  PROVE  Works(r)
<1>1. CASE n = Len(RoutesOf(r))
  BY <1>1, SettleWorks DEF MovesOn
<1>2. CASE n # Len(RoutesOf(r))
  <2>1. Goto(r, "select") /\ result' = [result EXCEPT ![r] = kind] /\ result \in [Requests -> Outcomes]
    BY <1>2 DEF MovesOn, ContractInv, Ranges
  <2>2. result' \in [Requests -> Outcomes] /\ result'[r] = kind /\ \A q \in Requests \ {r} : result'[q] = result[q]
    BY <2>1
  <2>3. "select" \in Steps /\ n < Len(RoutesOf(r))
    BY <1>2, RoutesFit DEF Steps
  <2> QED
    BY <2>1, <2>2, <2>3, StepWorks
<1> QED
  BY <1>1, <1>2

\* The failures of a call are failures; only adapters report refusals, and only they
\* and the end of the caller cancel.
LEMMA FailureTypes ==
  ASSUME NEW r \in Requests, NEW f, f \in FailuresOf(r)
  PROVE  /\ f.kind \in Outcomes /\ f.retryable \in BOOLEAN
         /\ f.kind \in PolicyKinds => f \in Replies
         /\ f.kind = "cancelled" => Ended(r) \/ f \in Replies
<1>1. CASE f \in Replies \ {Answer}
  <2>1. f \in [kind : FailureKinds, retryable : BOOLEAN]
    BY <1>1, RuntimeAssumption
  <2> QED
    BY <1>1, <2>1 DEF Outcomes
<1>2. CASE f = TimedOut
  BY <1>2 DEF TimedOut, FailureKinds, PolicyKinds, Outcomes
<1>3. CASE Ended(r) /\ f = Cancelled
  BY <1>3 DEF Cancelled, FailureKinds, PolicyKinds, Outcomes
<1> QED
  BY <1>1, <1>2, <1>3 DEF FailuresOf

\* A failure is retried, ends the request, or ends its route.
LEMMA FailWorks ==
  ASSUME ContractInv, NEW r \in Requests, NEW f, f \in FailuresOf(r), Fails(r, f), Stands(r), LetsGo(r),
         pc[r] \in {"invoke", "calling", "expiring"}
  PROVE  Works(r)
<1>1. Ranges /\ Placed(r)
  BY DEF ContractInv
<1>2. f.kind \in Outcomes /\ f.retryable \in BOOLEAN
  BY FailureTypes
<1>3. circuits' \in [Routes -> Breakers]
  <2>1. circuits \in [Routes -> Breakers] /\ \A b \in Breakers : Failure(b) \in Breakers
    BY <1>1, BreakerTypes DEF Ranges
  <2>2. circuits' = [circuits EXCEPT ![Route(r)] = IF f.retryable THEN Failure(circuits[Route(r)]) ELSE circuits[Route(r)]]
    BY DEF Fails
  <2> QED
    BY <2>1, <2>2
<1>4. Trail(r) /\ UNCHANGED <<position, attempt>>
  BY <1>1, <1>3 DEF Trail, Fails, Ranges, Placed
<1>5. CASE f.retryable /\ attempt[r] < MaxAttempts
  <2>1. Goto(r, "sleeping") /\ result' = [result EXCEPT ![r] = f.kind] /\ result \in [Requests -> Outcomes]
    BY <1>1, <1>5 DEF Fails, Ranges
  <2>2. result' \in [Requests -> Outcomes] /\ result'[r] = f.kind /\ \A q \in Requests \ {r} : result'[q] = result[q]
    BY <1>2, <2>1
  <2>3. "sleeping" \in Steps /\ attempt'[r] < MaxAttempts
    BY <1>4, <1>5 DEF Steps
  <2>4. /\ f.kind \in PolicyKinds => \E g \in Replies : g.kind = f.kind /\ g.retryable
        /\ f.kind = "cancelled" => Ended(r) \/ \E g \in Replies : g.kind = "cancelled"
    BY <1>5, FailureTypes
  <2> QED
    BY <1>4, <2>1, <2>2, <2>3, <2>4, StepWorks
<1>6. CASE ~(f.retryable /\ attempt[r] < MaxAttempts) /\ f.kind \in PolicyKinds \cup {"cancelled"}
  <2>1. Settles(r, f.kind)
    BY <1>6 DEF Fails
  <2>2. f.kind = "cancelled" => Ended(r) \/ \E g \in Replies : g.kind = "cancelled"
    BY FailureTypes
  <2> QED
    BY <1>2, <1>4, <2>1, <2>2, SettleWorks
<1>7. CASE ~(f.retryable /\ attempt[r] < MaxAttempts) /\ f.kind \notin PolicyKinds \cup {"cancelled"}
  <2>1. MovesOn(r, position[r], f.kind)
    BY <1>7 DEF Fails
  <2>2. position[r] \in Nat /\ position[r] <= Len(RoutesOf(r)) /\ position'[r] = position[r]
    BY <1>1, <1>4 DEF Ranges, Placed
  <2>3. f.kind \in Outcomes \ PolicyKinds /\ f.kind # "cancelled"
    BY <1>2, <1>7
  <2> QED
    BY <1>4, <2>1, <2>2, <2>3, MoveOnWorks
<1> QED
  BY <1>5, <1>6, <1>7

\* What is known where a step begins.
LEMMA Begins ==
  ASSUME ContractInv, NEW r \in Requests
  PROVE  /\ pc \in [Requests -> Steps] /\ position \in [Requests -> Nat]
         /\ attempt \in [Requests -> 0 .. MaxAttempts] /\ result \in [Requests -> Outcomes]
         /\ circuits \in [Routes -> Breakers] /\ cache \subseteq Keys
         /\ position[r] \in Nat /\ position[r] <= Len(RoutesOf(r)) /\ attempt[r] \in 0 .. MaxAttempts
         /\ Len(RoutesOf(r)) \in Nat /\ MaxAttempts \in Nat \ {0}
         /\ Meant(r) /\ Placed(r) /\ CallsFit
<1>1. Ranges /\ Placed(r)
  BY DEF ContractInv
<1> QED
  BY <1>1, RoutesFit, RuntimeAssumption DEF ContractInv, Ranges, Placed

LEMMA ScreenWorks == ASSUME ContractInv, NEW r \in Requests, Stands(r), Screens(r) PROVE Works(r)
<1>1. Trail(r) /\ UNCHANGED <<position, attempt>>
  BY Begins DEF Trail, Screens, LetsGo
<1>2. ASSUME NEW kind \in Rejections \cup {"success"}, Settles(r, kind) PROVE Works(r)
  <2>1. kind \in Outcomes /\ kind # "cancelled"
    BY RuntimeAssumption DEF Outcomes, FailureKinds, PolicyKinds
  <2> QED
    BY <1>1, <1>2, <2>1, SettleWorks
<1>3. CASE Goto(r, "select") /\ UNCHANGED result
  <2>1. "select" \in Steps /\ pc[r] = "screen" /\ position[r] < Len(RoutesOf(r)) /\ result[r] \notin PolicyKinds
    BY Begins DEF Steps, Screens, Placed, Meant
  <2>2. result[r] = "cancelled" => Ended(r) \/ \E f \in Replies : f.kind = "cancelled"
    BY Begins DEF Meant
  <2>3. position'[r] < Len(RoutesOf(r)) /\ result' = result /\ result \in [Requests -> Outcomes]
    BY <1>1, <1>3, <2>1, Begins
  <2> QED
    BY <1>1, <1>3, <2>1, <2>2, <2>3, StepWorks
<1> QED
  BY <1>2, <1>3 DEF Screens

LEMMA SelectWorks == ASSUME ContractInv, NEW r \in Requests, Stands(r), Selects(r) PROVE Works(r)
<1> DEFINE n == position[r] + 1
<1>1. /\ position' \in [Requests -> Nat] /\ position'[r] = n /\ n \in Nat /\ n <= Len(RoutesOf(r))
      /\ \A q \in Requests \ {r} : position'[q] = position[q]
  <2>1. position[r] < Len(RoutesOf(r)) /\ position' = [position EXCEPT ![r] = position[r] + 1]
    BY Begins DEF Selects, Placed
  <2> QED
    BY <2>1, Begins
<1> HIDE DEF n
<1>2. ASSUME attempt' \in [Requests -> 0 .. MaxAttempts], \A q \in Requests \ {r} : attempt'[q] = attempt[q]
      PROVE  Trail(r)
  <2>1. circuits' \in [Routes -> Breakers]
    <3>1. circuits \in [Routes -> Breakers] /\ \A b \in Breakers : Admitted(b) \in Breakers
      BY Begins, BreakerTypes
    <3>2. \/ circuits' = circuits
          \/ \E c \in Adapters : circuits' = [circuits EXCEPT ![c] = Admitted(circuits[c])]
      BY DEF Selects
    <3> QED
      BY <3>1, <3>2
  <2> QED
    BY <1>1, <1>2, <2>1, Begins DEF Trail, Selects, LetsGo
<1>3. ASSUME NEW kind \in {"provider", "circuit-open"}, MovesOn(r, n, kind), UNCHANGED attempt
      PROVE  Works(r)
  <2>1. kind \in Outcomes \ PolicyKinds /\ kind # "cancelled"
    BY DEF Outcomes, FailureKinds, PolicyKinds
  <2>2. Trail(r)
    BY <1>2, <1>3, Begins
  <2> QED
    BY <1>1, <1>3, <2>1, <2>2, MoveOnWorks
<1>4. CASE Goto(r, "invoke") /\ attempt' = [attempt EXCEPT ![r] = 1] /\ UNCHANGED result
  <2>1. Trail(r)
    BY <1>2, <1>4, Begins
  <2>2. "invoke" \in Steps /\ pc[r] = "select" /\ result[r] \notin PolicyKinds
    BY Begins DEF Steps, Selects, Meant
  <2>3. result[r] = "cancelled" => Ended(r) \/ \E f \in Replies : f.kind = "cancelled"
    BY Begins DEF Meant
  <2>4. result' = result /\ result \in [Requests -> Outcomes]
    BY <1>4, Begins
  <2> QED
    BY <1>4, <2>1, <2>2, <2>3, <2>4, StepWorks
<1>5. CASE Ended(r) /\ Settles(r, "cancelled") /\ UNCHANGED attempt
  <2>1. Trail(r) /\ "cancelled" \in Outcomes
    BY <1>2, <1>5, Begins DEF Outcomes, FailureKinds
  <2> QED
    BY <1>5, <2>1, SettleWorks
<1> QED
  BY <1>3, <1>4, <1>5 DEF Selects, n

LEMMA InvokeWorks == ASSUME ContractInv, NEW r \in Requests, Stands(r), Invokes(r) PROVE Works(r)
<1>1. pc' = [pc EXCEPT ![r] = "calling"] /\ "calling" \in Steps
  BY DEF Invokes, Goto, Steps
<1>2. OthersStay(r) /\ pc'[r] = "calling"
  BY <1>1, Begins DEF OthersStay, Invokes
<1>3. UNCHANGED <<language, context, active, place, recorded>> /\ place[r] = "inside"
  BY DEF Stands
<1>4. Ranges'
  BY <1>1, <1>3 DEF ContractInv, Ranges, Invokes
<1>5. CallsFit'
  BY <1>2, <1>3, Begins, InvokeFits
<1>6. Placed(r)'
  BY <1>2, <1>3, Begins DEF Placed, Invokes
<1>7. Meant(r)'
  BY <1>2, <1>3, Begins DEF Meant, Invokes, Ended
<1> QED
  BY <1>2, <1>4, <1>5, <1>6, <1>7 DEF Works

LEMMA ExpireWorks == ASSUME ContractInv, NEW r \in Requests, Stands(r), Expires(r) PROVE Works(r)
<1>1. pc' = [pc EXCEPT ![r] = "expiring"] /\ "expiring" \in Steps
  BY DEF Expires, Goto, Steps
<1>2. OthersStay(r) /\ pc'[r] = "expiring" /\ pc[r] = "calling"
  BY <1>1, Begins DEF OthersStay, Expires
<1>3. UNCHANGED <<language, context, active, place, recorded>> /\ place[r] = "inside"
  BY DEF Stands
<1>4. Ranges'
  BY <1>1, <1>3 DEF ContractInv, Ranges, Expires
<1>5. CallsFit'
  <2>1. Current(r) \subseteq calls /\ calls' = Telling(Current(r)) /\ UNCHANGED <<position, attempt>>
    BY DEF Current, Expires
  <2>2. \A q \in Requests : pc'[q] = pc[q] \/ (pc[q] = "calling" /\ pc'[q] = "expiring")
    BY <1>2 DEF OthersStay
  <2> HIDE DEF Current
  <2> QED
    BY <1>3, <2>1, <2>2, Begins, TellingFits
<1>6. Placed(r)'
  BY <1>2, <1>3, Begins DEF Placed, Expires
<1>7. Meant(r)'
  BY <1>2, <1>3, Begins DEF Meant, Expires, Ended
<1> QED
  BY <1>2, <1>4, <1>5, <1>6, <1>7 DEF Works

LEMMA CallFailWorks == ASSUME ContractInv, NEW r \in Requests, Stands(r), CallFails(r) PROVE Works(r)
<1>1. PICK f \in FailuresOf(r) : Fails(r, f)
  BY DEF CallFails
<1> QED
  BY <1>1, FailWorks DEF CallFails

LEMMA CallAnswerWorks == ASSUME ContractInv, NEW r \in Requests, Stands(r), CallAnswers(r) PROVE Works(r)
<1>1. Trail(r) /\ UNCHANGED <<position, attempt, result>> /\ Goto(r, "checking")
  BY Begins DEF Trail, CallAnswers, LetsGo
<1>2. "checking" \in Steps /\ pc[r] \notin {"reporting", "done"}
  BY DEF Steps, CallAnswers
<1>3. /\ result[r] \in PolicyKinds => \E f \in Replies : f.kind = result[r] /\ f.retryable
      /\ result[r] = "cancelled" => Ended(r) \/ \E f \in Replies : f.kind = "cancelled"
  BY <1>2, Begins DEF Meant
<1>4. result' = result /\ result \in [Requests -> Outcomes]
  BY <1>1, Begins
<1> QED
  BY <1>1, <1>2, <1>3, <1>4, StepWorks

LEMMA WakeWorks == ASSUME ContractInv, NEW r \in Requests, Stands(r), Wakes(r) PROVE Works(r)
<1>1. pc[r] = "sleeping" /\ attempt[r] < MaxAttempts /\ UNCHANGED <<position, circuits, cache, calls>>
  BY Begins DEF Wakes, Placed
<1>2. CASE Goto(r, "invoke") /\ attempt' = [attempt EXCEPT ![r] = @ + 1] /\ UNCHANGED result
  <2>1. /\ attempt' \in [Requests -> 0 .. MaxAttempts]
        /\ \A q \in Requests \ {r} : attempt'[q] = attempt[q]
    BY <1>1, <1>2, Begins
  <2>2. Trail(r)
    BY <1>1, <2>1, Begins DEF Trail, LetsGo
  <2>3. /\ result[r] \in PolicyKinds => \E f \in Replies : f.kind = result[r] /\ f.retryable
        /\ result[r] = "cancelled" => Ended(r) \/ \E f \in Replies : f.kind = "cancelled"
    BY <1>1, Begins DEF Meant
  <2>4. result' = result /\ result \in [Requests -> Outcomes] /\ "invoke" \in Steps
    BY <1>2, Begins DEF Steps
  <2> QED
    BY <1>2, <2>2, <2>3, <2>4, StepWorks
<1>3. CASE Ended(r) /\ Settles(r, "cancelled") /\ UNCHANGED attempt
  <2>1. Trail(r) /\ "cancelled" \in Outcomes
    BY <1>1, <1>3, Begins DEF Trail, LetsGo, Outcomes, FailureKinds
  <2> QED
    BY <1>3, <2>1, SettleWorks
<1> QED
  BY <1>2, <1>3 DEF Wakes

LEMMA CheckWorks == ASSUME ContractInv, NEW r \in Requests, Stands(r), Checks(r) PROVE Works(r)
<1>1. pc[r] = "checking" /\ UNCHANGED <<position, attempt, cache, calls>>
  BY DEF Checks
<1>2. ASSUME circuits' \in [Routes -> Breakers] PROVE Trail(r)
  BY <1>1, <1>2, Begins DEF Trail, LetsGo
<1>3. CASE MovesOn(r, position[r], "invalid-output") /\ UNCHANGED circuits
  <2>1. "invalid-output" \in Outcomes \ PolicyKinds
    BY DEF Outcomes, FailureKinds, PolicyKinds
  <2>2. Trail(r) /\ position'[r] = position[r]
    BY <1>1, <1>2, <1>3, Begins
  <2> QED
    BY <1>3, <2>1, <2>2, Begins, MoveOnWorks
<1>4. CASE (\E kind \in PolicyKinds : Settles(r, kind)) /\ UNCHANGED circuits
  <2>1. PICK kind \in PolicyKinds : Settles(r, kind)
    BY <1>4
  <2>2. kind \in Outcomes /\ kind # "cancelled"
    BY DEF Outcomes, FailureKinds, PolicyKinds
  <2>3. Trail(r)
    BY <1>2, <1>4, Begins
  <2> QED
    BY <2>1, <2>2, <2>3, SettleWorks
<1>5. CASE /\ circuits' = [circuits EXCEPT ![Route(r)] = Success(@)]
           /\ Goto(r, "storing")
           /\ UNCHANGED result
  <2>1. circuits' \in [Routes -> Breakers]
    <3>1. circuits \in [Routes -> Breakers] /\ \A b \in Breakers : Success(b) \in Breakers
      BY Begins, BreakerTypes
    <3> QED
      BY <1>5, <3>1
  <2>2. /\ result[r] \in PolicyKinds => \E f \in Replies : f.kind = result[r] /\ f.retryable
        /\ result[r] = "cancelled" => Ended(r) \/ \E f \in Replies : f.kind = "cancelled"
    BY <1>1, Begins DEF Meant
  <2>3. result' = result /\ result \in [Requests -> Outcomes] /\ "storing" \in Steps
    BY <1>5, Begins DEF Steps
  <2> QED
    BY <1>2, <1>5, <2>1, <2>2, <2>3, StepWorks
<1> QED
  BY <1>3, <1>4, <1>5 DEF Checks

LEMMA StoreWorks == ASSUME ContractInv, NEW r \in Requests, Stands(r), Stores(r) PROVE Works(r)
<1>1. KeyOf[r] \in Keys \cup {None}
  BY RuntimeAssumption
<1>2. Trail(r) /\ "success" \in Outcomes
  BY <1>1, Begins DEF Trail, LetsGo, Stores, Outcomes
<1> QED
  BY <1>2, SettleWorks DEF Stores

\* A request that goes on preserves the invariant.
LEMMA GoesOnKeeps == ASSUME ContractInv, NEW r \in Requests, GoesOn(r) PROVE ContractInv'
  BY ScreenWorks, SelectWorks, InvokeWorks, ExpireWorks, CallFailWorks, CallAnswerWorks, WakeWorks,
     CheckWorks, StoreWorks, WorksKeeps DEF GoesOn

-----------------------------------------------------------------------------
(* The gate.                                                               *)

\* Those inside, as a finite set.
LEMMA InsideIsFinite == IsFiniteSet(Inside) /\ Inside \subseteq Requests
<1>1. Inside \subseteq Requests
  BY DEF Inside
<1> QED
  BY <1>1, FS_Subset, RuntimeAssumption

\* A slot that is given up is counted, and one that is handed on stays taken.
LEMMA LeavesFits ==
  ASSUME Ranges, SlotsTaken, NEW r \in Requests, place[r] \in {"inside", "granted"}, Leaves(r)
  PROVE  /\ place' \in [Requests -> Places] /\ SlotsTaken' /\ place'[r] = "left"
         /\ \A q \in Requests \ {r} : \/ place'[q] = place[q]
                                      \/ place[q] = "waiting" /\ place'[q] \in {"inside", "granted"}
<1>1. place \in [Requests -> Places] /\ active \in Nat /\ active = Cardinality(Inside) /\ active <= MaxConcurrency
  BY DEF Ranges, SlotsTaken
<1>2. r \in Inside
  BY DEF Inside
<1> DEFINE others == Inside \ {r}
<1>3. Cardinality(others) = active - 1 /\ IsFiniteSet(others) /\ Cardinality(others) \in Nat
  BY <1>1, <1>2, InsideIsFinite, FS_RemoveElement, FS_CardinalityType
<1>4. CASE place' = [place EXCEPT ![r] = "left"] /\ active' = active - 1
  <2>1. place' \in [Requests -> Places] /\ place'[r] = "left" /\ \A q \in Requests \ {r} : place'[q] = place[q]
    BY <1>1, <1>4 DEF Places
  <2>2. Inside' = others
    BY <2>1 DEF Inside
  <2> HIDE DEF others
  <2>3. SlotsTaken'
    BY <1>1, <1>3, <1>4, <2>2, RuntimeAssumption DEF SlotsTaken
  <2> QED
    BY <2>1, <2>3
<1>5. CASE \E q \in Waiting, p \in {"inside", "granted"} :
             place' = [place EXCEPT ![r] = "left", ![q] = p] /\ active' = active
  <2>1. PICK q \in Waiting, p \in {"inside", "granted"} :
          place' = [place EXCEPT ![r] = "left", ![q] = p] /\ active' = active
    BY <1>5
  <2>2. q \in Requests /\ q # r /\ place[q] = "waiting"
    BY DEF Waiting
  <2>3. /\ place' \in [Requests -> Places] /\ place'[r] = "left" /\ place'[q] = p
        /\ \A x \in Requests \ {r, q} : place'[x] = place[x]
    BY <1>1, <2>1, <2>2 DEF Places
  <2>4. Inside' = others \cup {q} /\ q \notin others
    BY <2>2, <2>3 DEF Inside
  <2> HIDE DEF others
  <2>5. Cardinality(others \cup {q}) = active
    <3>1. Cardinality(others \cup {q}) = Cardinality(others) + 1
      BY <1>3, <2>4, FS_AddElement
    <3> QED
      BY <1>1, <1>3, <3>1
  <2>6. SlotsTaken'
    BY <1>1, <2>1, <2>4, <2>5 DEF SlotsTaken
  <2> QED
    BY <2>2, <2>3, <2>6
<1> QED
  BY <1>4, <1>5 DEF Leaves

\* A request that is reported or interrupted leaves nothing behind but its calls
\* that were told to stop.
LEMMA EndsKeeps == ASSUME ContractInv, NEW r \in Requests, Ends(r) PROVE ContractInv'
<1>1. pc' = [pc EXCEPT ![r] = "done"] /\ "done" \in Steps /\ UNCHANGED <<language, context, position, attempt, circuits, cache>>
  BY DEF Ends, Goto, Steps
<1>2. /\ place' \in [Requests -> Places] /\ SlotsTaken' /\ place'[r] = "left"
      /\ \A q \in Requests \ {r} : \/ place'[q] = place[q]
                                   \/ place[q] = "waiting" /\ place'[q] \in {"inside", "granted"}
  BY LeavesFits DEF Ends, ContractInv
<1>3. /\ result' \in [Requests -> Outcomes] /\ recorded' \in [Requests -> Outcomes \cup {"nothing"}]
      /\ \A q \in Requests \ {r} : result'[q] = result[q] /\ recorded'[q] = recorded[q]
      /\ recorded'[r] = result'[r] \/ (language' = "python" /\ result'[r] = "cancelled")
      /\ result'[r] = result[r] \/ (Ended(r) /\ result'[r] = "cancelled")
  <2>1. result \in [Requests -> Outcomes] /\ recorded \in [Requests -> Outcomes \cup {"nothing"}] /\ "cancelled" \in Outcomes
    BY DEF ContractInv, Ranges, Outcomes, FailureKinds
  <2>2. CASE recorded' = [recorded EXCEPT ![r] = result[r]] /\ UNCHANGED result
    BY <2>1, <2>2
  <2>3. CASE /\ language = "python" /\ Ended(r) /\ result' = [result EXCEPT ![r] = "cancelled"]
             /\ recorded' \in {recorded, [recorded EXCEPT ![r] = result[r]]}
    BY <1>1, <2>1, <2>3
  <2> QED
    BY <2>2, <2>3 DEF Ends
<1>4. OthersStay(r) /\ pc'[r] = "done"
  BY <1>1, <1>3, Begins DEF OthersStay
<1>5. CallsFit'
  <2>1. LetsGo(r)
    BY DEF Ends, LetsGo
  <2> QED
    BY <1>1, <1>4, <2>1, Begins, LetGoFits
<1>6. Ranges'
  BY <1>1, <1>2, <1>3 DEF ContractInv, Ranges
<1>7. ASSUME NEW q \in Requests PROVE Placed(q)' /\ Meant(q)' /\ Recorded(q)'
  <2>1. Ended(q)' <=> Ended(q)
    BY <1>1 DEF Ended
  <2>2. CASE q = r
    <3>1. Placed(r)' /\ Recorded(r)'
      BY <1>1, <1>3, <1>4, Begins DEF Placed, Recorded
    <3>2. Meant(r)'
      BY <1>3, <1>4, <2>1, <2>2, Begins DEF Meant
    <3> QED
      BY <2>2, <3>1, <3>2
  <2>3. CASE q # r
    <3>1. /\ pc'[q] = pc[q] /\ position'[q] = position[q] /\ attempt'[q] = attempt[q]
          /\ result'[q] = result[q] /\ recorded'[q] = recorded[q]
      BY <1>3, <1>4, <2>3 DEF OthersStay
    <3>2. Placed(q) /\ Meant(q) /\ Recorded(q)
      BY DEF ContractInv
    <3>3. place[q] = "inside" => place'[q] = "inside"
      BY <1>2, <2>3
    <3> QED
      BY <1>1, <2>1, <3>1, <3>2, <3>3 DEF Placed, Meant, Recorded
  <2> QED
    BY <2>2, <2>3
<1> QED
  BY <1>2, <1>5, <1>6, <1>7 DEF ContractInv

\* What happens at the gate moves requests that are not inside.
LEMMA PassesKeeps == ASSUME ContractInv, NEW r \in Requests, Passes(r) PROVE ContractInv'
<1>1. UNCHANGED <<language, context, pc, position, attempt, result, recorded, circuits, cache, calls>>
  BY DEF Passes
<1>2. Ranges /\ SlotsTaken /\ place \in [Requests -> Places] /\ active \in Nat /\ MaxConcurrency \in Nat
  BY RuntimeAssumption DEF ContractInv, Ranges, SlotsTaken
<1>3. /\ place' \in [Requests -> Places] /\ SlotsTaken'
      /\ \A q \in Requests : place[q] = "inside" => place'[q] = "inside"
  <2>1. CASE /\ place[r] \in {"outside", "waiting"}
             /\ active < MaxConcurrency
             /\ place' = [place EXCEPT ![r] = "inside"]
             /\ active' = active + 1
    <3>1. place' \in [Requests -> Places] /\ place'[r] = "inside" /\ \A q \in Requests \ {r} : place'[q] = place[q]
      BY <1>2, <2>1 DEF Places
    <3>2. Inside' = Inside \cup {r} /\ r \notin Inside
      BY <2>1, <3>1 DEF Inside
    <3>3. Cardinality(Inside \cup {r}) = active + 1
      BY <1>2, <3>2, InsideIsFinite, FS_AddElement DEF SlotsTaken
    <3>4. SlotsTaken'
      BY <1>2, <2>1, <3>2, <3>3 DEF SlotsTaken
    <3> QED
      BY <3>1, <3>4
  <2>2. CASE /\ place[r] \in {"outside", "waiting"}
             /\ \E p \in {"waiting", "refused"} : place' = [place EXCEPT ![r] = p]
             /\ UNCHANGED active
    <3>1. /\ place' \in [Requests -> Places] /\ place'[r] \in {"waiting", "refused"}
          /\ \A q \in Requests \ {r} : place'[q] = place[q]
      BY <1>2, <2>2 DEF Places
    <3>2. Inside' = Inside
      BY <2>2, <3>1 DEF Inside
    <3> QED
      BY <1>2, <2>2, <3>1, <3>2 DEF SlotsTaken
  <2>3. CASE place[r] = "granted" /\ place' = [place EXCEPT ![r] = "inside"] /\ UNCHANGED active
    <3>1. place' \in [Requests -> Places] /\ place'[r] = "inside" /\ \A q \in Requests \ {r} : place'[q] = place[q]
      BY <1>2, <2>3 DEF Places
    <3>2. Inside' = Inside
      BY <2>3, <3>1 DEF Inside
    <3> QED
      BY <1>2, <2>3, <3>1, <3>2 DEF SlotsTaken
  <2>4. CASE place[r] = "granted" /\ Leaves(r)
    BY <1>2, <2>4, LeavesFits
  <2> QED
    BY <2>1, <2>2, <2>3, <2>4 DEF Passes
<1>4. CallsFit'
  BY <1>1, SameFits DEF ContractInv
<1>5. Ranges'
  BY <1>1, <1>2, <1>3 DEF Ranges
<1>6. ASSUME NEW q \in Requests PROVE Placed(q)' /\ Meant(q)' /\ Recorded(q)'
  BY <1>1, <1>3 DEF ContractInv, Placed, Meant, Recorded, Ended
<1> QED
  BY <1>3, <1>4, <1>5, <1>6 DEF ContractInv

\* Callers end, calls end and time passes without a request having to move.
LEMMA ElsewhereKeeps == ASSUME ContractInv, Elsewhere PROVE ContractInv'
<1>1. UNCHANGED <<language, active, place, pc, position, attempt, result, recorded, cache>>
  BY DEF Elsewhere
<1>2. Ranges /\ SlotsTaken /\ CallsFit
  BY DEF ContractInv
<1>3. /\ context' \in [Callers -> {"live", "cancelled", "expired"}] /\ circuits' \in [Routes -> Breakers] /\ CallsFit'
      /\ \A c \in Callers : context[c] # "live" => context'[c] # "live"
  <2>1. CASE /\ \E c \in Callers, how \in {"cancelled", "expired"} :
                  context[c] = "live" /\ context' = [context EXCEPT ![c] = how]
             /\ \E C \in SUBSET calls : calls' = Telling(C)
             /\ UNCHANGED circuits
    <3>1. CallsFit'
      BY <1>1, <1>2, <2>1, TellingFits
    <3> QED
      BY <1>2, <2>1, <3>1 DEF Ranges
  <2>2. CASE /\ language # "python"
             /\ \E c \in calls : Abandoned(c) /\ calls' = calls \ {c}
             /\ UNCHANGED <<context, circuits>>
    BY <1>1, <1>2, <2>2, EndOfCallFits DEF Ranges
  <2>3. CASE circuits' = [c \in Routes |-> Aged(circuits[c])] /\ UNCHANGED <<context, calls>>
    <3>1. circuits' \in [Routes -> Breakers]
      BY <1>2, <2>3, BreakerTypes DEF Ranges
    <3> QED
      BY <1>1, <1>2, <2>3, <3>1, SameFits DEF Ranges
  <2> QED
    BY <2>1, <2>2, <2>3 DEF Elsewhere
<1>4. Ranges'
  BY <1>1, <1>2, <1>3 DEF Ranges
<1>5. SlotsTaken'
  BY <1>1, <1>2 DEF SlotsTaken, Inside
<1>6. ASSUME NEW q \in Requests PROVE Placed(q)' /\ Meant(q)' /\ Recorded(q)'
  <2>1. Ended(q) => Ended(q)'
    <3>1. CallerOf[q] \in Callers
      BY CallerAssumption
    <3> QED
      BY <1>3, <3>1 DEF Ended
  <2> QED
    BY <1>1, <2>1 DEF ContractInv, Placed, Meant, Recorded
<1> QED
  BY <1>3, <1>4, <1>5, <1>6 DEF ContractInv

-----------------------------------------------------------------------------
(* The three runtimes.                                                     *)

\* The steps that there are.
Step == Elsewhere \/ \E r \in Requests : GoesOn(r) \/ Ends(r) \/ Passes(r)

\* They preserve the invariant.
LEMMA StepKeeps == ASSUME ContractInv, Step PROVE ContractInv'
  BY GoesOnKeeps, EndsKeeps, PassesKeeps, ElsewhereKeeps DEF Step

\* What the Python runtime takes from PortableRuntime is what is meant here.
LEMMA PythonSame ==
  ASSUME NEW r \in Requests
  PROVE  /\ Python!RoutesOf(r) = RoutesOf(r) /\ Python!Route(r) = Route(r) /\ Python!Current(r) = Current(r)
         /\ Python!PolicyKinds = PolicyKinds /\ Python!Answer = Answer
         /\ Python!TimedOut = TimedOut /\ Python!Cancelled = Cancelled
         /\ Python!Ended(r) <=> Ended(r)
         /\ \A t : Python!Call(r, t) = Call(r, t)
         /\ \A C : Python!Telling(C) = Telling(C)
         /\ \A b : /\ Python!Admitted(b) = Admitted(b) /\ Python!Failure(b) = Failure(b)
                   /\ Python!Success(b) = Success(b)
<1>1. Python!RoutesOf(r) = RoutesOf(r)
  BY DEF Python!RoutesOf, RoutesOf, Python!Cardinality, Cardinality
<1>2. Python!Route(r) = Route(r)
  BY <1>1 DEF Python!Route, Route
<1>3. /\ Python!Current(r) = Current(r) /\ Python!PolicyKinds = PolicyKinds /\ Python!Answer = Answer
      /\ Python!TimedOut = TimedOut /\ Python!Cancelled = Cancelled
      /\ Python!Ended(r) <=> Ended(r)
      /\ \A t : Python!Call(r, t) = Call(r, t)
      /\ \A C : Python!Telling(C) = Telling(C)
  BY DEF Python!Current, Current, Python!PolicyKinds, PolicyKinds, Python!Answer, Answer, Python!TimedOut, TimedOut,
     Python!Cancelled, Cancelled, Python!Ended, Ended, Python!Call, Call, Python!Telling, Telling
<1>4. ASSUME NEW b
      PROVE  /\ Python!Admitted(b) = Admitted(b) /\ Python!Failure(b) = Failure(b)
             /\ Python!Success(b) = Success(b)
  <2>1. Python!Seen(b) = Seen(b)
    BY DEF Python!Seen, Seen
  <2>2. Python!Allows(b) <=> Allows(b)
    BY <2>1 DEF Python!Allows, Allows
  <2>3. Python!Admitted(b) = Admitted(b)
    BY <2>1, <2>2 DEF Python!Admitted, Admitted
  <2> QED
    BY <2>3 DEF Python!Failure, Failure, Python!Success, Success, Python!Closed, Closed
<1> QED
  BY <1>1, <1>2, <1>3, <1>4

\* So is how its requests move.
LEMMA PythonMoves ==
  ASSUME NEW r \in Requests
  PROVE  /\ \A step : Python!Goto(r, step) <=> Goto(r, step)
         /\ \A kind : Python!Settle(r, kind) <=> Settles(r, kind)
         /\ \A n, kind : Python!MoveOn(r, n, kind) <=> MovesOn(r, n, kind)
         /\ \A f : Python!Fail(r, f) <=> Fails(r, f) /\ UNCHANGED <<context, active, place, recorded>>
<1>1. \A step : Python!Goto(r, step) <=> Goto(r, step)
  BY DEF Python!Goto, Goto
<1>2. \A kind : Python!Settle(r, kind) <=> Settles(r, kind)
  BY <1>1 DEF Python!Settle, Settles
<1>3. \A n, kind : Python!MoveOn(r, n, kind) <=> MovesOn(r, n, kind)
  BY <1>1, <1>2, PythonSame DEF Python!MoveOn, MovesOn
<1>4. ASSUME NEW f
      PROVE  Python!Fail(r, f) <=> Fails(r, f) /\ UNCHANGED <<context, active, place, recorded>>
  BY <1>1, <1>2, <1>3, PythonSame DEF Python!Fail, Fails, Python!Count
<1> QED
  BY <1>1, <1>2, <1>3, <1>4

\* What the Go runtime takes from PortableRuntime is what is meant here.
LEMMA GoSame ==
  ASSUME NEW r \in Requests
  PROVE  /\ Go!RoutesOf(r) = RoutesOf(r) /\ Go!Route(r) = Route(r) /\ Go!Current(r) = Current(r)
         /\ Go!PolicyKinds = PolicyKinds /\ Go!Answer = Answer
         /\ Go!TimedOut = TimedOut /\ Go!Cancelled = Cancelled
         /\ Go!Ended(r) <=> Ended(r)
         /\ \A t : Go!Call(r, t) = Call(r, t)
         /\ \A C : Go!Telling(C) = Telling(C)
         /\ \A b : /\ Go!Admitted(b) = Admitted(b) /\ Go!Failure(b) = Failure(b)
                   /\ Go!Success(b) = Success(b)
<1>1. Go!RoutesOf(r) = RoutesOf(r)
  BY DEF Go!RoutesOf, RoutesOf, Go!Cardinality, Cardinality
<1>2. Go!Route(r) = Route(r)
  BY <1>1 DEF Go!Route, Route
<1>3. /\ Go!Current(r) = Current(r) /\ Go!PolicyKinds = PolicyKinds /\ Go!Answer = Answer
      /\ Go!TimedOut = TimedOut /\ Go!Cancelled = Cancelled
      /\ Go!Ended(r) <=> Ended(r)
      /\ \A t : Go!Call(r, t) = Call(r, t)
      /\ \A C : Go!Telling(C) = Telling(C)
  BY DEF Go!Current, Current, Go!PolicyKinds, PolicyKinds, Go!Answer, Answer, Go!TimedOut, TimedOut,
     Go!Cancelled, Cancelled, Go!Ended, Ended, Go!Call, Call, Go!Telling, Telling
<1>4. ASSUME NEW b
      PROVE  /\ Go!Admitted(b) = Admitted(b) /\ Go!Failure(b) = Failure(b)
             /\ Go!Success(b) = Success(b)
  <2>1. Go!Seen(b) = Seen(b)
    BY DEF Go!Seen, Seen
  <2>2. Go!Allows(b) <=> Allows(b)
    BY <2>1 DEF Go!Allows, Allows
  <2>3. Go!Admitted(b) = Admitted(b)
    BY <2>1, <2>2 DEF Go!Admitted, Admitted
  <2> QED
    BY <2>3 DEF Go!Failure, Failure, Go!Success, Success, Go!Closed, Closed
<1> QED
  BY <1>1, <1>2, <1>3, <1>4

\* So is how its requests move.
LEMMA GoMoves ==
  ASSUME NEW r \in Requests
  PROVE  /\ \A step : Go!Goto(r, step) <=> Goto(r, step)
         /\ \A kind : Go!Settle(r, kind) <=> Settles(r, kind)
         /\ \A n, kind : Go!MoveOn(r, n, kind) <=> MovesOn(r, n, kind)
         /\ \A f : Go!Fail(r, f) <=> Fails(r, f) /\ UNCHANGED <<context, active, place, recorded>>
<1>1. \A step : Go!Goto(r, step) <=> Goto(r, step)
  BY DEF Go!Goto, Goto
<1>2. \A kind : Go!Settle(r, kind) <=> Settles(r, kind)
  BY <1>1 DEF Go!Settle, Settles
<1>3. \A n, kind : Go!MoveOn(r, n, kind) <=> MovesOn(r, n, kind)
  BY <1>1, <1>2, GoSame DEF Go!MoveOn, MovesOn
<1>4. ASSUME NEW f
      PROVE  Go!Fail(r, f) <=> Fails(r, f) /\ UNCHANGED <<context, active, place, recorded>>
  BY <1>1, <1>2, <1>3, GoSame DEF Go!Fail, Fails, Go!Count
<1> QED
  BY <1>1, <1>2, <1>3, <1>4

\* What the Rust runtime takes from PortableRuntime is what is meant here.
LEMMA RustSame ==
  ASSUME NEW r \in Requests
  PROVE  /\ Rust!RoutesOf(r) = RoutesOf(r) /\ Rust!Route(r) = Route(r) /\ Rust!Current(r) = Current(r)
         /\ Rust!PolicyKinds = PolicyKinds /\ Rust!Answer = Answer
         /\ Rust!TimedOut = TimedOut /\ Rust!Cancelled = Cancelled
         /\ Rust!Ended(r) <=> Ended(r)
         /\ \A t : Rust!Call(r, t) = Call(r, t)
         /\ \A C : Rust!Telling(C) = Telling(C)
         /\ \A b : /\ Rust!Admitted(b) = Admitted(b) /\ Rust!Failure(b) = Failure(b)
                   /\ Rust!Success(b) = Success(b)
<1>1. Rust!RoutesOf(r) = RoutesOf(r)
  BY DEF Rust!RoutesOf, RoutesOf, Rust!Cardinality, Cardinality
<1>2. Rust!Route(r) = Route(r)
  BY <1>1 DEF Rust!Route, Route
<1>3. /\ Rust!Current(r) = Current(r) /\ Rust!PolicyKinds = PolicyKinds /\ Rust!Answer = Answer
      /\ Rust!TimedOut = TimedOut /\ Rust!Cancelled = Cancelled
      /\ Rust!Ended(r) <=> Ended(r)
      /\ \A t : Rust!Call(r, t) = Call(r, t)
      /\ \A C : Rust!Telling(C) = Telling(C)
  BY DEF Rust!Current, Current, Rust!PolicyKinds, PolicyKinds, Rust!Answer, Answer, Rust!TimedOut, TimedOut,
     Rust!Cancelled, Cancelled, Rust!Ended, Ended, Rust!Call, Call, Rust!Telling, Telling
<1>4. ASSUME NEW b
      PROVE  /\ Rust!Admitted(b) = Admitted(b) /\ Rust!Failure(b) = Failure(b)
             /\ Rust!Success(b) = Success(b)
  <2>1. Rust!Seen(b) = Seen(b)
    BY DEF Rust!Seen, Seen
  <2>2. Rust!Allows(b) <=> Allows(b)
    BY <2>1 DEF Rust!Allows, Allows
  <2>3. Rust!Admitted(b) = Admitted(b)
    BY <2>1, <2>2 DEF Rust!Admitted, Admitted
  <2> QED
    BY <2>3 DEF Rust!Failure, Failure, Rust!Success, Success, Rust!Closed, Closed
<1> QED
  BY <1>1, <1>2, <1>3, <1>4

\* So is how its requests move.
LEMMA RustMoves ==
  ASSUME NEW r \in Requests
  PROVE  /\ \A step : Rust!Goto(r, step) <=> Goto(r, step)
         /\ \A kind : Rust!Settle(r, kind) <=> Settles(r, kind)
         /\ \A n, kind : Rust!MoveOn(r, n, kind) <=> MovesOn(r, n, kind)
         /\ \A f : Rust!Fail(r, f) <=> Fails(r, f) /\ UNCHANGED <<context, active, place, recorded>>
<1>1. \A step : Rust!Goto(r, step) <=> Goto(r, step)
  BY DEF Rust!Goto, Goto
<1>2. \A kind : Rust!Settle(r, kind) <=> Settles(r, kind)
  BY <1>1 DEF Rust!Settle, Settles
<1>3. \A n, kind : Rust!MoveOn(r, n, kind) <=> MovesOn(r, n, kind)
  BY <1>1, <1>2, RustSame DEF Rust!MoveOn, MovesOn
<1>4. ASSUME NEW f
      PROVE  Rust!Fail(r, f) <=> Fails(r, f) /\ UNCHANGED <<context, active, place, recorded>>
  BY <1>1, <1>2, <1>3, RustSame DEF Rust!Fail, Fails, Rust!Count
<1> QED
  BY <1>1, <1>2, <1>3, <1>4

\* What a task does in the Python runtime is one of those steps.
LEMMA PythonSteps ==
  ASSUME ContractInv, language = "python", UNCHANGED language, Python!Next
  PROVE  Step
<1>1. ASSUME NEW r \in Requests, Python!Screen(r) PROVE GoesOn(r)
  <2>1. Stands(r) /\ Screens(r)
    BY <1>1, PythonMoves DEF Python!Screen, Stands, Screens, Python!Running, Python!At
  <2> QED
    BY <2>1 DEF GoesOn
<1>2. ASSUME NEW r \in Requests, Python!Select(r) PROVE GoesOn(r)
  <2>1. Stands(r) /\ pc[r] = "select" /\ position' = [position EXCEPT ![r] = @ + 1] /\ UNCHANGED <<cache, calls>>
    BY <1>2 DEF Python!Select, Stands, Python!Running, Python!At
  <2> DEFINE c == Python!RoutesOf(r)[position'[r]]
  <2>2. position'[r] = position[r] + 1
    BY <2>1, Begins
  <2>3. CASE Python!MoveOn(r, position'[r], "provider") /\ UNCHANGED <<circuits, attempt>>
    BY <2>1, <2>2, <2>3, PythonMoves DEF Selects, GoesOn
  <2>4. CASE /\ c \in Adapters
             /\ Python!Ask(c)
             /\ IF Python!Allows(circuits[c])
                THEN Python!Goto(r, "invoke") /\ attempt' = [attempt EXCEPT ![r] = 1] /\ UNCHANGED result
                ELSE Python!MoveOn(r, position'[r], "circuit-open") /\ UNCHANGED attempt
    <3>1. circuits' = [circuits EXCEPT ![c] = Admitted(@)]
      BY <2>4, PythonSame DEF Python!Ask
    <3> HIDE DEF c
    <3>2. \/ Goto(r, "invoke") /\ attempt' = [attempt EXCEPT ![r] = 1] /\ UNCHANGED result
          \/ MovesOn(r, position[r] + 1, "circuit-open") /\ UNCHANGED attempt
          \/ Ended(r) /\ Settles(r, "cancelled") /\ UNCHANGED attempt
      BY <2>2, <2>4, PythonMoves
    <3>3. Selects(r)
      BY <2>1, <2>4, <3>1, <3>2 DEF Selects
    <3> QED
      BY <2>1, <3>3 DEF GoesOn
  <2> QED
    BY <1>2, <2>3, <2>4 DEF Python!Select
<1>3. ASSUME NEW r \in Requests, Python!Invoke(r) PROVE GoesOn(r)
  <2>1. Stands(r) /\ Invokes(r)
    BY <1>3, PythonSame, PythonMoves DEF Python!Invoke, Stands, Invokes, Python!Running, Python!At
  <2> QED
    BY <2>1 DEF GoesOn
<1>4. ASSUME NEW r \in Requests, Python!Reply(r) PROVE GoesOn(r)
  <2>1. place[r] = "inside" /\ pc[r] \in {"calling", "expiring"} /\ calls' = calls \ Current(r)
    BY <1>4, PythonSame DEF Python!Reply, Python!Running, Python!At
  <2>2. PICK reply \in Replies :
          IF reply = Python!Answer
          THEN /\ Python!Goto(r, "checking")
               /\ UNCHANGED <<context, active, place, position, attempt, result, recorded, circuits, cache>>
          ELSE Python!Fail(r, reply)
    BY <1>4 DEF Python!Reply
  <2>3. CASE reply = Answer
    <3>1. Stands(r) /\ CallAnswers(r)
      BY <2>1, <2>2, <2>3, PythonSame, PythonMoves DEF Stands, CallAnswers
    <3> QED
      BY <3>1 DEF GoesOn
  <2>4. CASE reply # Answer
    <3>1. Stands(r) /\ Fails(r, reply)
      BY <2>1, <2>2, <2>4, PythonSame, PythonMoves DEF Stands
    <3>2. LetsGo(r) /\ reply \in FailuresOf(r)
      BY <2>1, <2>4 DEF LetsGo, FailuresOf
    <3> QED
      BY <2>1, <3>1, <3>2 DEF CallFails, GoesOn
  <2> QED
    BY <2>3, <2>4
<1>5. ASSUME NEW r \in Requests, Python!Wake(r) PROVE GoesOn(r)
  <2>1. Stands(r) /\ Wakes(r)
    BY <1>5, PythonSame, PythonMoves DEF Python!Wake, Stands, Wakes, Python!Running, Python!At
  <2> QED
    BY <2>1 DEF GoesOn
<1>6. ASSUME NEW r \in Requests, Python!Unrepairable(r) \/ Python!Refuse(r) \/ Python!Accept(r) PROVE GoesOn(r)
  <2>1. Stands(r)
    BY <1>6 DEF Python!Unrepairable, Python!Refuse, Python!Accept, Stands, Python!Running, Python!At
  <2>2. CASE Python!Unrepairable(r)
    BY <2>1, <2>2, PythonMoves DEF Python!Unrepairable, Checks, GoesOn, Python!Running, Python!At
  <2>3. CASE Python!Refuse(r)
    BY <2>1, <2>3, PythonSame, PythonMoves DEF Python!Refuse, Checks, GoesOn, Python!Running, Python!At
  <2>4. CASE Python!Accept(r)
    BY <2>1, <2>4, PythonSame, PythonMoves DEF Python!Accept, Python!Close, Checks, GoesOn, Python!Running, Python!At
  <2> QED
    BY <1>6, <2>2, <2>3, <2>4
<1>7. ASSUME NEW r \in Requests, Python!Store(r) PROVE GoesOn(r)
  <2>1. Stands(r) /\ Stores(r)
    BY <1>7, PythonMoves DEF Python!Store, Stands, Stores, Python!Running, Python!At
  <2> QED
    BY <2>1 DEF GoesOn
<1>8. ASSUME NEW r \in Requests, Python!Expire(r) PROVE GoesOn(r)
  <2>1. Stands(r) /\ Expires(r)
    BY <1>8, PythonSame, PythonMoves DEF Python!Expire, Stands, Expires, Python!Running, Python!At
  <2> QED
    BY <2>1 DEF GoesOn
<1>9. ASSUME NEW r \in Requests, Python!Expired(r) PROVE GoesOn(r)
  <2>1. place[r] = "inside" /\ pc[r] = "expiring" /\ LetsGo(r) /\ TimedOut \in FailuresOf(r)
    BY <1>9, PythonSame DEF Python!Expired, Python!Running, Python!At, LetsGo, FailuresOf
  <2>2. Stands(r) /\ Fails(r, TimedOut)
    BY <1>9, <2>1, PythonSame, PythonMoves DEF Python!Expired, Stands
  <2> QED
    BY <2>1, <2>2 DEF CallFails, GoesOn
<1>10. ASSUME NEW r \in Requests, place[r] \in {"inside", "granted"}, Python!Free([place EXCEPT ![r] = "left"])
       PROVE  Leaves(r)
  <2> DEFINE p == [place EXCEPT ![r] = "left"]
  <2>1. place \in [Requests -> Places]
    BY DEF ContractInv, Ranges
  <2>2. CASE \E q \in Requests : p[q] = "waiting"
    <3>1. PICK q \in Requests : p[q] = "waiting" /\ place' = [p EXCEPT ![q] = "granted"] /\ UNCHANGED active
      BY <1>10, <2>2 DEF Python!Free
    <3>2. q \in Waiting
      BY <2>1, <3>1 DEF Waiting
    <3> QED
      BY <3>1, <3>2 DEF Leaves
  <2>3. CASE ~\E q \in Requests : p[q] = "waiting"
    BY <1>10, <2>3 DEF Python!Free, Leaves
  <2> QED
    BY <2>2, <2>3
<1>11. ASSUME NEW r \in Requests, Python!Enter(r) \/ Python!Resume(r) \/ Python!Withdraw(r) PROVE Passes(r)
  <2>1. CASE Python!Enter(r)
    BY <2>1 DEF Python!Enter, Passes
  <2>2. CASE Python!Resume(r)
    BY <2>2 DEF Python!Resume, Passes
  <2>3. CASE Python!Withdraw(r) /\ place[r] = "granted"
    BY <1>10, <2>3 DEF Python!Withdraw, Passes
  <2>4. CASE Python!Withdraw(r) /\ place[r] # "granted"
    BY <2>4 DEF Python!Withdraw, Passes
  <2> QED
    BY <1>11, <2>1, <2>2, <2>3, <2>4
<1>12. ASSUME NEW r \in Requests, Python!Report(r) \/ Python!Interrupted(r) PROVE Ends(r)
  <2>1. CASE Python!Report(r)
    BY <1>10, <2>1, PythonMoves DEF Python!Report, Python!Running, Python!At, Ends
  <2>2. CASE Python!Interrupted(r)
    <3>1. place[r] = "inside" /\ Ended(r) /\ calls' = calls \ Current(r) /\ Goto(r, "done")
      BY <2>2, PythonSame, PythonMoves DEF Python!Interrupted, Python!Cancelling
    <3>2. recorded' \in {recorded, [recorded EXCEPT ![r] = result[r]]}
      BY <2>2 DEF Python!Interrupted
    <3>3. Leaves(r)
      BY <1>10, <2>2, <3>1 DEF Python!Interrupted
    <3> QED
      BY <2>2, <3>1, <3>2, <3>3 DEF Python!Interrupted, Ends
  <2> QED
    BY <1>12, <2>1, <2>2
<1>13. ASSUME NEW c \in Callers, Python!Cancel(c) PROVE Elsewhere
  <2>1. PICK C \in SUBSET calls : calls' = Telling(C)
    BY <1>13 DEF Python!Cancel, Python!Telling, Telling
  <2> QED
    BY <1>13, <2>1 DEF Python!Cancel, Elsewhere
<1>14. ASSUME Python!Tick PROVE Elsewhere
  <2>1. \A b : Python!Aged(b) = Aged(b)
    BY DEF Python!Aged, Aged
  <2> QED
    BY <1>14, <2>1 DEF Python!Tick, Elsewhere
<1> QED
  BY <1>1, <1>2, <1>3, <1>4, <1>5, <1>6, <1>7, <1>8, <1>9, <1>11, <1>12, <1>13, <1>14 DEF Step, Python!Next, Python!Proceed

\* What a goroutine does in the Go runtime is one of them.
LEMMA GoSteps ==
  ASSUME ContractInv, language = "go", UNCHANGED language, Go!Next
  PROVE  Step
<1>1. ASSUME NEW r \in Requests, Go!Screen(r) PROVE GoesOn(r)
  <2>1. Stands(r) /\ Screens(r)
    BY <1>1, GoMoves DEF Go!Screen, Stands, Screens, Go!At
  <2> QED
    BY <2>1 DEF GoesOn
<1>2. ASSUME NEW r \in Requests, Go!Select(r) PROVE GoesOn(r)
  <2>1. Stands(r) /\ pc[r] = "select" /\ position' = [position EXCEPT ![r] = @ + 1] /\ UNCHANGED <<cache, calls>>
    BY <1>2 DEF Go!Select, Stands, Go!At
  <2> DEFINE c == Go!RoutesOf(r)[position'[r]]
  <2>2. position'[r] = position[r] + 1
    BY <2>1, Begins
  <2>3. CASE Go!MoveOn(r, position'[r], "provider") /\ UNCHANGED <<circuits, attempt>>
    BY <2>1, <2>2, <2>3, GoMoves DEF Selects, GoesOn
  <2>4. CASE /\ c \in Adapters
             /\ Go!Ask(c)
             /\ IF Go!Allows(circuits[c])
                THEN Go!Goto(r, "invoke") /\ attempt' = [attempt EXCEPT ![r] = 1] /\ UNCHANGED result
                ELSE Go!MoveOn(r, position'[r], "circuit-open") /\ UNCHANGED attempt
    <3>1. circuits' = [circuits EXCEPT ![c] = Admitted(@)]
      BY <2>4, GoSame DEF Go!Ask
    <3> HIDE DEF c
    <3>2. \/ Goto(r, "invoke") /\ attempt' = [attempt EXCEPT ![r] = 1] /\ UNCHANGED result
          \/ MovesOn(r, position[r] + 1, "circuit-open") /\ UNCHANGED attempt
          \/ Ended(r) /\ Settles(r, "cancelled") /\ UNCHANGED attempt
      BY <2>2, <2>4, GoMoves
    <3>3. Selects(r)
      BY <2>1, <2>4, <3>1, <3>2 DEF Selects
    <3> QED
      BY <2>1, <3>3 DEF GoesOn
  <2> QED
    BY <1>2, <2>3, <2>4 DEF Go!Select
<1>3. ASSUME NEW r \in Requests, Go!Invoke(r) PROVE GoesOn(r)
  <2>1. Stands(r) /\ Invokes(r)
    BY <1>3, GoSame, GoMoves DEF Go!Invoke, Stands, Invokes, Go!At, Go!Ended
  <2> QED
    BY <2>1 DEF GoesOn
<1>4. ASSUME NEW r \in Requests, Go!Reply(r) PROVE GoesOn(r)
  <2>1. place[r] = "inside" /\ pc[r] \in {"calling", "expiring"} /\ calls' = calls \ Current(r)
    BY <1>4, GoSame DEF Go!Reply, Go!At
  <2>2. PICK reply \in Replies :
          IF reply = Go!Answer
          THEN /\ Go!Goto(r, "checking")
               /\ UNCHANGED <<context, active, place, position, attempt, result, recorded, circuits, cache>>
          ELSE Go!Fail(r, reply)
    BY <1>4 DEF Go!Reply
  <2>3. CASE reply = Answer
    <3>1. Stands(r) /\ CallAnswers(r)
      BY <2>1, <2>2, <2>3, GoSame, GoMoves DEF Stands, CallAnswers
    <3> QED
      BY <3>1 DEF GoesOn
  <2>4. CASE reply # Answer
    <3>1. Stands(r) /\ Fails(r, reply)
      BY <2>1, <2>2, <2>4, GoSame, GoMoves DEF Stands
    <3>2. LetsGo(r) /\ reply \in FailuresOf(r)
      BY <2>1, <2>4 DEF LetsGo, FailuresOf
    <3> QED
      BY <2>1, <3>1, <3>2 DEF CallFails, GoesOn
  <2> QED
    BY <2>3, <2>4
<1>5. ASSUME NEW r \in Requests, Go!Wake(r) PROVE GoesOn(r)
  <2>1. Stands(r) /\ Wakes(r)
    BY <1>5, GoSame, GoMoves DEF Go!Wake, Stands, Wakes, Go!At
  <2> QED
    BY <2>1 DEF GoesOn
<1>6. ASSUME NEW r \in Requests, Go!Unrepairable(r) \/ Go!Refuse(r) \/ Go!Accept(r) PROVE GoesOn(r)
  <2>1. Stands(r)
    BY <1>6 DEF Go!Unrepairable, Go!Refuse, Go!Accept, Stands, Go!At
  <2>2. CASE Go!Unrepairable(r)
    BY <2>1, <2>2, GoMoves DEF Go!Unrepairable, Checks, GoesOn, Go!At
  <2>3. CASE Go!Refuse(r)
    BY <2>1, <2>3, GoSame, GoMoves DEF Go!Refuse, Checks, GoesOn, Go!At
  <2>4. CASE Go!Accept(r)
    BY <2>1, <2>4, GoSame, GoMoves DEF Go!Accept, Go!Close, Checks, GoesOn, Go!At
  <2> QED
    BY <1>6, <2>2, <2>3, <2>4
<1>7. ASSUME NEW r \in Requests, Go!Store(r) PROVE GoesOn(r)
  <2>1. Stands(r) /\ Stores(r)
    BY <1>7, GoMoves DEF Go!Store, Stands, Stores, Go!At
  <2> QED
    BY <2>1 DEF GoesOn
<1>8. ASSUME NEW r \in Requests, Go!Done(r) PROVE GoesOn(r)
  <2>1. place[r] = "inside" /\ pc[r] = "calling" /\ LetsGo(r)
    BY <1>8, GoSame DEF Go!Done, Go!At, LetsGo
  <2>2. PICK f \in FailuresOf(r) : Go!Fail(r, f)
    BY <1>8, GoSame DEF Go!Done, FailuresOf, Ended
  <2>3. Stands(r) /\ Fails(r, f)
    BY <2>1, <2>2, GoMoves DEF Stands
  <2> QED
    BY <2>1, <2>2, <2>3 DEF CallFails, GoesOn
<1>9. ASSUME NEW r \in Requests, Go!Report(r) PROVE Ends(r)
  <2>1. Leaves(r)
    BY <1>9 DEF Go!Report, Go!Leave, Leaves, Go!Waiting, Waiting
  <2> QED
    BY <1>9, <2>1, GoMoves DEF Go!Report, Go!At, Ends
<1>10. ASSUME NEW r \in Requests, Go!Enter(r) \/ Go!Withdraw(r) PROVE Passes(r)
  BY <1>10 DEF Go!Enter, Go!Withdraw, Passes
<1>11. ASSUME NEW c \in Callers, Go!End(c) PROVE Elsewhere
  <2>1. PICK C \in SUBSET calls : calls' = Telling(C)
    BY <1>11 DEF Go!End, Go!Telling, Telling
  <2>2. PICK how \in CanEnd[c] : context' = [context EXCEPT ![c] = how]
    BY <1>11 DEF Go!End
  <2>3. how \in {"cancelled", "expired"}
    BY <2>2, CallerAssumption
  <2> QED
    BY <1>11, <2>1, <2>2, <2>3 DEF Go!End, Elsewhere
<1>12. ASSUME Go!CallEnds PROVE Elsewhere
  <2>1. PICK c \in calls : Go!Abandoned(c) /\ calls' = calls \ {c}
    BY <1>12 DEF Go!CallEnds
  <2>2. Abandoned(c)
    BY <2>1 DEF Go!Abandoned, Abandoned, Go!Current, Current
  <2> QED
    BY <1>12, <2>1, <2>2 DEF Go!CallEnds, Elsewhere
<1>13. ASSUME Go!Tick PROVE Elsewhere
  <2>1. \A b : Go!Aged(b) = Aged(b)
    BY DEF Go!Aged, Aged
  <2> QED
    BY <1>13, <2>1 DEF Go!Tick, Elsewhere
<1> QED
  BY <1>1, <1>2, <1>3, <1>4, <1>5, <1>6, <1>7, <1>8, <1>9, <1>10, <1>11, <1>12, <1>13 DEF Step, Go!Next, Go!Proceed

\* So is what a thread does in the Rust runtime.
LEMMA RustSteps ==
  ASSUME ContractInv, language = "rust", UNCHANGED language, Rust!Next
  PROVE  Step
<1>1. ASSUME NEW r \in Requests, Rust!Screen(r) PROVE GoesOn(r)
  <2>1. Stands(r) /\ Screens(r)
    BY <1>1, RustMoves DEF Rust!Screen, Stands, Screens, Rust!At
  <2> QED
    BY <2>1 DEF GoesOn
<1>2. ASSUME NEW r \in Requests, Rust!Select(r) PROVE GoesOn(r)
  <2>1. Stands(r) /\ pc[r] = "select" /\ position' = [position EXCEPT ![r] = @ + 1] /\ UNCHANGED <<cache, calls>>
    BY <1>2 DEF Rust!Select, Stands, Rust!At
  <2> DEFINE c == Rust!RoutesOf(r)[position'[r]]
  <2>2. position'[r] = position[r] + 1
    BY <2>1, Begins
  <2>3. CASE Rust!MoveOn(r, position'[r], "provider") /\ UNCHANGED <<circuits, attempt>>
    BY <2>1, <2>2, <2>3, RustMoves DEF Selects, GoesOn
  <2>4. CASE /\ c \in Adapters
             /\ Rust!Ask(c)
             /\ IF Rust!Allows(circuits[c])
                THEN Rust!Attempt(r, 1)
                ELSE Rust!MoveOn(r, position'[r], "circuit-open") /\ UNCHANGED attempt
    <3>1. circuits' = [circuits EXCEPT ![c] = Admitted(@)]
      BY <2>4, RustSame DEF Rust!Ask
    <3> HIDE DEF c
    <3>2. \/ Goto(r, "invoke") /\ attempt' = [attempt EXCEPT ![r] = 1] /\ UNCHANGED result
          \/ MovesOn(r, position[r] + 1, "circuit-open") /\ UNCHANGED attempt
          \/ Ended(r) /\ Settles(r, "cancelled") /\ UNCHANGED attempt
      BY <2>2, <2>4, RustMoves, RustSame DEF Rust!Attempt
    <3>3. Selects(r)
      BY <2>1, <2>4, <3>1, <3>2 DEF Selects
    <3> QED
      BY <2>1, <3>3 DEF GoesOn
  <2> QED
    BY <1>2, <2>3, <2>4 DEF Rust!Select
<1>3. ASSUME NEW r \in Requests, Rust!Invoke(r) PROVE GoesOn(r)
  <2>1. place[r] = "inside" /\ pc[r] = "invoke"
    BY <1>3 DEF Rust!Invoke, Rust!At
  <2>2. CASE Rust!Ended(r)
    <3>1. Stands(r) /\ Fails(r, Cancelled) /\ LetsGo(r) /\ Cancelled \in FailuresOf(r)
      BY <1>3, <2>1, <2>2, RustSame, RustMoves DEF Rust!Invoke, Stands, LetsGo, FailuresOf
    <3> QED
      BY <2>1, <3>1 DEF CallFails, GoesOn
  <2>3. CASE ~Rust!Ended(r)
    <3>1. Stands(r) /\ Invokes(r)
      BY <1>3, <2>1, <2>3, RustSame, RustMoves DEF Rust!Invoke, Stands, Invokes
    <3> QED
      BY <3>1 DEF GoesOn
  <2> QED
    BY <2>2, <2>3
<1>4. ASSUME NEW r \in Requests, Rust!Reply(r) PROVE GoesOn(r)
  <2>1. place[r] = "inside" /\ pc[r] \in {"calling", "expiring"} /\ calls' = calls \ Current(r)
    BY <1>4, RustSame DEF Rust!Reply, Rust!At
  <2>2. PICK reply \in Replies :
          IF reply = Rust!Answer
          THEN /\ Rust!Goto(r, "checking")
               /\ UNCHANGED <<context, active, place, position, attempt, result, recorded, circuits, cache>>
          ELSE Rust!Fail(r, reply)
    BY <1>4 DEF Rust!Reply
  <2>3. CASE reply = Answer
    <3>1. Stands(r) /\ CallAnswers(r)
      BY <2>1, <2>2, <2>3, RustSame, RustMoves DEF Stands, CallAnswers
    <3> QED
      BY <3>1 DEF GoesOn
  <2>4. CASE reply # Answer
    <3>1. Stands(r) /\ Fails(r, reply)
      BY <2>1, <2>2, <2>4, RustSame, RustMoves DEF Stands
    <3>2. LetsGo(r) /\ reply \in FailuresOf(r)
      BY <2>1, <2>4 DEF LetsGo, FailuresOf
    <3> QED
      BY <2>1, <3>1, <3>2 DEF CallFails, GoesOn
  <2> QED
    BY <2>3, <2>4
<1>5. ASSUME NEW r \in Requests, Rust!Wake(r) PROVE GoesOn(r)
  <2>1. Stands(r) /\ Wakes(r)
    BY <1>5, RustSame, RustMoves DEF Rust!Wake, Stands, Wakes, Rust!At, Rust!Attempt
  <2> QED
    BY <2>1 DEF GoesOn
<1>6. ASSUME NEW r \in Requests, Rust!Unrepairable(r) \/ Rust!Refuse(r) \/ Rust!Accept(r) PROVE GoesOn(r)
  <2>1. Stands(r)
    BY <1>6 DEF Rust!Unrepairable, Rust!Refuse, Rust!Accept, Stands, Rust!At
  <2>2. CASE Rust!Unrepairable(r)
    BY <2>1, <2>2, RustMoves DEF Rust!Unrepairable, Checks, GoesOn, Rust!At
  <2>3. CASE Rust!Refuse(r)
    BY <2>1, <2>3, RustSame, RustMoves DEF Rust!Refuse, Checks, GoesOn, Rust!At
  <2>4. CASE Rust!Accept(r)
    BY <2>1, <2>4, RustSame, RustMoves DEF Rust!Accept, Rust!Close, Checks, GoesOn, Rust!At
  <2> QED
    BY <1>6, <2>2, <2>3, <2>4
<1>7. ASSUME NEW r \in Requests, Rust!Store(r) PROVE GoesOn(r)
  <2>1. Stands(r) /\ Stores(r)
    BY <1>7, RustMoves DEF Rust!Store, Stands, Stores, Rust!At
  <2> QED
    BY <2>1 DEF GoesOn
<1>8. ASSUME NEW r \in Requests, Rust!Interrupted(r) PROVE GoesOn(r)
  <2>1. place[r] = "inside" /\ pc[r] = "calling" /\ LetsGo(r)
    BY <1>8, RustSame DEF Rust!Interrupted, Rust!At, LetsGo
  <2>2. PICK f \in FailuresOf(r) : Rust!Fail(r, f)
    BY <1>8, RustSame DEF Rust!Interrupted, FailuresOf
  <2>3. Stands(r) /\ Fails(r, f)
    BY <2>1, <2>2, RustMoves DEF Stands
  <2> QED
    BY <2>1, <2>2, <2>3 DEF CallFails, GoesOn
<1>9. ASSUME NEW r \in Requests, Rust!Deadline(r) PROVE GoesOn(r)
  <2>1. place[r] = "inside" /\ pc[r] = "calling" /\ LetsGo(r)
    BY <1>9, RustSame DEF Rust!Deadline, Rust!At, LetsGo
  <2>2. PICK f \in FailuresOf(r) : Rust!Fail(r, f)
    BY <1>9, RustSame DEF Rust!Deadline, FailuresOf
  <2>3. Stands(r) /\ Fails(r, f)
    BY <2>1, <2>2, RustMoves DEF Stands
  <2> QED
    BY <2>1, <2>2, <2>3 DEF CallFails, GoesOn
<1>10. ASSUME NEW r \in Requests, Rust!Report(r) PROVE Ends(r)
  <2>1. Leaves(r)
    BY <1>10 DEF Rust!Report, Rust!Leave, Leaves
  <2> QED
    BY <1>10, <2>1, RustMoves DEF Rust!Report, Rust!At, Ends
<1>11. ASSUME NEW r \in Requests, Rust!Enter(r) PROVE Passes(r)
  BY <1>11 DEF Rust!Enter, Passes
<1>12. ASSUME NEW c \in Callers, Rust!Cancel(c) PROVE Elsewhere
  <2>1. calls' = Telling({})
    BY <1>12 DEF Rust!Cancel, Telling
  <2> QED
    BY <1>12, <2>1 DEF Rust!Cancel, Elsewhere
<1>13. ASSUME Rust!CallEnds PROVE Elsewhere
  <2>1. PICK c \in calls : Rust!Abandoned(c) /\ calls' = calls \ {c}
    BY <1>13 DEF Rust!CallEnds
  <2>2. Abandoned(c)
    BY <2>1 DEF Rust!Abandoned, Abandoned, Rust!Current, Current
  <2> QED
    BY <1>13, <2>1, <2>2 DEF Rust!CallEnds, Elsewhere
<1>14. ASSUME Rust!Tick PROVE Elsewhere
  <2>1. \A b : Rust!Aged(b) = Aged(b)
    BY DEF Rust!Aged, Aged
  <2> QED
    BY <1>14, <2>1 DEF Rust!Tick, Elsewhere
<1> QED
  BY <1>1, <1>2, <1>3, <1>4, <1>5, <1>6, <1>7, <1>8, <1>9, <1>10, <1>11, <1>12, <1>13, <1>14 DEF Step, Rust!Next, Rust!Proceed

-----------------------------------------------------------------------------
(* The theorems.                                                           *)

\* A runtime starts with nobody at its gate.
LEMMA InitFits == Init => ContractInv
<1> SUFFICES ASSUME Init PROVE ContractInv
  OBVIOUS
<1>1. Start
  BY DEF Init, Python!Init, Go!Init, Rust!Init, Python!Start, Go!Start, Rust!Start, Start,
     Python!Closed, Go!Closed, Rust!Closed, Closed
<1>2. Ranges
  BY <1>1, BreakerTypes, BreakerAssumption, RuntimeAssumption
     DEF Start, Ranges, Places, Steps, Outcomes, FailureKinds, Closed, Breakers
<1>3. SlotsTaken
  <2>1. Inside = {} /\ active = 0
    BY <1>1 DEF Inside, Start
  <2> QED
    BY <2>1, FS_EmptySet, RuntimeAssumption DEF SlotsTaken
<1>4. CallsFit
  BY <1>1 DEF Start, CallsFit, CallTypes, UntoldIsAwaited, CallIsUnderWay, PythonAwaits
<1>5. ASSUME NEW r \in Requests PROVE Placed(r) /\ Meant(r) /\ Recorded(r)
  <2>1. pc[r] = "screen" /\ position[r] = 0 /\ result[r] = "provider" /\ Len(RoutesOf(r)) > 0
    BY <1>1, RoutesFit DEF Start
  <2> QED
    BY <2>1, RoutesFit DEF Placed, Meant, Recorded, PolicyKinds
<1> QED
  BY <1>2, <1>3, <1>4, <1>5 DEF ContractInv

\* Whatever happens is a step of the kinds above.
LEMMA NextSteps == ContractInv /\ [Next]_contractVars => Step \/ UNCHANGED contractVars
  BY PythonSteps, GoSteps, RustSteps DEF Next

\* Nothing happening changes nothing.
LEMMA StutterKeeps == ContractInv /\ UNCHANGED contractVars => ContractInv'
<1> SUFFICES ASSUME ContractInv, UNCHANGED contractVars PROVE ContractInv'
  OBVIOUS
<1>1. UNCHANGED <<language, context, active, place, pc, position, attempt, result, recorded, circuits, cache, calls>>
  BY DEF contractVars, vars
<1>2. CallsFit'
  BY <1>1, SameFits DEF ContractInv
<1>3. Ranges' /\ SlotsTaken'
  BY <1>1 DEF ContractInv, Ranges, SlotsTaken, Inside
<1>4. ASSUME NEW q \in Requests PROVE Placed(q)' /\ Meant(q)' /\ Recorded(q)'
  BY <1>1 DEF ContractInv, Placed, Meant, Recorded, Ended
<1> QED
  BY <1>2, <1>3, <1>4 DEF ContractInv

\* The invariant holds in every language.
THEOREM ContractIsKept == Spec => []ContractInv
<1>1. ContractInv /\ [Next]_contractVars => ContractInv'
  BY NextSteps, StepKeeps, StutterKeeps
<1> QED
  BY <1>1, InitFits, PTL DEF Spec

\* The caller, the EvaluationPort and the policies see one outcome of a request in
\* Python, in Go and in Rust (execute of the three runtimes).
THEOREM RuntimesAgree == Spec => []OutcomesAgree
  BY ContractIsKept, ContractMeans, PTL

\* An adapter call that nobody waits for has been told to stop, and in Python there
\* are no more calls than slots.
THEOREM CallsAreTold == Spec => []CallsAreAccountedFor
  BY ContractIsKept, ContractMeans, PTL

-----------------------------------------------------------------------------
(* The gate of each runtime is a concurrency limit.                        *)

\* The place of a request as the limit sees it.
Seat == [r \in Requests |-> IF place[r] = "granted" THEN "inside" ELSE place[r]]

\* A request that leaves does so there, with the one its slot is handed to.
LEMMA LeavesSeat ==
  ASSUME ContractInv, NEW r \in Requests, place[r] \in {"inside", "granted"}, Leaves(r)
  PROVE  Slots!Next
<1>1. place \in [Requests -> Places]
  BY DEF ContractInv, Ranges
<1>2. CASE place' = [place EXCEPT ![r] = "left"] /\ active' = active - 1
  <2>1. Seat' = [q \in Requests |-> IF q = r THEN "left" ELSE IF q \in {} THEN "inside" ELSE Seat[q]]
    BY <1>1, <1>2 DEF Seat
  <2>2. Cardinality({}) <= 1
    BY FS_EmptySet
  <2>3. Slots!Leave(r)
    BY <2>1, <2>2 DEF Slots!Leave, Slots!Cardinality, Cardinality, Seat
  <2> QED
    BY <2>3 DEF Slots!Next
<1>3. CASE \E q \in Waiting, p \in {"inside", "granted"} :
             place' = [place EXCEPT ![r] = "left", ![q] = p] /\ active' = active
  <2>1. PICK q \in Waiting, p \in {"inside", "granted"} : place' = [place EXCEPT ![r] = "left", ![q] = p]
    BY <1>3
  <2>2. q \in Requests /\ q # r /\ place[q] = "waiting"
    BY DEF Waiting
  <2>3. Seat' = [x \in Requests |-> IF x = r THEN "left" ELSE IF x \in {q} THEN "inside" ELSE Seat[x]]
    BY <1>1, <2>1, <2>2 DEF Seat
  <2>4. Seat[r] = "inside" /\ {q} \in SUBSET {x \in Requests : Seat[x] = "waiting"}
    BY <2>2 DEF Seat
  <2>5. Cardinality({q}) <= 1
    BY FS_Singleton
  <2>6. Slots!Leave(r)
    BY <2>3, <2>4, <2>5 DEF Slots!Leave, Slots!Cardinality, Cardinality, Seat
  <2> QED
    BY <2>6 DEF Slots!Next
<1> QED
  BY <1>2, <1>3 DEF Leaves

\* So does whatever happens at the gate.
LEMMA PassesSeat == ASSUME ContractInv, NEW r \in Requests, Passes(r) PROVE Slots!Next \/ Seat' = Seat
<1>1. place \in [Requests -> Places] /\ active = Cardinality(Inside)
  BY DEF ContractInv, Ranges, SlotsTaken
<1>2. CASE /\ place[r] \in {"outside", "waiting"}
           /\ active < MaxConcurrency
           /\ place' = [place EXCEPT ![r] = "inside"]
  <2>1. Seat' = [Seat EXCEPT ![r] = "inside"] /\ Seat[r] \in {"outside", "waiting"}
    BY <1>1, <1>2 DEF Seat
  <2>2. {q \in Requests : Seat[q] = "inside"} = Inside
    BY DEF Seat, Inside
  <2>3. Cardinality({q \in Requests : Seat[q] = "inside"}) < MaxConcurrency
    BY <1>1, <1>2, <2>2
  <2>4. Slots!Enter(r)
    BY <2>1, <2>3 DEF Slots!Enter, Slots!Inside, Slots!Cardinality, Cardinality, Seat
  <2> QED
    BY <2>4 DEF Slots!Next
<1>3. CASE place[r] \in {"outside", "waiting"} /\ place' = [place EXCEPT ![r] = "waiting"]
  <2>1. CASE place[r] = "waiting"
    BY <1>1, <1>3, <2>1 DEF Seat
  <2>2. CASE place[r] = "outside"
    <3>1. Seat' = [Seat EXCEPT ![r] = "waiting"] /\ Seat[r] = "outside"
      BY <1>1, <1>3, <2>2 DEF Seat
    <3>2. Slots!Knock(r)
      BY <3>1 DEF Slots!Knock, Seat
    <3> QED
      BY <3>2 DEF Slots!Next
  <2> QED
    BY <1>3, <2>1, <2>2
<1>4. CASE place[r] \in {"outside", "waiting"} /\ place' = [place EXCEPT ![r] = "refused"]
  <2>1. Seat' = [q \in Requests |-> IF q \in {r} THEN "refused" ELSE Seat[q]] /\ Seat[r] \in {"outside", "waiting"}
    BY <1>1, <1>4 DEF Seat
  <2>2. Slots!TurnAway({r})
    BY <2>1 DEF Slots!TurnAway, Seat
  <2> QED
    BY <2>2 DEF Slots!Next
<1>5. CASE place[r] = "granted" /\ place' = [place EXCEPT ![r] = "inside"]
  BY <1>1, <1>5 DEF Seat
<1>6. CASE place[r] = "granted" /\ Leaves(r)
  BY <1>6, LeavesSeat
<1> QED
  BY <1>2, <1>3, <1>4, <1>5, <1>6 DEF Passes

\* The gate of the three runtimes keeps to the concurrency limit, on every way out
\* of execute and under cancellation at any moment: every step is one of
\* BoundedSlots, or none.
THEOREM SlotsAreBounded == Spec => Slots!Bounded
<1>1. Init => Slots!Init
  BY DEF Init, Python!Init, Go!Init, Rust!Init, Python!Start, Go!Start, Rust!Start, Slots!Init
<1>2. ContractInv /\ [Next]_contractVars => Slots!Next \/ Seat' = Seat
  <2> SUFFICES ASSUME ContractInv, [Next]_contractVars PROVE Slots!Next \/ Seat' = Seat
    OBVIOUS
  <2>1. CASE Step
    <3>1. CASE Elsewhere
      BY <3>1 DEF Elsewhere, Seat
    <3>2. ASSUME NEW r \in Requests, GoesOn(r) PROVE Slots!Next \/ Seat' = Seat
      BY <3>2 DEF GoesOn, Stands, Seat
    <3>3. ASSUME NEW r \in Requests, Ends(r) PROVE Slots!Next \/ Seat' = Seat
      BY <3>3, LeavesSeat DEF Ends
    <3> QED
      BY <2>1, <3>1, <3>2, <3>3, PassesSeat DEF Step
  <2>2. CASE UNCHANGED contractVars
    BY <2>2 DEF contractVars, vars, Seat
  <2> QED
    BY <2>1, <2>2, NextSteps
<1>3. ContractInv /\ [Next]_contractVars
        => [Slots!Next]_([r \in Requests |-> IF place[r] = "granted" THEN "inside" ELSE place[r]])
  BY <1>2 DEF Seat
<1> QED
  BY <1>1, <1>3, ContractIsKept, PTL DEF Spec, Slots!Bounded
=============================================================================
