--------------------------- MODULE ConcurrencyGate ---------------------------
(***************************************************************************)
(* The ConcurrencyGate of the generated TypeScript runtime                 *)
(* (src/extensions/runtimes/typescript.ts): a counter of the slots in use  *)
(* and a queue of waiting requests.  A slot is handed over from the        *)
(* request that leaves to the first one in the queue; a request whose      *)
(* AbortSignal fires leaves the queue.  JavaScript runs every method, and  *)
(* all listeners of an abort, without interruption, so each is one step.   *)
(***************************************************************************)
EXTENDS Integers, Sequences, FiniteSets

CONSTANTS
  Requests,  \* the requests, each of which enters once
  Maximum,   \* options.maxConcurrency, which is at least 1
  Signals,   \* the abort signals
  SignalOf   \* SignalOf[r]: the signal of r; a batch shares one

VARIABLES
  aborted,  \* the signals that have fired
  active,   \* #active
  waiting,  \* #waiting
  place     \* place[r]: where r is

vars == <<aborted, active, waiting, place>>

Init ==
  /\ aborted = {}
  /\ active = 0
  /\ waiting = <<>>
  /\ place = [r \in Requests |-> "outside"]

Aborted(r) == SignalOf[r] \in aborted

\* The queue q without the waiters of the signal s, in the same order.
Without(q, s) ==
  LET kept[i \in 0 .. Len(q)] ==
        IF i = 0 THEN <<>>
        ELSE IF SignalOf[q[i]] = s THEN kept[i - 1]
        ELSE Append(kept[i - 1], q[i])
  IN  kept[Len(q)]

\* acquire.
Acquire(r) ==
  /\ place[r] = "outside"
  /\ IF Aborted(r)
     THEN /\ place' = [place EXCEPT ![r] = "refused"]
          /\ UNCHANGED <<active, waiting>>
     ELSE IF active < Maximum
     THEN /\ place' = [place EXCEPT ![r] = "inside"]
          /\ active' = active + 1
          /\ UNCHANGED waiting
     ELSE /\ place' = [place EXCEPT ![r] = "waiting"]
          /\ waiting' = Append(waiting, r)
          /\ UNCHANGED active
  /\ UNCHANGED aborted

\* Seeded fault: the promise is rejected but the waiter stays in the queue, and
\* release does not look at its signal.
Abort_StaysQueued(s) ==
  /\ s \notin aborted
  /\ aborted' = aborted \cup {s}
  /\ place' = [r \in Requests |->
                 IF SignalOf[r] = s /\ place[r] = "waiting" THEN "refused" ELSE place[r]]
  /\ UNCHANGED <<active, waiting>>

\* The signal s fires: the listeners take its waiters out of the queue.
Abort(s) ==
  /\ s \notin aborted
  /\ aborted' = aborted \cup {s}
  /\ waiting' = Without(waiting, s)
  /\ place' = [r \in Requests |->
                 IF SignalOf[r] = s /\ place[r] = "waiting" THEN "refused" ELSE place[r]]
  /\ UNCHANGED active

\* Seeded fault: a slot is given up although it is handed over as well.
Release_GivesTwice(r) ==
  /\ place[r] = "inside"
  /\ active' = active - 1
  /\ IF waiting = <<>>
     THEN /\ place' = [place EXCEPT ![r] = "left"]
          /\ UNCHANGED waiting
     ELSE /\ place' = [place EXCEPT ![r] = "left", ![Head(waiting)] = "inside"]
          /\ waiting' = Tail(waiting)
  /\ UNCHANGED aborted

\* Seeded fault: the slot is freed and nobody is woken.
Release_WakesNobody(r) ==
  /\ place[r] = "inside"
  /\ active' = active - 1
  /\ place' = [place EXCEPT ![r] = "left"]
  /\ UNCHANGED <<aborted, waiting>>

\* Seeded fault: pop in place of shift.
Release_LastFirst(r) ==
  /\ place[r] = "inside"
  /\ IF waiting = <<>>
     THEN /\ place' = [place EXCEPT ![r] = "left"]
          /\ active' = active - 1
          /\ UNCHANGED waiting
     ELSE /\ place' = [place EXCEPT ![r] = "left", ![waiting[Len(waiting)]] = "inside"]
          /\ waiting' = SubSeq(waiting, 1, Len(waiting) - 1)
          /\ UNCHANGED active
  /\ UNCHANGED aborted

\* release: the first waiter takes over the slot.  (None of them is aborted: an
\* abort empties the queue of its waiters before anything else can run.)
Release(r) ==
  /\ place[r] = "inside"
  /\ IF waiting = <<>>
     THEN /\ place' = [place EXCEPT ![r] = "left"]
          /\ active' = active - 1
          /\ UNCHANGED waiting
     ELSE /\ place' = [place EXCEPT ![r] = "left", ![Head(waiting)] = "inside"]
          /\ waiting' = Tail(waiting)
          /\ UNCHANGED active
  /\ UNCHANGED aborted

Next ==
  \/ \E r \in Requests : Acquire(r) \/ Release(r)
  \/ \E s \in Signals : Abort(s)

Spec == Init /\ [][Next]_vars

\* Whoever is inside leaves in the end; see HarnessRuntime for why.
FairSpec == Spec /\ \A r \in Requests : WF_vars(Release(r))

-----------------------------------------------------------------------------

Inside == {r \in Requests : place[r] = "inside"}
Queued == {waiting[i] : i \in 1 .. Len(waiting)}

\* The type invariant.  The queue holds the waiting requests, each once.
TypeOK ==
  /\ aborted \subseteq Signals
  /\ active \in 0 .. Maximum
  /\ waiting \in Seq(Requests)
  /\ place \in [Requests -> {"outside", "waiting", "inside", "refused", "left"}]
  /\ Queued = {r \in Requests : place[r] = "waiting"}
  /\ \A i, j \in 1 .. Len(waiting) : waiting[i] = waiting[j] => i = j

\* The counter is the number of requests inside: through every hand-over, abort
\* and release no slot is lost and none is used twice.
SlotsAreAccountedFor == active = Cardinality(Inside)

\* Nobody waits while a slot is free, and nobody waits whose signal has fired.
NoIdleSlot ==
  /\ waiting # <<>> => active = Maximum
  /\ \A r \in Queued : ~Aborted(r)

\* The gate is a concurrency limit: with the counter and the queue hidden, it
\* lets at most Maximum requests in and leaves nobody waiting forever.
Slots == INSTANCE BoundedSlots
ImplementsBoundedSlots == Slots!Spec

\* Slots are given in the order of arrival: nobody overtakes a waiting request.
FirstComeFirstServed ==
  [][\A q, r \in Requests :
       place[q] # "inside" /\ place'[q] = "inside" /\ place[r] = "waiting" /\ place'[r] = "waiting" =>
         \E i, j \in 1 .. Len(waiting) : i < j /\ waiting[i] = q /\ waiting[j] = r]_vars

\* No slot is lost, used twice or left idle, whatever is aborted and released in
\* whatever order.
GateInv == TypeOK /\ SlotsAreAccountedFor /\ NoIdleSlot
=============================================================================
