-------------------------- MODULE PortableRuntime --------------------------
(***************************************************************************)
(* What the models of the Python, Go and Rust runtimes have in common: the *)
(* state of a HarnessRuntime and of the requests in it, and the adapter    *)
(* calls that are under way, those included that the runtime no longer     *)
(* waits for.  RuntimeContract states what the three promise.              *)
(***************************************************************************)
EXTENDS RuntimeRequests

CONSTANTS
  Callers,    \* who executes requests: a context, a task or a token
  CallerOf,   \* CallerOf[r]: the one of r; a batch shares one
  CanEnd      \* CanEnd[c]: how the caller may end, of "cancelled" and "expired"

ASSUME CallerAssumption ==
  /\ CallerOf \in [Requests -> Callers]
  /\ CanEnd \in [Callers -> SUBSET {"cancelled", "expired"}]

VARIABLES
  context,   \* context[c]: "live", or how c has ended
  active,    \* the slots of the gate that are taken
  place,     \* place[r]: where r is
  pc,        \* pc[r]: where its execution is
  position,  \* position[r]: the index of its route, from 1
  attempt,   \* attempt[r]
  result,    \* result[r]: the kind of its last failure, or "success"
  recorded,  \* recorded[r]: what the EvaluationPort was given for it
  circuits,  \* the breaker of each route
  cache,     \* the keys with a value
  calls      \* the adapter calls under way

vars == <<context, active, place, pc, position, attempt, result, recorded, circuits, cache, calls>>

Steps == {"screen", "select", "invoke", "calling", "expiring", "checking", "storing",
          "sleeping", "reporting", "done"}

Start ==
  /\ context = [c \in Callers |-> "live"]
  /\ active = 0
  /\ place = [r \in Requests |-> "outside"]
  /\ pc = [r \in Requests |-> "screen"]
  /\ position = [r \in Requests |-> 0]
  /\ attempt = [r \in Requests |-> 0]
  /\ result = [r \in Requests |-> "provider"]
  /\ recorded = [r \in Requests |-> "nothing"]
  /\ circuits = [c \in Routes |-> Closed]
  /\ cache = {}
  /\ calls = {}

Ended(r) == context[CallerOf[r]] # "live"
Route(r) == RoutesOf(r)[position[r]]
At(r, step) == place[r] = "inside" /\ pc[r] = step
Goto(r, step) == pc' = [pc EXCEPT ![r] = step]
Waiting == {r \in Requests : place[r] = "waiting"}

\* The call that r waits for, and all calls as they are when those of R have
\* been told to stop.
Call(r, told) == [by |-> r, position |-> position[r], attempt |-> attempt[r], told |-> told]
Current(r) == {c \in calls : c.by = r /\ c.position = position[r] /\ c.attempt = attempt[r]}
Telling(C) == {IF c \in C THEN [c EXCEPT !.told = TRUE] ELSE c : c \in calls}

\* The call of a request that has stopped waiting for it comes to its end.
Abandoned(c) == ~(c \in Current(c.by) /\ pc[c.by] \in {"calling", "expiring"})
CallEnds ==
  /\ \E c \in calls : Abandoned(c) /\ calls' = calls \ {c}
  /\ UNCHANGED <<context, active, place, pc, position, attempt, result, recorded, circuits, cache>>

\* The clock goes on.
Tick ==
  /\ circuits' = [c \in Routes |-> Aged(circuits[c])]
  /\ circuits' # circuits
  /\ UNCHANGED <<context, active, place, pc, position, attempt, result, recorded, cache, calls>>
=============================================================================
