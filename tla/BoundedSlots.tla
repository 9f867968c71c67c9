---------------------------- MODULE BoundedSlots ----------------------------
(***************************************************************************)
(* What a concurrency limit promises: at most Maximum of the Requests are  *)
(* inside at a time, and one that wants to enter either does so in the end *)
(* or is turned away.                                                      *)
(***************************************************************************)
EXTENDS Integers, FiniteSets

CONSTANTS Requests, Maximum

VARIABLE place  \* place[r]: where r is

Places == {"outside", "waiting", "inside", "refused", "left"}

Init == place = [r \in Requests |-> "outside"]

Inside == {r \in Requests : place[r] = "inside"}

Knock(r) == place[r] = "outside" /\ place' = [place EXCEPT ![r] = "waiting"]

Enter(r) ==
  /\ place[r] \in {"outside", "waiting"}
  /\ Cardinality(Inside) < Maximum
  /\ place' = [place EXCEPT ![r] = "inside"]

TurnAway(R) ==
  /\ \A r \in R : place[r] \in {"outside", "waiting"}
  /\ place' = [r \in Requests |-> IF r \in R THEN "refused" ELSE place[r]]

\* A request leaves; its slot may go to one that waits, in the same step.
Leave(r) ==
  /\ place[r] = "inside"
  /\ \E next \in SUBSET {q \in Requests : place[q] = "waiting"} :
       /\ Cardinality(next) <= 1
       /\ place' = [q \in Requests |->
                      IF q = r THEN "left" ELSE IF q \in next THEN "inside" ELSE place[q]]

Next ==
  \/ \E r \in Requests : Knock(r) \/ Enter(r) \/ Leave(r)
  \/ \E R \in (SUBSET Requests) \ {{}} : TurnAway(R)

\* Nobody waits forever.
Served == \A r \in Requests : place[r] = "waiting" ~> place[r] \in {"inside", "refused", "left"}

\* What is safe about it, and all of it.
Bounded == Init /\ [][Next]_place
Spec == Bounded /\ Served
=============================================================================
