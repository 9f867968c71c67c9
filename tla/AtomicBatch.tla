---------------------------- MODULE AtomicBatch ----------------------------
(***************************************************************************)
(* What a batch of file writes promises: a compare-and-swap over several   *)
(* files.  A batch names the files it replaces and the content it expects  *)
(* in each.  In one step it either finds all of them and replaces all of   *)
(* them, or it is rejected and replaces none.                              *)
(*                                                                         *)
(* The promise is that of WorkspacePort.writeBatchAtomic                   *)
(* (src/application/ports.ts); PlanTransaction shows that                  *)
(* NodeWorkspace.writeBatchAtomic keeps it when nothing else writes to the *)
(* same files during its commit window and no rollback step fails.         *)
(***************************************************************************)

CONSTANTS
  Paths,     \* the files of the workspace
  Txns,      \* the batches; a batch's name is also the content it writes
  Edits,     \* the contents that other programs may write
  Original,  \* the content of the files that exist at the start
  Absent     \* the "content" of a file that does not exist

VARIABLES
  store,     \* store[p]: the content of file p
  writes,    \* writes[t]: the files batch t replaces; {} until it is planned
  previous,  \* previous[t][p]: what batch t expects in p, for p \in writes[t]
  verdict    \* verdict[t]: "pending", "committed" or "rejected"

vars == <<store, writes, previous, verdict>>

Files == {Original, Absent} \cup Txns \cup Edits

Init ==
  /\ store \in [Paths -> {Original, Absent}]
  /\ writes = [t \in Txns |-> {}]
  /\ previous = [t \in Txns |-> [p \in Paths |-> Absent]]
  /\ verdict = [t \in Txns |-> "pending"]

\* Another program replaces or deletes one file.
Edit(p) ==
  /\ \E c \in Edits \cup {Absent} : store' = [store EXCEPT ![p] = c]
  /\ UNCHANGED <<writes, previous, verdict>>

\* A batch comes with some expectation, right or wrong.
Plan(t, W) ==
  /\ writes[t] = {}
  /\ writes' = [writes EXCEPT ![t] = W]
  /\ \E seen \in [Paths -> Files] : previous' = [previous EXCEPT ![t] = seen]
  /\ UNCHANGED <<store, verdict>>

\* The batch finds every expected content and replaces all of it.
Commit(t) ==
  /\ verdict[t] = "pending"
  /\ writes[t] # {}
  /\ \A p \in writes[t] : store[p] = previous[t][p]
  /\ store' = [p \in Paths |-> IF p \in writes[t] THEN t ELSE store[p]]
  /\ verdict' = [verdict EXCEPT ![t] = "committed"]
  /\ UNCHANGED <<writes, previous>>

\* The batch gives up (a stale expectation, an I/O error) and changes nothing.
Reject(t) ==
  /\ verdict[t] = "pending"
  /\ writes[t] # {}
  /\ verdict' = [verdict EXCEPT ![t] = "rejected"]
  /\ UNCHANGED <<store, writes, previous>>

Next ==
  \/ \E p \in Paths : Edit(p)
  \/ \E t \in Txns : \/ \E W \in (SUBSET Paths) \ {{}} : Plan(t, W)
                     \/ Commit(t)
                     \/ Reject(t)

\* No batch is ever seen half done.
Atomic == Init /\ [][Next]_vars

\* And a planned batch is decided.
Spec ==
  /\ Atomic
  /\ \A t \in Txns : WF_vars(Commit(t) \/ Reject(t))
=============================================================================
