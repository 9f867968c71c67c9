----------------------- MODULE PlanTransaction_proofs -----------------------
(***************************************************************************)
(* Theorems about PlanTransaction, for any number of files, batches and    *)
(* edits, whatever may fail and wherever a process may die.                *)
(***************************************************************************)
EXTENDS PlanTransaction, TLAPS

\* What moving to the next file changes.
LEMMA AdvanceEffect ==
  ASSUME TypeOK, NEW t \in Txns, NEW p, NEW here, NEW then \in Phases \ {"idle"},
         Advance(t, p, here, then)
  PROVE  /\ phase' \in [Txns -> Phases]
         /\ todo' \in [Txns -> SUBSET Paths]
         /\ \A u \in Txns : /\ todo'[u] \subseteq writes[u]
                            /\ phase'[u] = "idle" => phase[u] = "idle"
<1>1. /\ todo \in [Txns -> SUBSET Paths] /\ writes \in [Txns -> SUBSET Paths]
      /\ phase \in [Txns -> Phases] /\ \A u \in Txns : todo[u] \subseteq writes[u]
  BY DEF TypeOK, Types, Bookkeeping
<1>2. CASE todo[t] = {p}
  BY <1>1, <1>2 DEF Advance
<1>3. CASE todo[t] # {p}
  <2>1. todo[t] \ {p} \in SUBSET Paths
    BY <1>1
  <2>2. todo' = [todo EXCEPT ![t] = todo[t] \ {p}] /\ phase[t] = here /\ phase' = phase
    BY <1>3 DEF Advance
  <2> QED
    BY <1>1, <2>1, <2>2
<1> QED
  BY <1>2, <1>3

\* The same of giving up: a failure, a stale plan or the death of the process.
LEMMA GiveUpEffect ==
  ASSUME TypeOK, NEW t \in Txns, NEW cause \in Outcomes, NEW then \in Phases \ {"idle"},
         GiveUp(t, cause, then)
  PROVE  /\ phase' \in [Txns -> Phases]
         /\ todo' \in [Txns -> SUBSET Paths]
         /\ outcome' \in [Txns -> Outcomes]
         /\ \A u \in Txns : /\ todo'[u] \subseteq writes[u]
                            /\ phase'[u] = "idle" => phase[u] = "idle"
  BY DEF TypeOK, Types, Bookkeeping, GiveUp

\* Every step keeps the variables in their types.
LEMMA TypesStep == TypeOK /\ [Next]_vars => Types'
<1> SUFFICES ASSUME TypeOK, [Next]_vars PROVE Types'
  OBVIOUS
<1> USE AdvanceEffect, GiveUpEffect DEF TypeOK, Types, Files, Contents, batch,
                                            Phases, Outcomes
<1>1. ASSUME NEW p \in Paths, Edit(p) PROVE Types'
  BY <1>1 DEF Edit
<1>2. ASSUME NEW t \in Txns, NEW W \in SUBSET Paths, Plan(t, W) PROVE Types'
  BY <1>2 DEF Plan
<1>3. ASSUME NEW t \in Txns, NEW p \in Paths, Preflight(t, p) PROVE Types'
  BY <1>3 DEF Preflight
<1>4. ASSUME NEW t \in Txns, NEW p \in Paths, PreflightFails(t, p) PROVE Types'
  BY <1>4 DEF PreflightFails
<1>5. ASSUME NEW t \in Txns, NEW p \in Paths, Stage(t, p) PROVE Types'
  BY <1>5 DEF Stage
<1>6. ASSUME NEW t \in Txns, NEW p \in Paths, Revalidate(t, p) PROVE Types'
  BY <1>6 DEF Revalidate
<1>7. ASSUME NEW t \in Txns, NEW p \in Paths, RevalidateFails(t, p) PROVE Types'
  BY <1>7 DEF RevalidateFails
<1>8. ASSUME NEW t \in Txns, NEW p \in Paths, BackUp(t, p) PROVE Types'
  BY <1>8 DEF BackUp
<1>9. ASSUME NEW t \in Txns, NEW p \in Paths, Install(t, p) PROVE Types'
  BY <1>9 DEF Install
<1>10. ASSUME NEW t \in Txns, NEW p \in Paths, CommitFails(t, p) PROVE Types'
  BY <1>10 DEF CommitFails
<1>11. ASSUME NEW t \in Txns, NEW p \in Paths, RollbackRemove(t, p) PROVE Types'
  BY <1>11 DEF RollbackRemove
<1>12. ASSUME NEW t \in Txns, NEW p \in Paths, RollbackRestore(t, p) PROVE Types'
  BY <1>12 DEF RollbackRestore
<1>13. ASSUME NEW t \in Txns, NEW p \in Paths, RollbackFails(t, p) PROVE Types'
  BY <1>13 DEF RollbackFails
<1>14. ASSUME NEW t \in Txns, StageFails(t) PROVE Types'
  BY <1>14 DEF StageFails
<1>15. ASSUME NEW t \in Txns, Cleanup(t) PROVE Types'
  BY <1>15 DEF Cleanup
<1>16. ASSUME NEW t \in Txns, RollbackDone(t) PROVE Types'
  BY <1>16 DEF RollbackDone
<1>17. ASSUME NEW t \in Txns, Sweep(t) PROVE Types'
  BY <1>17 DEF Sweep
<1>18. ASSUME NEW t \in Txns, Crash(t) PROVE Types'
  BY <1>18 DEF Crash
<1>19. CASE UNCHANGED vars
  BY <1>19 DEF vars
<1> QED
  BY <1>1, <1>2, <1>3, <1>4, <1>5, <1>6, <1>7, <1>8, <1>9, <1>10,
     <1>11, <1>12, <1>13, <1>14, <1>15, <1>16, <1>17, <1>18, <1>19 DEF Next, Run

\* Every step of every batch leaves the loops, the .tmp files and the commit
\* records of each batch within the files that it writes.
LEMMA BookkeepingStep ==
  ASSUME TypeOK, [Next]_vars, NEW u \in Txns PROVE Bookkeeping(u)'
<1> USE AdvanceEffect, GiveUpEffect DEF TypeOK, Types, Bookkeeping, IsFirst,
                                            batch, Phases, Outcomes
<1>1. ASSUME NEW p \in Paths, Edit(p) PROVE Bookkeeping(u)'
  BY <1>1 DEF Edit
<1>2. ASSUME NEW t \in Txns, NEW W \in SUBSET Paths, Plan(t, W) PROVE Bookkeeping(u)'
  BY <1>2 DEF Plan
<1>3. ASSUME NEW t \in Txns, NEW p \in Paths, Preflight(t, p) PROVE Bookkeeping(u)'
  BY <1>3 DEF Preflight
<1>4. ASSUME NEW t \in Txns, NEW p \in Paths, PreflightFails(t, p) PROVE Bookkeeping(u)'
  BY <1>4 DEF PreflightFails
<1>5. ASSUME NEW t \in Txns, NEW p \in Paths, Stage(t, p) PROVE Bookkeeping(u)'
  BY <1>5 DEF Stage
<1>6. ASSUME NEW t \in Txns, NEW p \in Paths, Revalidate(t, p) PROVE Bookkeeping(u)'
  BY <1>6 DEF Revalidate
<1>7. ASSUME NEW t \in Txns, NEW p \in Paths, RevalidateFails(t, p) PROVE Bookkeeping(u)'
  BY <1>7 DEF RevalidateFails
<1>8. ASSUME NEW t \in Txns, NEW p \in Paths, BackUp(t, p) PROVE Bookkeeping(u)'
  BY <1>8 DEF BackUp
<1>9. ASSUME NEW t \in Txns, NEW p \in Paths, Install(t, p) PROVE Bookkeeping(u)'
  BY <1>9 DEF Install
<1>10. ASSUME NEW t \in Txns, NEW p \in Paths, CommitFails(t, p) PROVE Bookkeeping(u)'
  BY <1>10 DEF CommitFails
<1>11. ASSUME NEW t \in Txns, NEW p \in Paths, RollbackRemove(t, p) PROVE Bookkeeping(u)'
  BY <1>11 DEF RollbackRemove
<1>12. ASSUME NEW t \in Txns, NEW p \in Paths, RollbackRestore(t, p) PROVE Bookkeeping(u)'
  BY <1>12 DEF RollbackRestore
<1>13. ASSUME NEW t \in Txns, NEW p \in Paths, RollbackFails(t, p) PROVE Bookkeeping(u)'
  BY <1>13 DEF RollbackFails
<1>14. ASSUME NEW t \in Txns, StageFails(t) PROVE Bookkeeping(u)'
  BY <1>14 DEF StageFails
<1>15. ASSUME NEW t \in Txns, Cleanup(t) PROVE Bookkeeping(u)'
  BY <1>15 DEF Cleanup
<1>16. ASSUME NEW t \in Txns, RollbackDone(t) PROVE Bookkeeping(u)'
  BY <1>16 DEF RollbackDone
<1>17. ASSUME NEW t \in Txns, Sweep(t) PROVE Bookkeeping(u)'
  BY <1>17 DEF Sweep
<1>18. ASSUME NEW t \in Txns, Crash(t) PROVE Bookkeeping(u)'
  BY <1>18 DEF Crash
<1>19. CASE UNCHANGED vars
  BY <1>19 DEF vars
<1> QED
  BY <1>1, <1>2, <1>3, <1>4, <1>5, <1>6, <1>7, <1>8, <1>9, <1>10,
     <1>11, <1>12, <1>13, <1>14, <1>15, <1>16, <1>17, <1>18, <1>19 DEF Next, Run

\* The variables keep their types and a batch only touches its own files.
THEOREM TypeCorrect == Spec => []TypeOK
<1>1. Init => TypeOK
  BY DEF Init, TypeOK, Types, Bookkeeping, Files, Contents, Phases, Outcomes
<1>2. TypeOK /\ [Next]_vars => TypeOK'
  BY TypesStep, BookkeepingStep DEF TypeOK
<1> QED
  BY <1>1, <1>2, PTL DEF Spec

-----------------------------------------------------------------------------

\* Every step keeps a batch that has not reached its commit phase, or reports a
\* stale plan, out of all files and backups.
LEMMA UnwrittenStep ==
  ASSUME TypeOK, UnwrittenInv, [Next]_vars, NEW u \in Txns PROVE Unwritten(u)'
<1> USE ContentsAssumption
    DEF TypeOK, Types, UnwrittenInv, Unwritten, Held, Contents, Advance, GiveUp,
        batch
<1>1. ASSUME NEW p \in Paths, Edit(p) PROVE Unwritten(u)'
  BY <1>1 DEF Edit
<1>2. ASSUME NEW t \in Txns, NEW W \in SUBSET Paths, Plan(t, W) PROVE Unwritten(u)'
  BY <1>2 DEF Plan
<1>3. ASSUME NEW t \in Txns, NEW p \in Paths, Preflight(t, p) PROVE Unwritten(u)'
  BY <1>3 DEF Preflight
<1>4. ASSUME NEW t \in Txns, NEW p \in Paths, PreflightFails(t, p) PROVE Unwritten(u)'
  BY <1>4 DEF PreflightFails
<1>5. ASSUME NEW t \in Txns, NEW p \in Paths, Stage(t, p) PROVE Unwritten(u)'
  BY <1>5 DEF Stage
<1>6. ASSUME NEW t \in Txns, NEW p \in Paths, Revalidate(t, p) PROVE Unwritten(u)'
  BY <1>6 DEF Revalidate
<1>7. ASSUME NEW t \in Txns, NEW p \in Paths, RevalidateFails(t, p) PROVE Unwritten(u)'
  BY <1>7 DEF RevalidateFails
<1>8. ASSUME NEW t \in Txns, NEW p \in Paths, BackUp(t, p) PROVE Unwritten(u)'
  BY <1>8 DEF BackUp
<1>9. ASSUME NEW t \in Txns, NEW p \in Paths, Install(t, p) PROVE Unwritten(u)'
  <2>1. phase[t] = "commit" /\ outcome[t] # "conflict" /\ outcome' = outcome
    BY <1>9 DEF Install
  <2>2. CASE u = t
    <3>1. phase'[t] \in {"commit", "cleanup"}
      BY <1>9, <2>1 DEF Install
    <3> QED
      BY <2>1, <2>2, <3>1
  <2>3. CASE u # t
    <3>1. phase'[u] = phase[u] /\ backup' = backup /\ fs' = [fs EXCEPT ![p] = t]
      BY <1>9, <2>3 DEF Install
    <3> QED
      BY <2>1, <2>3, <3>1
  <2> QED
    BY <2>2, <2>3
<1>10. ASSUME NEW t \in Txns, NEW p \in Paths, CommitFails(t, p) PROVE Unwritten(u)'
  BY <1>10 DEF CommitFails
<1>11. ASSUME NEW t \in Txns, NEW p \in Paths, RollbackRemove(t, p) PROVE Unwritten(u)'
  BY <1>11 DEF RollbackRemove
<1>12. ASSUME NEW t \in Txns, NEW p \in Paths, RollbackRestore(t, p) PROVE Unwritten(u)'
  BY <1>12 DEF RollbackRestore
<1>13. ASSUME NEW t \in Txns, NEW p \in Paths, RollbackFails(t, p) PROVE Unwritten(u)'
  BY <1>13 DEF RollbackFails
<1>14. ASSUME NEW t \in Txns, StageFails(t) PROVE Unwritten(u)'
  BY <1>14 DEF StageFails
<1>15. ASSUME NEW t \in Txns, Cleanup(t) PROVE Unwritten(u)'
  BY <1>15 DEF Cleanup
<1>16. ASSUME NEW t \in Txns, RollbackDone(t) PROVE Unwritten(u)'
  BY <1>16 DEF RollbackDone
<1>17. ASSUME NEW t \in Txns, Sweep(t) PROVE Unwritten(u)'
  BY <1>17 DEF Sweep
<1>18. ASSUME NEW t \in Txns, Crash(t) PROVE Unwritten(u)'
  BY <1>18 DEF Crash
<1>19. CASE UNCHANGED vars
  BY <1>19 DEF vars
<1> QED
  BY <1>1, <1>2, <1>3, <1>4, <1>5, <1>6, <1>7, <1>8, <1>9, <1>10, <1>11,
     <1>12, <1>13, <1>14, <1>15, <1>16, <1>17, <1>18, <1>19 DEF Next, Run

\* A batch that reports a stale plan has written nothing, for any number of
\* batches and edits in any order, with any failures and crashes.
THEOREM StalePlansNeverWrite == Spec => []StalePlanNeverWrites
<1>1. Init => UnwrittenInv
  BY ContentsAssumption DEF Init, UnwrittenInv, Unwritten, Held, Contents
<1>2. TypeOK /\ UnwrittenInv /\ [Next]_vars => UnwrittenInv'
  BY UnwrittenStep DEF UnwrittenInv
<1>3. UnwrittenInv => StalePlanNeverWrites
  BY DEF UnwrittenInv, Unwritten, StalePlanNeverWrites
<1> QED
  BY <1>1, <1>2, <1>3, TypeCorrect, PTL DEF Spec

-----------------------------------------------------------------------------

\* What is true of the files of u stays true when neither u nor, inside its
\* commit window, a file changes.
LEMMA SecuredFrame ==
  ASSUME NEW u \in Txns, Secured(u),
         phase'[u] = phase[u], writes'[u] = writes[u], todo'[u] = todo[u],
         previous'[u] = previous[u], backup'[u] = backup[u],
         committed'[u] = committed[u], installed'[u] = installed[u],
         fs' = fs \/ phase[u] \notin Window
  PROVE  Secured(u)'
  BY DEF Secured, Pristine, Moved, InPlace, Window

\* No step, of a batch itself or of another one outside its own commit window,
\* loses track of where a batch stands with one of its files.
LEMMA SecuredStep ==
  ASSUME TypeOK, ~Interference, Exclusive, \A t \in Txns : Secured(t),
         [Next]_vars, NEW u \in Txns
  PROVE  Secured(u)'
<1> USE ContentsAssumption DEF TypeOK, Types, Bookkeeping
<1>1. ASSUME NEW p \in Paths, Edit(p) PROVE Secured(u)'
  BY <1>1, SecuredFrame DEF Edit, Quiet, batch
<1>2. ASSUME NEW t \in Txns, NEW W \in SUBSET Paths, Plan(t, W) PROVE Secured(u)'
  <2>1. CASE u = t
    BY <1>2, <2>1 DEF Plan, Secured, Pristine, Moved, InPlace, Advance, GiveUp, IsFirst, IsLast
  <2>2. CASE u # t
    BY <1>2, <2>2, SecuredFrame DEF Plan, Advance, GiveUp, Exclusive, Window
  <2> QED
    BY <2>1, <2>2
<1>3. ASSUME NEW t \in Txns, NEW p \in Paths, Preflight(t, p) PROVE Secured(u)'
  <2>1. CASE u = t
    BY <1>3, <2>1 DEF Preflight, Secured, Pristine, Moved, InPlace, Advance, GiveUp, IsFirst, IsLast
  <2>2. CASE u # t
    BY <1>3, <2>2, SecuredFrame DEF Preflight, Advance, GiveUp, Exclusive, Window
  <2> QED
    BY <2>1, <2>2
<1>4. ASSUME NEW t \in Txns, NEW p \in Paths, PreflightFails(t, p) PROVE Secured(u)'
  <2>1. CASE u = t
    BY <1>4, <2>1 DEF PreflightFails, Secured, Pristine, Moved, InPlace, Advance, GiveUp, IsFirst, IsLast
  <2>2. CASE u # t
    BY <1>4, <2>2, SecuredFrame DEF PreflightFails, Advance, GiveUp, Exclusive, Window
  <2> QED
    BY <2>1, <2>2
<1>5. ASSUME NEW t \in Txns, NEW p \in Paths, Stage(t, p) PROVE Secured(u)'
  <2>1. CASE u = t
    BY <1>5, <2>1 DEF Stage, Secured, Pristine, Moved, InPlace, Advance, GiveUp, IsFirst, IsLast
  <2>2. CASE u # t
    BY <1>5, <2>2, SecuredFrame DEF Stage, Advance, GiveUp, Exclusive, Window
  <2> QED
    BY <2>1, <2>2
<1>6. ASSUME NEW t \in Txns, NEW p \in Paths, Revalidate(t, p) PROVE Secured(u)'
  <2>1. CASE u = t
    <3>1. /\ phase[t] = "revalidate" /\ fs[p] = previous[t][p] /\ p \in todo[t]
          /\ UNCHANGED <<fs, writes, previous, backup, committed, installed>>
          /\ \A q \in Paths : Pristine(t, q)
          /\ \A q \in writes[t] \ todo[t] : fs[q] = previous[t][q]
      BY <1>6, <2>1 DEF Revalidate, Secured, IsFirst
    <3>2. CASE todo[t] = {p}
      <4>1. phase'[t] = "commit" /\ todo'[t] = writes[t]
        BY <1>6, <3>2 DEF Revalidate, Advance
      <4>2. \A q \in writes[t] : fs[q] = previous[t][q]
        BY <3>1, <3>2
      <4> QED
        BY <2>1, <3>1, <4>1, <4>2 DEF Secured, Pristine
    <3>3. CASE todo[t] # {p}
      <4>1. phase'[t] = "revalidate" /\ todo'[t] = todo[t] \ {p}
        BY <1>6, <3>3 DEF Revalidate, Advance
      <4> QED
        BY <2>1, <3>1, <4>1 DEF Secured, Pristine
    <3> QED
      BY <3>2, <3>3
  <2>2. CASE u # t
    BY <1>6, <2>2, SecuredFrame DEF Revalidate, Advance, GiveUp, Exclusive, Window
  <2> QED
    BY <2>1, <2>2
<1>7. ASSUME NEW t \in Txns, NEW p \in Paths, RevalidateFails(t, p) PROVE Secured(u)'
  <2>1. CASE u = t
    BY <1>7, <2>1 DEF RevalidateFails, Secured, Pristine, Moved, InPlace, Advance, GiveUp, IsFirst, IsLast
  <2>2. CASE u # t
    BY <1>7, <2>2, SecuredFrame DEF RevalidateFails, Advance, GiveUp, Exclusive, Window
  <2> QED
    BY <2>1, <2>2
<1>8. ASSUME NEW t \in Txns, NEW p \in Paths, BackUp(t, p) PROVE Secured(u)'
  <2>1. CASE u = t
    BY <1>8, <2>1 DEF BackUp, Secured, Pristine, Moved, InPlace, Advance, GiveUp, IsFirst, IsLast
  <2>2. CASE u # t
    BY <1>8, <2>2, SecuredFrame DEF BackUp, Advance, GiveUp, Exclusive, Window
  <2> QED
    BY <2>1, <2>2
<1>9. ASSUME NEW t \in Txns, NEW p \in Paths, Install(t, p) PROVE Secured(u)'
  <2>1. CASE u = t
    BY <1>9, <2>1 DEF Install, Secured, Pristine, Moved, InPlace, Advance, GiveUp, IsFirst, IsLast
  <2>2. CASE u # t
    BY <1>9, <2>2, SecuredFrame DEF Install, Advance, GiveUp, Exclusive, Window
  <2> QED
    BY <2>1, <2>2
<1>10. ASSUME NEW t \in Txns, NEW p \in Paths, CommitFails(t, p) PROVE Secured(u)'
  <2>1. CASE u = t
    BY <1>10, <2>1 DEF CommitFails, Secured, Pristine, Moved, InPlace, Advance, GiveUp, IsFirst, IsLast
  <2>2. CASE u # t
    BY <1>10, <2>2, SecuredFrame DEF CommitFails, Advance, GiveUp, Exclusive, Window
  <2> QED
    BY <2>1, <2>2
<1>11. ASSUME NEW t \in Txns, NEW p \in Paths, RollbackRemove(t, p) PROVE Secured(u)'
  <2>1. CASE u = t
    BY <1>11, <2>1 DEF RollbackRemove, Secured, Pristine, Moved, InPlace, Advance, GiveUp, IsFirst, IsLast
  <2>2. CASE u # t
    BY <1>11, <2>2, SecuredFrame DEF RollbackRemove, Advance, GiveUp, Exclusive, Window
  <2> QED
    BY <2>1, <2>2
<1>12. ASSUME NEW t \in Txns, NEW p \in Paths, RollbackRestore(t, p) PROVE Secured(u)'
  <2>1. CASE u = t
    BY <1>12, <2>1 DEF RollbackRestore, Secured, Pristine, Moved, InPlace, Advance, GiveUp, IsFirst, IsLast
  <2>2. CASE u # t
    BY <1>12, <2>2, SecuredFrame DEF RollbackRestore, Advance, GiveUp, Exclusive, Window
  <2> QED
    BY <2>1, <2>2
<1>13. ASSUME NEW t \in Txns, NEW p \in Paths, RollbackFails(t, p) PROVE Secured(u)'
  <2>1. CASE u = t
    BY <1>13, <2>1 DEF RollbackFails, Secured, Pristine, Moved, InPlace, Advance, GiveUp, IsFirst, IsLast
  <2>2. CASE u # t
    BY <1>13, <2>2, SecuredFrame DEF RollbackFails, Advance, GiveUp, Exclusive, Window
  <2> QED
    BY <2>1, <2>2
<1>14. ASSUME NEW t \in Txns, StageFails(t) PROVE Secured(u)'
  <2>1. CASE u = t
    BY <1>14, <2>1 DEF StageFails, Secured, Pristine, Moved, InPlace, Advance, GiveUp, IsFirst, IsLast
  <2>2. CASE u # t
    BY <1>14, <2>2, SecuredFrame DEF StageFails, Advance, GiveUp, Exclusive, Window
  <2> QED
    BY <2>1, <2>2
<1>15. ASSUME NEW t \in Txns, Cleanup(t) PROVE Secured(u)'
  <2>1. CASE u = t
    BY <1>15, <2>1 DEF Cleanup, Secured, Pristine, Moved, InPlace, Advance, GiveUp, IsFirst, IsLast
  <2>2. CASE u # t
    BY <1>15, <2>2, SecuredFrame DEF Cleanup, Advance, GiveUp, Exclusive, Window
  <2> QED
    BY <2>1, <2>2
<1>16. ASSUME NEW t \in Txns, RollbackDone(t) PROVE Secured(u)'
  <2>1. CASE u = t
    BY <1>16, <2>1 DEF RollbackDone, Secured, Pristine, Moved, InPlace, Advance, GiveUp, IsFirst, IsLast
  <2>2. CASE u # t
    BY <1>16, <2>2, SecuredFrame DEF RollbackDone, Advance, GiveUp, Exclusive, Window
  <2> QED
    BY <2>1, <2>2
<1>17. ASSUME NEW t \in Txns, Sweep(t) PROVE Secured(u)'
  <2>1. CASE u = t
    BY <1>17, <2>1 DEF Sweep, Secured, Pristine, Moved, InPlace, Advance, GiveUp, IsFirst, IsLast
  <2>2. CASE u # t
    BY <1>17, <2>2, SecuredFrame DEF Sweep, Advance, GiveUp, Exclusive, Window
  <2> QED
    BY <2>1, <2>2
<1>18. ASSUME NEW t \in Txns, Crash(t) PROVE Secured(u)'
  <2>1. CASE u = t
    BY <1>18, <2>1 DEF Crash, Secured, Pristine, Moved, InPlace, Advance, GiveUp, IsFirst, IsLast
  <2>2. CASE u # t
    BY <1>18, <2>2, SecuredFrame DEF Crash, Advance, GiveUp, Exclusive, Window
  <2> QED
    BY <2>1, <2>2
<1>19. CASE UNCHANGED vars
  BY <1>19, SecuredFrame DEF vars, batch
<1> QED
  BY <1>1, <1>2, <1>3, <1>4, <1>5, <1>6, <1>7, <1>8, <1>9, <1>10, <1>11,
     <1>12, <1>13, <1>14, <1>15, <1>16, <1>17, <1>18, <1>19 DEF Next, Run

\* Commit windows do not overlap when interference is excluded.
LEMMA ExclusiveStep ==
  ASSUME TypeOK, ~Interference, Exclusive, [Next]_vars PROVE Exclusive'
<1> USE DEF TypeOK, Types, Exclusive, Window, Advance, GiveUp, batch
<1>1. ASSUME NEW p \in Paths, Edit(p) PROVE Exclusive'
  BY <1>1 DEF Edit
<1>2. ASSUME NEW t \in Txns, NEW W \in SUBSET Paths, Plan(t, W) PROVE Exclusive'
  BY <1>2 DEF Plan
<1>3. ASSUME NEW t \in Txns, NEW p \in Paths, Preflight(t, p) PROVE Exclusive'
  BY <1>3 DEF Preflight
<1>4. ASSUME NEW t \in Txns, NEW p \in Paths, PreflightFails(t, p) PROVE Exclusive'
  BY <1>4 DEF PreflightFails
<1>5. ASSUME NEW t \in Txns, NEW p \in Paths, Stage(t, p) PROVE Exclusive'
  BY <1>5 DEF Stage, Quiet
<1>6. ASSUME NEW t \in Txns, NEW p \in Paths, Revalidate(t, p) PROVE Exclusive'
  BY <1>6 DEF Revalidate
<1>7. ASSUME NEW t \in Txns, NEW p \in Paths, RevalidateFails(t, p) PROVE Exclusive'
  BY <1>7 DEF RevalidateFails
<1>8. ASSUME NEW t \in Txns, NEW p \in Paths, BackUp(t, p) PROVE Exclusive'
  BY <1>8 DEF BackUp
<1>9. ASSUME NEW t \in Txns, NEW p \in Paths, Install(t, p) PROVE Exclusive'
  BY <1>9 DEF Install
<1>10. ASSUME NEW t \in Txns, NEW p \in Paths, CommitFails(t, p) PROVE Exclusive'
  BY <1>10 DEF CommitFails
<1>11. ASSUME NEW t \in Txns, NEW p \in Paths, RollbackRemove(t, p) PROVE Exclusive'
  BY <1>11 DEF RollbackRemove
<1>12. ASSUME NEW t \in Txns, NEW p \in Paths, RollbackRestore(t, p) PROVE Exclusive'
  BY <1>12 DEF RollbackRestore
<1>13. ASSUME NEW t \in Txns, NEW p \in Paths, RollbackFails(t, p) PROVE Exclusive'
  BY <1>13 DEF RollbackFails
<1>14. ASSUME NEW t \in Txns, StageFails(t) PROVE Exclusive'
  BY <1>14 DEF StageFails
<1>15. ASSUME NEW t \in Txns, Cleanup(t) PROVE Exclusive'
  BY <1>15 DEF Cleanup
<1>16. ASSUME NEW t \in Txns, RollbackDone(t) PROVE Exclusive'
  BY <1>16 DEF RollbackDone
<1>17. ASSUME NEW t \in Txns, Sweep(t) PROVE Exclusive'
  BY <1>17 DEF Sweep
<1>18. ASSUME NEW t \in Txns, Crash(t) PROVE Exclusive'
  BY <1>18 DEF Crash
<1>19. CASE UNCHANGED vars
  BY <1>19 DEF vars
<1> QED
  BY <1>1, <1>2, <1>3, <1>4, <1>5, <1>6, <1>7, <1>8, <1>9, <1>10, <1>11,
     <1>12, <1>13, <1>14, <1>15, <1>16, <1>17, <1>18, <1>19 DEF Next, Run

\* In an undisturbed commit window every file is untouched, moved aside or
\* replaced, exactly as the commit records of writeBatchAtomic say.
THEOREM WindowCorrect == Spec => []WindowInv
<1>1. Init => WindowInv
  BY DEF Init, WindowInv, Exclusive, Window, Secured, Pristine
<1>2. TypeOK /\ WindowInv /\ [Next]_vars => WindowInv'
  BY SecuredStep, ExclusiveStep DEF WindowInv
<1> QED
  BY <1>1, <1>2, TypeCorrect, PTL DEF Spec

\* What each step may lose, given where the batches stand.
LEMMA NothingLost ==
  ASSUME TypeOK, ~Interference, \A t \in Txns : Secured(t), [Next]_vars,
         NEW r \in Paths, NEW c \in Contents, Held(r, c), ~Held(r, c)'
  PROVE  MayDestroy(r, c)
<1> USE ContentsAssumption DEF TypeOK, Types, Bookkeeping, Held, Secured, batch
<1>1. ASSUME NEW p \in Paths, Edit(p) PROVE MayDestroy(r, c)
  BY <1>1 DEF Edit, MayDestroy
<1>2. ASSUME NEW t \in Txns, NEW W \in SUBSET Paths, Plan(t, W) PROVE MayDestroy(r, c)
  BY <1>2 DEF Plan
<1>3. ASSUME NEW t \in Txns, NEW p \in Paths, Preflight(t, p) PROVE MayDestroy(r, c)
  BY <1>3 DEF Preflight
<1>4. ASSUME NEW t \in Txns, NEW p \in Paths, PreflightFails(t, p) PROVE MayDestroy(r, c)
  BY <1>4 DEF PreflightFails
<1>5. ASSUME NEW t \in Txns, NEW p \in Paths, Stage(t, p) PROVE MayDestroy(r, c)
  BY <1>5 DEF Stage
<1>6. ASSUME NEW t \in Txns, NEW p \in Paths, Revalidate(t, p) PROVE MayDestroy(r, c)
  BY <1>6 DEF Revalidate
<1>7. ASSUME NEW t \in Txns, NEW p \in Paths, RevalidateFails(t, p) PROVE MayDestroy(r, c)
  BY <1>7 DEF RevalidateFails
<1>8. ASSUME NEW t \in Txns, NEW p \in Paths, BackUp(t, p) PROVE MayDestroy(r, c)
  <2>1. /\ fs' = [fs EXCEPT ![p] = Absent]
        /\ backup' = [backup EXCEPT ![t][p] = fs[p]]
        /\ backup[t][p] = Absent
    BY <1>8 DEF BackUp, Pristine, Moved, IsFirst
  <2>2. CASE fs[r] = c
    <3>1. r = p => backup'[t][r] = c
      BY <2>1, <2>2
    <3>2. r # p => fs'[r] = c
      BY <2>1, <2>2
    <3> QED
      BY <3>1, <3>2
  <2>3. ASSUME NEW u \in Txns, backup[u][r] = c PROVE FALSE
    <3>1. backup'[u][r] = c
      BY <2>1, <2>3
    <3> QED
      BY <3>1
  <2> QED
    BY <2>2, <2>3
<1>9. ASSUME NEW t \in Txns, NEW p \in Paths, Install(t, p) PROVE MayDestroy(r, c)
  BY <1>9 DEF Install, Pristine, Moved, InPlace, IsFirst
<1>10. ASSUME NEW t \in Txns, NEW p \in Paths, CommitFails(t, p) PROVE MayDestroy(r, c)
  BY <1>10 DEF CommitFails
<1>11. ASSUME NEW t \in Txns, NEW p \in Paths, RollbackRemove(t, p) PROVE MayDestroy(r, c)
  BY <1>11 DEF RollbackRemove, InPlace, Moved, IsLast, MayDestroy
<1>12. ASSUME NEW t \in Txns, NEW p \in Paths, RollbackRestore(t, p) PROVE MayDestroy(r, c)
  BY <1>12 DEF RollbackRestore, InPlace, Moved, IsLast
<1>13. ASSUME NEW t \in Txns, NEW p \in Paths, RollbackFails(t, p) PROVE MayDestroy(r, c)
  BY <1>13 DEF RollbackFails
<1>14. ASSUME NEW t \in Txns, StageFails(t) PROVE MayDestroy(r, c)
  BY <1>14 DEF StageFails
<1>15. ASSUME NEW t \in Txns, Cleanup(t) PROVE MayDestroy(r, c)
  BY <1>15 DEF Cleanup, InPlace, Pristine, MayDestroy
<1>16. ASSUME NEW t \in Txns, RollbackDone(t) PROVE MayDestroy(r, c)
  BY <1>16 DEF RollbackDone
<1>17. ASSUME NEW t \in Txns, Sweep(t) PROVE MayDestroy(r, c)
  BY <1>17 DEF Sweep
<1>18. ASSUME NEW t \in Txns, Crash(t) PROVE MayDestroy(r, c)
  BY <1>18 DEF Crash
<1>19. CASE UNCHANGED vars
  BY <1>19 DEF vars
<1> QED
  BY <1>1, <1>2, <1>3, <1>4, <1>5, <1>6, <1>7, <1>8, <1>9, <1>10, <1>11,
     <1>12, <1>13, <1>14, <1>15, <1>16, <1>17, <1>18, <1>19 DEF Next, Run

\* No content is ever lost except to another program, or to a batch that was
\* planned over it and is completely in place.
THEOREM ContentsSurvive == ~Interference => (Spec => ContentSurvives)
<1> SUFFICES ASSUME ~Interference PROVE Spec => ContentSurvives
  OBVIOUS
<1>1. TypeOK /\ WindowInv /\ [Next]_vars =>
        [\A p \in Paths, c \in Contents :
           Held(p, c) /\ ~Held(p, c)' => MayDestroy(p, c)]_vars
  BY NothingLost DEF WindowInv
<1> QED
  BY <1>1, TypeCorrect, WindowCorrect, PTL DEF Spec, ContentSurvives

-----------------------------------------------------------------------------

\* What is true of the traces of u stays true while u does nothing and its
\* content comes to no place where it was not.
LEMMA TracelessFrame ==
  ASSUME NEW u \in Txns, Traceless(u),
         phase'[u] = phase[u], outcome'[u] = outcome[u], committed'[u] = committed[u],
         installed'[u] = installed[u], backup'[u] = backup[u],
         \A p \in Paths : fs'[p] = u => fs[p] = u,
         \A p \in Paths, v \in Txns : backup'[v][p] = u => backup[v][p] = u
  PROVE  Traceless(u)'
  BY DEF Traceless, Held

\* No step, in particular none of a rollback, leaves a trace of a batch that
\* fails where the rollback will not look.
LEMMA TracelessStep ==
  ASSUME TypeOK, ~Interference, UnwrittenInv, Exclusive, \A t \in Txns : Secured(t),
         \A t \in Txns : Traceless(t), [Next]_vars, NEW u \in Txns
  PROVE  Traceless(u)'
<1> USE ContentsAssumption DEF TypeOK, Types, Bookkeeping, Contents, batch
<1>1. ASSUME NEW p \in Paths, Edit(p) PROVE Traceless(u)'
  BY <1>1, TracelessFrame DEF Edit
<1>2. ASSUME NEW t \in Txns, NEW W \in SUBSET Paths, Plan(t, W) PROVE Traceless(u)'
  BY <1>2 DEF Plan, Traceless, Held
<1>3. ASSUME NEW t \in Txns, NEW p \in Paths, Preflight(t, p) PROVE Traceless(u)'
  <2>1. CASE u = t
    BY <1>3, <2>1 DEF Preflight, Traceless, Advance
  <2>2. CASE u # t
    BY <1>3, <2>2, TracelessFrame DEF Preflight, Advance, GiveUp
  <2> QED
    BY <2>1, <2>2
<1>4. ASSUME NEW t \in Txns, NEW p \in Paths, PreflightFails(t, p) PROVE Traceless(u)'
  <2>1. CASE u = t
    BY <1>4, <2>1 DEF PreflightFails, Traceless, GiveUp, UnwrittenInv, Unwritten, Held, Secured, Pristine
  <2>2. CASE u # t
    BY <1>4, <2>2, TracelessFrame DEF PreflightFails, Advance, GiveUp
  <2> QED
    BY <2>1, <2>2
<1>5. ASSUME NEW t \in Txns, NEW p \in Paths, Stage(t, p) PROVE Traceless(u)'
  <2>1. CASE u = t
    BY <1>5, <2>1 DEF Stage, Traceless, Advance
  <2>2. CASE u # t
    BY <1>5, <2>2, TracelessFrame DEF Stage, Advance, GiveUp
  <2> QED
    BY <2>1, <2>2
<1>6. ASSUME NEW t \in Txns, NEW p \in Paths, Revalidate(t, p) PROVE Traceless(u)'
  <2>1. CASE u = t
    BY <1>6, <2>1 DEF Revalidate, Traceless, Advance, UnwrittenInv, Unwritten, Held, Secured, Pristine
  <2>2. CASE u # t
    BY <1>6, <2>2, TracelessFrame DEF Revalidate, Advance, GiveUp
  <2> QED
    BY <2>1, <2>2
<1>7. ASSUME NEW t \in Txns, NEW p \in Paths, RevalidateFails(t, p) PROVE Traceless(u)'
  <2>1. CASE u = t
    BY <1>7, <2>1 DEF RevalidateFails, Traceless, GiveUp, UnwrittenInv, Unwritten, Held, Secured, Pristine
  <2>2. CASE u # t
    BY <1>7, <2>2, TracelessFrame DEF RevalidateFails, Advance, GiveUp
  <2> QED
    BY <2>1, <2>2
<1>8. ASSUME NEW t \in Txns, NEW p \in Paths, BackUp(t, p) PROVE Traceless(u)'
  <2>1. CASE u = t
    BY <1>8, <2>1 DEF BackUp, Traceless, IsFirst
  <2>2. CASE u # t
    BY <1>8, <2>2, TracelessFrame DEF BackUp, Advance, GiveUp, Held, Traceless, Exclusive, Window
  <2> QED
    BY <2>1, <2>2
<1>9. ASSUME NEW t \in Txns, NEW p \in Paths, Install(t, p) PROVE Traceless(u)'
  <2>1. CASE u = t
    BY <1>9, <2>1 DEF Install, Traceless, Advance, IsFirst, Held
  <2>2. CASE u # t
    BY <1>9, <2>2, TracelessFrame DEF Install, Advance, GiveUp
  <2> QED
    BY <2>1, <2>2
<1>10. ASSUME NEW t \in Txns, NEW p \in Paths, CommitFails(t, p) PROVE Traceless(u)'
  <2>1. CASE u = t
    BY <1>10, <2>1 DEF CommitFails, Traceless, GiveUp, IsFirst
  <2>2. CASE u # t
    BY <1>10, <2>2, TracelessFrame DEF CommitFails, Advance, GiveUp
  <2> QED
    BY <2>1, <2>2
<1>11. ASSUME NEW t \in Txns, NEW p \in Paths, RollbackRemove(t, p) PROVE Traceless(u)'
  <2>1. CASE u = t
    BY <1>11, <2>1 DEF RollbackRemove, Traceless, IsLast
  <2>2. CASE u # t
    BY <1>11, <2>2, TracelessFrame DEF RollbackRemove, Advance, GiveUp
  <2> QED
    BY <2>1, <2>2
<1>12. ASSUME NEW t \in Txns, NEW p \in Paths, RollbackRestore(t, p) PROVE Traceless(u)'
  <2>1. CASE u = t
    BY <1>12, <2>1 DEF RollbackRestore, Traceless, IsLast
  <2>2. CASE u # t
    BY <1>12, <2>2, TracelessFrame DEF RollbackRestore, Advance, GiveUp, Held, Traceless, Exclusive, Window
  <2> QED
    BY <2>1, <2>2
<1>13. ASSUME NEW t \in Txns, NEW p \in Paths, RollbackFails(t, p) PROVE Traceless(u)'
  <2>1. CASE u = t
    BY <1>13, <2>1 DEF RollbackFails, Traceless, IsLast
  <2>2. CASE u # t
    BY <1>13, <2>2, TracelessFrame DEF RollbackFails, Advance, GiveUp
  <2> QED
    BY <2>1, <2>2
<1>14. ASSUME NEW t \in Txns, StageFails(t) PROVE Traceless(u)'
  <2>1. CASE u = t
    BY <1>14, <2>1 DEF StageFails, Traceless, GiveUp, UnwrittenInv, Unwritten, Held, Secured, Pristine
  <2>2. CASE u # t
    BY <1>14, <2>2, TracelessFrame DEF StageFails, Advance, GiveUp
  <2> QED
    BY <2>1, <2>2
<1>15. ASSUME NEW t \in Txns, Cleanup(t) PROVE Traceless(u)'
  <2>1. CASE u = t
    BY <1>15, <2>1 DEF Cleanup, Traceless
  <2>2. CASE u # t
    BY <1>15, <2>2, TracelessFrame DEF Cleanup, Advance, GiveUp, Held, Traceless, Exclusive, Window
  <2> QED
    BY <2>1, <2>2
<1>16. ASSUME NEW t \in Txns, RollbackDone(t) PROVE Traceless(u)'
  <2>1. CASE u = t
    BY <1>16, <2>1 DEF RollbackDone, Traceless, Held, UnwrittenInv, Unwritten
  <2>2. CASE u # t
    BY <1>16, <2>2, TracelessFrame DEF RollbackDone, Advance, GiveUp
  <2> QED
    BY <2>1, <2>2
<1>17. ASSUME NEW t \in Txns, Sweep(t) PROVE Traceless(u)'
  <2>1. CASE u = t
    BY <1>17, <2>1 DEF Sweep, Traceless, Held
  <2>2. CASE u # t
    BY <1>17, <2>2, TracelessFrame DEF Sweep, Advance, GiveUp
  <2> QED
    BY <2>1, <2>2
<1>18. ASSUME NEW t \in Txns, Crash(t) PROVE Traceless(u)'
  <2>1. CASE u = t
    BY <1>18, <2>1 DEF Crash, Traceless, GiveUp
  <2>2. CASE u # t
    BY <1>18, <2>2, TracelessFrame DEF Crash, Advance, GiveUp
  <2> QED
    BY <2>1, <2>2
<1>19. CASE UNCHANGED vars
  BY <1>19, TracelessFrame DEF vars
<1> QED
  BY <1>1, <1>2, <1>3, <1>4, <1>5, <1>6, <1>7, <1>8, <1>9, <1>10, <1>11,
     <1>12, <1>13, <1>14, <1>15, <1>16, <1>17, <1>18, <1>19 DEF Next, Run

\* If commit windows are undisturbed, a batch that fails and reports no failed
\* rollback has left nothing of itself behind.
THEOREM FailuresAreClean == ~Interference => (Spec => []FailureIsClean)
<1> SUFFICES ASSUME ~Interference PROVE Spec => []FailureIsClean
  OBVIOUS
<1>1. Init => UnwrittenInv /\ TracelessInv
  BY ContentsAssumption
  DEF Init, UnwrittenInv, Unwritten, TracelessInv, Traceless, Held, Contents
<1>2. TypeOK /\ UnwrittenInv /\ [Next]_vars => UnwrittenInv'
  BY UnwrittenStep DEF UnwrittenInv
<1>3. TypeOK /\ UnwrittenInv /\ WindowInv /\ TracelessInv /\ [Next]_vars => TracelessInv'
  BY TracelessStep DEF WindowInv, TracelessInv
<1>4. TracelessInv => FailureIsClean
  BY DEF TracelessInv, Traceless, Held, FailureIsClean
<1> QED
  BY <1>1, <1>2, <1>3, <1>4, TypeCorrect, WindowCorrect, PTL DEF Spec

-----------------------------------------------------------------------------
(* The refinement of AtomicBatch: what recovery would make of the files.   *)

\* What recovery would make of file p while t is between its renames.
Restored(t, p) ==
  IF backup[t][p] # Absent THEN backup[t][p]
  ELSE IF p \in installed[t] THEN Absent ELSE fs[p]

\* Between batches the files are what recovery would make of them.
LEMMA NothingToRecover ==
  ASSUME TypeOK, \A t \in Txns : ~Uncommitted(t) PROVE Recoverable = fs
  BY DEF Recoverable, TypeOK, Types

\* Within a batch, which is the only one, they are what it has kept of them.
LEMMA OneToRecover ==
  ASSUME TypeOK, Exclusive, NEW t \in Txns, Uncommitted(t)
  PROVE  Recoverable = [p \in Paths |-> Restored(t, p)]
<1>1. \A u \in Txns : Uncommitted(u) => u = t
  BY DEF Exclusive, Uncommitted, Window
<1>2. ASSUME NEW p \in Paths, backup[t][p] # Absent
      PROVE  (CHOOSE u \in Txns : Uncommitted(u) /\ backup[u][p] # Absent) = t
  BY <1>1, <1>2
<1>3. ASSUME NEW p \in Paths PROVE Recoverable[p] = Restored(t, p)
  <2>1. CASE backup[t][p] # Absent
    BY <1>2, <2>1 DEF Recoverable, Restored
  <2>2. CASE backup[t][p] = Absent
    BY <1>1, <2>2 DEF Recoverable, Restored
  <2> QED
    BY <2>1, <2>2
<1> QED
  BY <1>3 DEF Recoverable

\* The two lemmas of the state after a step.
LEMMA NothingToRecoverNext ==
  ASSUME TypeOK', \A t \in Txns : ~Uncommitted(t)' PROVE Recoverable' = fs'
  BY DEF Recoverable, TypeOK, Types

LEMMA OneToRecoverNext ==
  ASSUME TypeOK', Exclusive', NEW t \in Txns, Uncommitted(t)'
  PROVE  Recoverable' = [p \in Paths |-> Restored(t, p)']
<1>1. \A u \in Txns : Uncommitted(u)' => u = t
  BY DEF Exclusive, Uncommitted, Window
<1>2. ASSUME NEW p \in Paths, backup'[t][p] # Absent
      PROVE  (CHOOSE u \in Txns : Uncommitted(u)' /\ backup'[u][p] # Absent) = t
  BY <1>1, <1>2
<1>3. ASSUME NEW p \in Paths PROVE Recoverable'[p] = Restored(t, p)'
  <2>1. CASE backup'[t][p] # Absent
    BY <1>2, <2>1 DEF Recoverable, Restored
  <2>2. CASE backup'[t][p] = Absent
    BY <1>1, <2>2 DEF Recoverable, Restored
  <2> QED
    BY <2>1, <2>2
<1> QED
  BY <1>3 DEF Recoverable

-----------------------------------------------------------------------------

\* Without disturbance the outcome of a batch follows its phase, and a rollback
\* is of what its records say.
LEMMA DecidedStep ==
  ASSUME Undisturbed, TypeOK, \A t \in Txns : Secured(t),
         \A t \in Txns : Decided(t), [Next]_vars, NEW u \in Txns
  PROVE  Decided(u)'
<1> USE DEF TypeOK, Types, Bookkeeping, Decided, Phases, batch, Undisturbed
<1>1. ASSUME NEW p \in Paths, Edit(p) PROVE Decided(u)'
  BY <1>1 DEF Edit
<1>2. ASSUME NEW t \in Txns, NEW W \in (SUBSET Paths) \ {{}}, Plan(t, W) PROVE Decided(u)'
  BY <1>2 DEF Plan
<1>3. ASSUME NEW t \in Txns, NEW p \in Paths, Preflight(t, p) PROVE Decided(u)'
  BY <1>3 DEF Preflight, Advance
<1>4. ASSUME NEW t \in Txns, NEW p \in Paths, PreflightFails(t, p) PROVE Decided(u)'
  BY <1>4 DEF PreflightFails, GiveUp
<1>5. ASSUME NEW t \in Txns, NEW p \in Paths, Stage(t, p) PROVE Decided(u)'
  BY <1>5 DEF Stage, Advance
<1>6. ASSUME NEW t \in Txns, NEW p \in Paths, Revalidate(t, p) PROVE Decided(u)'
  BY <1>6 DEF Revalidate, Advance
<1>7. ASSUME NEW t \in Txns, NEW p \in Paths, RevalidateFails(t, p) PROVE Decided(u)'
  BY <1>7 DEF RevalidateFails, GiveUp
<1>8. ASSUME NEW t \in Txns, NEW p \in Paths, BackUp(t, p) PROVE Decided(u)'
  BY <1>8 DEF BackUp
<1>9. ASSUME NEW t \in Txns, NEW p \in Paths, Install(t, p) PROVE Decided(u)'
  BY <1>9 DEF Install, Advance
<1>10. ASSUME NEW t \in Txns, NEW p \in Paths, CommitFails(t, p) PROVE Decided(u)'
  <2>1. installed[t] \subseteq committed[t]
    BY <1>10 DEF CommitFails, Secured, Pristine, Moved, InPlace
  <2> QED
    BY <1>10, <2>1 DEF CommitFails, GiveUp
<1>11. ASSUME NEW t \in Txns, NEW p \in Paths, RollbackRemove(t, p) PROVE Decided(u)'
  BY <1>11 DEF RollbackRemove
<1>12. ASSUME NEW t \in Txns, NEW p \in Paths, RollbackRestore(t, p) PROVE Decided(u)'
  BY <1>12 DEF RollbackRestore
<1>13. ASSUME NEW t \in Txns, NEW p \in Paths, RollbackFails(t, p) PROVE FALSE
  BY <1>13 DEF RollbackFails
<1>14. ASSUME NEW t \in Txns, StageFails(t) PROVE Decided(u)'
  BY <1>14 DEF StageFails, GiveUp
<1>15. ASSUME NEW t \in Txns, Cleanup(t) PROVE Decided(u)'
  BY <1>15 DEF Cleanup
<1>16. ASSUME NEW t \in Txns, RollbackDone(t) PROVE Decided(u)'
  BY <1>16 DEF RollbackDone
<1>17. ASSUME NEW t \in Txns, Sweep(t) PROVE Decided(u)'
  BY <1>17 DEF Sweep
<1>18. ASSUME NEW t \in Txns, Crash(t) PROVE FALSE
  BY <1>18 DEF Crash
<1>19. CASE UNCHANGED vars
  BY <1>19 DEF vars
<1> QED
  BY <1>1, <1>2, <1>3, <1>4, <1>5, <1>6, <1>7, <1>8, <1>9, <1>10, <1>11,
     <1>12, <1>13, <1>14, <1>15, <1>16, <1>17, <1>18, <1>19 DEF Next, Run

-----------------------------------------------------------------------------
(* What the steps of a batch are in AtomicBatch.                           *)

\* Planning writes no file, and nothing is recovered before a window or after it.
LEMMA PlanMaps ==
  ASSUME TypeOK, \A t \in Txns : Decided(t), NEW t \in Txns,
         NEW W \in (SUBSET Paths) \ {{}}, Plan(t, W), Recoverable' = Recoverable
  PROVE  Abstract!Plan(t, W)
<1>1. writes[t] = {} /\ previous' = [previous EXCEPT ![t] = fs] /\ fs \in [Paths -> Files]
  BY DEF Plan, TypeOK, Types, Bookkeeping
<1>2. Files = Abstract!Files
  BY DEF Files, Contents, Abstract!Files
<1>3. Verdict' = Verdict
  BY DEF Plan, Verdict, VerdictOf, TypeOK, Types
<1> QED
  BY <1>1, <1>2, <1>3 DEF Plan, Abstract!Plan

\* A failure before or within the window rejects the batch.
LEMMA GiveUpMaps ==
  ASSUME TypeOK, \A t \in Txns : Decided(t), NEW t \in Txns, NEW cause \in {"conflict", "io"},
         NEW then \in {"rollback", "sweep", "done"}, GiveUp(t, cause, then),
         phase[t] \in {"preflight", "stage", "revalidate", "commit"},
         UNCHANGED <<writes, previous>>, Recoverable' = Recoverable
  PROVE  Abstract!Reject(t)
<1>1. outcome[t] = "none" /\ writes[t] # {}
  BY DEF Decided, Phases
<1>2. Verdict[t] = "pending"
  BY <1>1 DEF Verdict, VerdictOf
<1>3. Verdict' = [Verdict EXCEPT ![t] = "rejected"]
  <2>1. /\ phase'[t] = then /\ outcome'[t] = cause
        /\ \A u \in Txns \ {t} : phase'[u] = phase[u] /\ outcome'[u] = outcome[u]
    BY DEF GiveUp, TypeOK, Types
  <2>2. VerdictOf(t)' = "rejected"
    BY <2>1 DEF VerdictOf
  <2>3. ASSUME NEW u \in Txns \ {t} PROVE VerdictOf(u)' = VerdictOf(u)
    BY <2>1 DEF VerdictOf
  <2> QED
    BY <2>2, <2>3 DEF Verdict
<1> QED
  BY <1>1, <1>2, <1>3 DEF Abstract!Reject

\* A step within the window that restores to the same files is a stutter.
LEMMA StutterMaps ==
  ASSUME Recoverable' = Recoverable, Verdict' = Verdict, UNCHANGED <<writes, previous>>
  PROVE  UNCHANGED Abstract!vars
  BY DEF Abstract!vars

\* The files that recovery would make do not change while nobody renames.
LEMMA SameFiles ==
  ASSUME TypeOK, TypeOK', Exclusive, Exclusive', UNCHANGED <<fs, backup, installed>>,
         \A t \in Txns : Uncommitted(t)' <=> Uncommitted(t)
  PROVE  Recoverable' = Recoverable
<1>1. CASE \A t \in Txns : ~Uncommitted(t)
  BY <1>1, NothingToRecover, NothingToRecoverNext
<1>2. ASSUME NEW t \in Txns, Uncommitted(t) PROVE Recoverable' = Recoverable
  <2>1. \A p \in Paths : Restored(t, p)' = Restored(t, p)
    BY DEF Restored
  <2> QED
    BY <1>2, <2>1, OneToRecover, OneToRecoverNext
<1> QED
  BY <1>1, <1>2

\* They are the files before the batch when the window opens: nothing is renamed.
LEMMA OpeningTheWindow ==
  ASSUME TypeOK, TypeOK', Exclusive, Exclusive', NEW t \in Txns, Secured(t),
         phase[t] = "revalidate", Uncommitted(t)', UNCHANGED <<fs, backup, installed>>
  PROVE  Recoverable' = Recoverable
<1>1. \A u \in Txns : ~Uncommitted(u)
  BY DEF Exclusive, Uncommitted, Window
<1>2. Recoverable = fs
  BY <1>1, NothingToRecover
<1>3. ASSUME NEW p \in Paths PROVE Restored(t, p)' = fs[p]
  BY DEF Secured, Pristine, Restored
<1> QED
  BY <1>2, <1>3, OneToRecoverNext DEF TypeOK, Types

\* They are those after it when the window closes, once nothing is kept any more.
LEMMA ClosingTheWindow ==
  ASSUME TypeOK, TypeOK', Exclusive, Exclusive', NEW t \in Txns, Traceless(t), Decided(t),
         ~Interference, RollbackDone(t)
  PROVE  Recoverable' = Recoverable
<1>1. phase[t] = "rollback" /\ Uncommitted(t)
  BY DEF RollbackDone, Uncommitted
<1>2. \A u \in Txns : ~Uncommitted(u)'
  BY <1>1 DEF Exclusive, Uncommitted, Window, RollbackDone, TypeOK, Types
<1>3. Recoverable' = fs
  BY <1>2, NothingToRecoverNext DEF RollbackDone
<1>4. ASSUME NEW p \in Paths PROVE Restored(t, p) = fs[p]
  BY <1>1 DEF RollbackDone, Traceless, Decided, Restored
<1> QED
  BY <1>1, <1>3, <1>4, OneToRecover DEF TypeOK, Types

\* Within the window a rename changes a file and what is kept of it together.
LEMMA WithinTheWindow ==
  ASSUME TypeOK, TypeOK', Exclusive, Exclusive', NEW t \in Txns,
         Uncommitted(t), Uncommitted(t)',
         \A p \in Paths : Restored(t, p)' = Restored(t, p)
  PROVE  Recoverable' = Recoverable
  BY OneToRecover, OneToRecoverNext

\* The last rename replaces all files of the batch at once.
LEMMA InstallMaps ==
  ASSUME TypeOK, TypeOK', Exclusive, Exclusive', NEW t \in Txns, Secured(t), Decided(t),
         NEW p \in Paths, Install(t, p), todo[t] = {p}
  PROVE  Abstract!Commit(t)
<1>1. /\ phase[t] = "commit" /\ Uncommitted(t) /\ phase' = [phase EXCEPT ![t] = "cleanup"]
      /\ outcome' = outcome /\ fs' = [fs EXCEPT ![p] = t] /\ p \in writes[t]
      /\ UNCHANGED <<writes, previous>>
  BY DEF Install, Advance, Uncommitted, TypeOK, Bookkeeping
<1>2. outcome[t] = "none" /\ writes[t] # {}
  BY <1>1 DEF Decided, Phases
<1>3. \A u \in Txns : ~Uncommitted(u)'
  BY <1>1 DEF Exclusive, Uncommitted, Window, TypeOK, Types
<1>4. Recoverable' = fs'
  BY <1>3, NothingToRecoverNext
<1>5. ASSUME NEW q \in writes[t], q \in Paths PROVE Restored(t, q) = previous[t][q]
  BY <1>1, <1>5 DEF Secured, InPlace, Pristine, Moved, Restored
<1>6. ASSUME NEW q \in Paths \ writes[t] PROVE Restored(t, q) = fs[q]
  BY <1>1, <1>6 DEF Secured, Pristine, Moved, Restored, TypeOK, Bookkeeping
<1>7. \A q \in writes[t] : q \in Paths /\ Recoverable[q] = previous[t][q]
  BY <1>1, <1>5, OneToRecover DEF TypeOK, Types
<1>8. Recoverable' = [q \in Paths |-> IF q \in writes[t] THEN t ELSE Recoverable[q]]
  <2>1. ASSUME NEW q \in writes[t] PROVE fs'[q] = t
    BY <1>1 DEF Secured, InPlace, TypeOK, Types
  <2>2. ASSUME NEW q \in Paths \ writes[t] PROVE fs'[q] = Recoverable[q]
    BY <1>1, <1>6, OneToRecover DEF TypeOK, Types
  <2> QED
    BY <1>1, <1>4, <2>1, <2>2 DEF TypeOK, Types
<1>9. Verdict[t] = "pending"
  BY <1>1, <1>2 DEF Verdict, VerdictOf
<1>10. Verdict' = [Verdict EXCEPT ![t] = "committed"]
  <2>1. VerdictOf(t)' = "committed"
    <3>1. phase'[t] = "cleanup" /\ outcome'[t] = "none"
      BY <1>1, <1>2 DEF TypeOK, Types
    <3> QED
      BY <3>1 DEF VerdictOf
  <2>2. ASSUME NEW u \in Txns \ {t} PROVE VerdictOf(u)' = VerdictOf(u)
    BY <1>1 DEF VerdictOf, TypeOK, Types
  <2> QED
    BY <2>1, <2>2 DEF Verdict
<1> QED
  BY <1>1, <1>2, <1>7, <1>8, <1>9, <1>10 DEF Abstract!Commit

\* Every step of a batch or an editor is one of AtomicBatch or changes nothing
\* that can be seen there.
LEMMA AtomicStep ==
  ASSUME Undisturbed, TypeOK, TypeOK', Exclusive, Exclusive',
         \A t \in Txns : Secured(t), \A t \in Txns : Traceless(t),
         \A t \in Txns : Decided(t), [Next]_vars
  PROVE  [Abstract!Next]_(Abstract!vars)
<1> DEFINE Mapped == [Abstract!Next]_(Abstract!vars)
<1> USE DEF batch
<1>1. ASSUME NEW p \in Paths, Edit(p) PROVE Mapped
  <2>1. \A t \in Txns : ~Uncommitted(t) /\ ~Uncommitted(t)'
    BY <1>1 DEF Edit, Quiet, Undisturbed, Uncommitted, Window
  <2>2. Recoverable = fs /\ Recoverable' = fs'
    BY <2>1, NothingToRecover, NothingToRecoverNext
  <2>3. Verdict' = Verdict
    BY <1>1 DEF Edit, Verdict, VerdictOf
  <2>4. Abstract!Edit(p)
    BY <1>1, <2>2, <2>3 DEF Edit, Abstract!Edit, TypeOK, Types
  <2> QED
    BY <2>4 DEF Abstract!Next
<1>2. ASSUME NEW t \in Txns, NEW W \in (SUBSET Paths) \ {{}}, Plan(t, W) PROVE Mapped
  <2>1. Recoverable' = Recoverable
    BY <1>2, SameFiles DEF Plan, Uncommitted, TypeOK, Types
  <2>2. Abstract!Plan(t, W)
    BY <1>2, <2>1, PlanMaps
  <2> QED
    BY <2>2 DEF Abstract!Next
<1>3. ASSUME NEW t \in Txns, NEW p \in Paths, Preflight(t, p) PROVE Mapped
  <2>1. Recoverable' = Recoverable
    BY <1>3, SameFiles DEF Preflight, Advance, Uncommitted, TypeOK, Types
  <2>2. Verdict' = Verdict
    BY <1>3 DEF Preflight, Advance, Verdict, VerdictOf, TypeOK, Types
  <2> QED
    BY <1>3, <2>1, <2>2, StutterMaps DEF Preflight
<1>4. ASSUME NEW t \in Txns, NEW p \in Paths, PreflightFails(t, p) PROVE Mapped
  <2>1. Recoverable' = Recoverable
    BY <1>4, SameFiles DEF PreflightFails, GiveUp, Uncommitted, TypeOK, Types
  <2>2. Abstract!Reject(t)
    BY <1>4, <2>1, GiveUpMaps DEF PreflightFails
  <2> QED
    BY <2>2 DEF Abstract!Next
<1>5. ASSUME NEW t \in Txns, NEW p \in Paths, Stage(t, p) PROVE Mapped
  <2>1. Recoverable' = Recoverable
    BY <1>5, SameFiles DEF Stage, Advance, Uncommitted, TypeOK, Types
  <2>2. Verdict' = Verdict
    BY <1>5 DEF Stage, Advance, Verdict, VerdictOf, TypeOK, Types
  <2> QED
    BY <1>5, <2>1, <2>2, StutterMaps DEF Stage
<1>6. ASSUME NEW t \in Txns, NEW p \in Paths, Revalidate(t, p) PROVE Mapped
  <2>1. ASSUME Uncommitted(t)' PROVE Recoverable' = Recoverable
    BY <1>6, <2>1, OpeningTheWindow DEF Revalidate
  <2>2. ASSUME ~Uncommitted(t)' PROVE Recoverable' = Recoverable
    BY <1>6, <2>2, SameFiles DEF Revalidate, Advance, Uncommitted, TypeOK, Types
  <2>3. Verdict' = Verdict
    BY <1>6 DEF Revalidate, Advance, Verdict, VerdictOf, TypeOK, Types
  <2> QED
    BY <1>6, <2>1, <2>2, <2>3, StutterMaps DEF Revalidate
<1>7. ASSUME NEW t \in Txns, NEW p \in Paths, RevalidateFails(t, p) PROVE Mapped
  <2>1. Recoverable' = Recoverable
    BY <1>7, SameFiles DEF RevalidateFails, GiveUp, Uncommitted, TypeOK, Types
  <2>2. Abstract!Reject(t)
    BY <1>7, <2>1, GiveUpMaps DEF RevalidateFails
  <2> QED
    BY <2>2 DEF Abstract!Next
<1>8. ASSUME NEW t \in Txns, NEW p \in Paths, BackUp(t, p) PROVE Mapped
  <2>1. \A q \in Paths : Restored(t, q)' = Restored(t, q)
    <3>1. /\ backup[t][p] = Absent /\ p \notin installed[t] /\ installed' = installed
          /\ fs' = [fs EXCEPT ![p] = Absent] /\ backup' = [backup EXCEPT ![t][p] = fs[p]]
      BY <1>8 DEF BackUp, Secured, Pristine, Moved, InPlace, IsFirst
    <3> QED
      BY <3>1 DEF Restored, TypeOK, Types
  <2>2. Recoverable' = Recoverable
    BY <1>8, <2>1, WithinTheWindow DEF BackUp, Uncommitted
  <2>3. Verdict' = Verdict
    BY <1>8 DEF BackUp, Verdict, VerdictOf
  <2> QED
    BY <1>8, <2>2, <2>3, StutterMaps DEF BackUp
<1>9. ASSUME NEW t \in Txns, NEW p \in Paths, Install(t, p) PROVE Mapped
  <2>1. CASE todo[t] = {p}
    BY <1>9, <2>1, InstallMaps DEF Abstract!Next
  <2>2. CASE todo[t] # {p}
    <3>1. /\ phase[t] = "commit" /\ phase' = phase /\ outcome' = outcome
          /\ backup' = backup /\ installed' = [installed EXCEPT ![t] = @ \cup {p}]
          /\ fs' = [fs EXCEPT ![p] = t]
      BY <1>9, <2>2 DEF Install, Advance
    <3>2. backup[t][p] = Absent => fs[p] = Absent
      BY <1>9, <3>1 DEF Install, Secured, Pristine, Moved, InPlace, IsFirst, TypeOK, Bookkeeping
    <3>3. \A q \in Paths : Restored(t, q)' = Restored(t, q)
      BY <3>1, <3>2 DEF Restored, TypeOK, Types
    <3>4. Recoverable' = Recoverable
      BY <3>1, <3>3, WithinTheWindow DEF Uncommitted
    <3>5. Verdict' = Verdict
      BY <3>1 DEF Verdict, VerdictOf
    <3> QED
      BY <1>9, <3>4, <3>5, StutterMaps DEF Install
  <2> QED
    BY <2>1, <2>2
<1>10. ASSUME NEW t \in Txns, NEW p \in Paths, CommitFails(t, p) PROVE Mapped
  <2>1. Recoverable' = Recoverable
    BY <1>10, SameFiles DEF CommitFails, GiveUp, Uncommitted, TypeOK, Types
  <2>2. Abstract!Reject(t)
    BY <1>10, <2>1, GiveUpMaps DEF CommitFails
  <2> QED
    BY <2>2 DEF Abstract!Next
<1>11. ASSUME NEW t \in Txns, NEW p \in Paths, RollbackRemove(t, p) PROVE Mapped
  <2>1. \A q \in Paths : Restored(t, q)' = Restored(t, q)
    BY <1>11 DEF RollbackRemove, Restored, TypeOK, Types
  <2>2. Recoverable' = Recoverable
    BY <1>11, <2>1, WithinTheWindow DEF RollbackRemove, Uncommitted
  <2>3. Verdict' = Verdict
    BY <1>11 DEF RollbackRemove, Verdict, VerdictOf
  <2> QED
    BY <1>11, <2>2, <2>3, StutterMaps DEF RollbackRemove
<1>12. ASSUME NEW t \in Txns, NEW p \in Paths, RollbackRestore(t, p) PROVE Mapped
  <2>1. \A q \in Paths : Restored(t, q)' = Restored(t, q)
    BY <1>12 DEF RollbackRestore, Restored, TypeOK, Types
  <2>2. Recoverable' = Recoverable
    BY <1>12, <2>1, WithinTheWindow DEF RollbackRestore, Uncommitted
  <2>3. Verdict' = Verdict
    BY <1>12 DEF RollbackRestore, Verdict, VerdictOf
  <2> QED
    BY <1>12, <2>2, <2>3, StutterMaps DEF RollbackRestore
<1>13. ASSUME NEW t \in Txns, NEW p \in Paths, RollbackFails(t, p) PROVE FALSE
  BY <1>13 DEF RollbackFails, Undisturbed
<1>14. ASSUME NEW t \in Txns, StageFails(t) PROVE Mapped
  <2>1. Recoverable' = Recoverable
    BY <1>14, SameFiles DEF StageFails, GiveUp, Uncommitted, TypeOK, Types
  <2>2. Abstract!Reject(t)
    BY <1>14, <2>1, GiveUpMaps DEF StageFails
  <2> QED
    BY <2>2 DEF Abstract!Next
<1>15. ASSUME NEW t \in Txns, Cleanup(t) PROVE Mapped
  <2>1. \A u \in Txns : ~Uncommitted(u) /\ ~Uncommitted(u)'
    BY <1>15 DEF Cleanup, Uncommitted, Exclusive, Window, TypeOK, Types
  <2>2. Recoverable' = Recoverable
    BY <1>15, <2>1, NothingToRecover, NothingToRecoverNext DEF Cleanup
  <2>3. Verdict' = Verdict
    <3>1. outcome[t] = "none" /\ phase[t] = "cleanup"
      BY <1>15 DEF Cleanup, Decided, Phases
    <3>2. VerdictOf(t)' = VerdictOf(t)
      BY <1>15, <3>1 DEF Cleanup, VerdictOf, TypeOK, Types
    <3>3. ASSUME NEW u \in Txns \ {t} PROVE VerdictOf(u)' = VerdictOf(u)
      BY <1>15 DEF Cleanup, VerdictOf, TypeOK, Types
    <3> QED
      BY <3>2, <3>3 DEF Verdict
  <2> QED
    BY <1>15, <2>2, <2>3, StutterMaps DEF Cleanup
<1>16. ASSUME NEW t \in Txns, RollbackDone(t) PROVE Mapped
  <2>1. Recoverable' = Recoverable
    BY <1>16, ClosingTheWindow DEF Undisturbed
  <2>2. Verdict' = Verdict
    BY <1>16 DEF RollbackDone, Verdict, VerdictOf, TypeOK, Types
  <2> QED
    BY <1>16, <2>1, <2>2, StutterMaps DEF RollbackDone
<1>17. ASSUME NEW t \in Txns, Sweep(t) PROVE Mapped
  <2>1. Recoverable' = Recoverable
    BY <1>17, SameFiles DEF Sweep, Uncommitted, TypeOK, Types
  <2>2. Verdict' = Verdict
    BY <1>17 DEF Sweep, Verdict, VerdictOf, TypeOK, Types
  <2> QED
    BY <1>17, <2>1, <2>2, StutterMaps DEF Sweep
<1>18. ASSUME NEW t \in Txns, Crash(t) PROVE FALSE
  BY <1>18 DEF Crash, Undisturbed
<1>19. CASE UNCHANGED vars
  <2>1. Recoverable' = Recoverable
    BY <1>19, SameFiles DEF vars, Uncommitted
  <2>2. Verdict' = Verdict
    BY <1>19 DEF vars, Verdict, VerdictOf
  <2> QED
    BY <1>19, <2>1, <2>2, StutterMaps DEF vars
<1> QED
  BY <1>1, <1>2, <1>3, <1>4, <1>5, <1>6, <1>7, <1>8, <1>9, <1>10, <1>11,
     <1>12, <1>13, <1>14, <1>15, <1>16, <1>17, <1>18, <1>19 DEF Next, Run

\* writeBatchAtomic, undisturbed, is a compare-and-swap of all the files of a
\* batch in one step, whatever fails but a rollback.
THEOREM BatchesAreAtomic == Undisturbed => (Spec => Abstract!Atomic)
<1> SUFFICES ASSUME Undisturbed PROVE Spec => Abstract!Atomic
  OBVIOUS
<1>1. Init => Abstract!Init
  <2> SUFFICES ASSUME Init PROVE Abstract!Init
    OBVIOUS
  <2>1. TypeOK /\ \A t \in Txns : ~Uncommitted(t)
    BY DEF Init, TypeOK, Types, Bookkeeping, Files, Contents, Phases, Outcomes, Uncommitted
  <2>2. Recoverable = fs
    BY <2>1, NothingToRecover
  <2>3. Verdict = [t \in Txns |-> "pending"]
    BY DEF Init, Verdict, VerdictOf
  <2> QED
    BY <2>2, <2>3 DEF Init, Abstract!Init
<1>2. Init => UnwrittenInv /\ TracelessInv /\ DecidedInv
  BY ContentsAssumption
  DEF Init, UnwrittenInv, Unwritten, TracelessInv, Traceless, Held, Contents,
      DecidedInv, Decided
<1>3. TypeOK /\ UnwrittenInv /\ [Next]_vars => UnwrittenInv'
  BY UnwrittenStep DEF UnwrittenInv
<1>4. TypeOK /\ UnwrittenInv /\ WindowInv /\ TracelessInv /\ [Next]_vars => TracelessInv'
  BY TracelessStep DEF WindowInv, TracelessInv
<1>5. TypeOK /\ WindowInv /\ DecidedInv /\ [Next]_vars => DecidedInv'
  BY DecidedStep DEF WindowInv, DecidedInv, Undisturbed
<1>6. /\ TypeOK /\ TypeOK' /\ WindowInv /\ WindowInv' /\ TracelessInv /\ DecidedInv
      /\ [Next]_vars
      => [Abstract!Next]_(Abstract!vars)
  BY AtomicStep DEF WindowInv, TracelessInv, DecidedInv, Undisturbed
<1> QED
  BY <1>1, <1>2, <1>3, <1>4, <1>5, <1>6, TypeCorrect, WindowCorrect, PTL
  DEF Spec, Abstract!Atomic
=============================================================================
