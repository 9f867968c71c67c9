-------------------------- MODULE PlanTransaction --------------------------
(***************************************************************************)
(* Applying a plan to the workspace: the freshness preflight of            *)
(* HarnessCompiler.apply (src/application/compiler.ts) and                 *)
(* NodeWorkspace.writeBatchAtomic                                          *)
(* (src/infrastructure/filesystem/node-workspace.ts), for any number of    *)
(* processes that apply plans to the same files while other programs edit  *)
(* them.                                                                   *)
(*                                                                         *)
(* Every `await` of the code is a step here, so another process may run    *)
(* between any two of them.  A batch works through its files in path order *)
(* and rolls back in the reverse order.  Contents are abstract: a file     *)
(* holds the Original content, what a batch or an edit wrote, or nothing.  *)
(***************************************************************************)
EXTENDS Integers, FiniteSets

CONSTANTS
  Paths,         \* the files, numbered in the order of their paths
  Txns,          \* the batches; a batch's name is also the content it writes
  Edits,         \* the contents that other programs may write, each once
  Original,      \* the content of the files that exist at the start
  Absent,        \* the "content" of a file that does not exist
  Interference,  \* may others write to the files inside a commit window?
  Faults,        \* the kinds of step in which an I/O call may fail
  Crashes        \* may a process die between two steps?

FaultKinds == {"read", "stage", "commit", "rollback", "cleanup"}
Contents == {Original} \cup Txns \cup Edits
Files == Contents \cup {Absent}

ASSUME PathsAssumption == Paths \subseteq Int /\ IsFiniteSet(Paths)
ASSUME ContentsAssumption ==
  /\ Absent \notin Contents
  /\ Original \notin Txns \cup Edits
  /\ Txns \cap Edits = {}
ASSUME EnvironmentAssumption ==
  /\ Interference \in BOOLEAN
  /\ Faults \subseteq FaultKinds
  /\ Crashes \in BOOLEAN

VARIABLES
  fs,           \* fs[p]: the content of file p
  unusedEdits,  \* the edits that have not been made yet
  phase,        \* phase[t]: where batch t is
  outcome,      \* outcome[t]: how t ended, or is about to end
  writes,       \* writes[t]: the files t replaces
  previous,     \* previous[t][p]: the content of p that t was planned over
  todo,         \* todo[t]: the files the current loop of t has not reached
  staged,       \* staged[t]: the files that have a .tmp file of t
  backup,       \* backup[t][p]: the content of t's .rollback file for p
  committed,    \* committed[t]: the files t has a commit record for
  installed     \* installed[t]: the records whose .tmp file became the file

batch == <<phase, outcome, writes, previous, todo, staged, committed, installed>>
vars == <<fs, unusedEdits, backup, batch>>

Phases == {"idle", "preflight", "stage", "revalidate", "commit", "rollback",
           "cleanup", "sweep", "done"}
Outcomes == {"none", "applied", "conflict", "io", "rollback-failed", "crashed"}

Types ==
  /\ fs \in [Paths -> Files]
  /\ unusedEdits \subseteq Edits
  /\ phase \in [Txns -> Phases]
  /\ outcome \in [Txns -> Outcomes]
  /\ writes \in [Txns -> SUBSET Paths]
  /\ previous \in [Txns -> [Paths -> Files]]
  /\ todo \in [Txns -> SUBSET Paths]
  /\ staged \in [Txns -> SUBSET Paths]
  /\ backup \in [Txns -> [Paths -> Files]]
  /\ committed \in [Txns -> SUBSET Paths]
  /\ installed \in [Txns -> SUBSET Paths]

\* A batch only ever deals with the files it writes.
Bookkeeping(t) ==
  /\ phase[t] = "idle" => writes[t] = {}
  /\ todo[t] \subseteq writes[t]
  /\ staged[t] \subseteq writes[t]
  /\ committed[t] \subseteq writes[t]
  /\ installed[t] \subseteq writes[t]

\* The type invariant.
TypeOK == Types /\ \A t \in Txns : Bookkeeping(t)

Init ==
  /\ fs \in [Paths -> {Original, Absent}]
  /\ unusedEdits = Edits
  /\ phase = [t \in Txns |-> "idle"]
  /\ outcome = [t \in Txns |-> "none"]
  /\ writes = [t \in Txns |-> {}]
  /\ previous = [t \in Txns |-> [p \in Paths |-> Absent]]
  /\ todo = [t \in Txns |-> {}]
  /\ staged = [t \in Txns |-> {}]
  /\ backup = [t \in Txns |-> [p \in Paths |-> Absent]]
  /\ committed = [t \in Txns |-> {}]
  /\ installed = [t \in Txns |-> {}]

-----------------------------------------------------------------------------
(* The batch's loops: the next file in path order, and the last one.       *)

IsFirst(p, S) == p \in S /\ \A q \in S : p <= q
IsLast(p, S) == p \in S /\ \A q \in S : q <= p

\* The files may change under t from its first re-read until it is over.
Window == {"revalidate", "commit", "rollback", "cleanup"}
Quiet(T) == Interference \/ \A t \in T : phase[t] \notin Window

\* t has dealt with p: it goes to `then` when p was the last file of the loop.
Advance(t, p, here, then) ==
  IF todo[t] = {p}
  THEN /\ phase' = [phase EXCEPT ![t] = then]
       /\ todo' = [todo EXCEPT ![t] = writes[t]]
  ELSE /\ phase[t] = here
       /\ todo' = [todo EXCEPT ![t] = @ \ {p}]
       /\ UNCHANGED phase

\* t stops what it is doing, because of `cause`, and goes to `then`.
GiveUp(t, cause, then) ==
  /\ phase' = [phase EXCEPT ![t] = then]
  /\ outcome' = [outcome EXCEPT ![t] = cause]
  /\ todo' = [todo EXCEPT ![t] = {}]

-----------------------------------------------------------------------------
(* The environment.                                                        *)

\* Another program replaces or deletes a file; each costs one of Edits.
Edit(p) ==
  /\ Quiet(Txns)
  /\ \E e \in unusedEdits :
       /\ unusedEdits' = unusedEdits \ {e}
       /\ \E c \in {e, Absent} : fs' = [fs EXCEPT ![p] = c]
  /\ UNCHANGED <<batch, backup>>

\* Seeded fault: the loops cover every file, not only those to be replaced.
Plan_AllFiles(t, W) ==
  /\ phase[t] = "idle"
  /\ phase' = [phase EXCEPT ![t] = "preflight"]
  /\ writes' = [writes EXCEPT ![t] = W]
  /\ todo' = [todo EXCEPT ![t] = Paths]
  /\ previous' = [previous EXCEPT ![t] = fs]
  /\ UNCHANGED <<fs, unusedEdits, outcome, staged, backup, committed, installed>>

\* A plan is made from the files as they are now.  It replaces the files W.
Plan(t, W) ==
  /\ phase[t] = "idle"
  /\ phase' = [phase EXCEPT ![t] = "preflight"]
  /\ writes' = [writes EXCEPT ![t] = W]
  /\ todo' = [todo EXCEPT ![t] = W]
  /\ previous' = [previous EXCEPT ![t] = fs]
  /\ UNCHANGED <<fs, unusedEdits, outcome, staged, backup, committed, installed>>

\* The process of t dies.  Its .tmp and .rollback files stay.
Crash(t) ==
  /\ Crashes
  /\ phase[t] \notin {"idle", "done"}
  /\ GiveUp(t, "crashed", "done")
  /\ UNCHANGED <<fs, unusedEdits, writes, previous, staged, backup, committed,
                 installed>>

-----------------------------------------------------------------------------
(* HarnessCompiler.apply: every operation is compared with its file.       *)

Preflight(t, p) ==
  /\ phase[t] = "preflight"
  /\ IsFirst(p, todo[t])
  /\ fs[p] = previous[t][p]
  /\ Advance(t, p, "preflight", "stage")
  /\ UNCHANGED <<fs, unusedEdits, outcome, writes, previous, staged, backup,
                 committed, installed>>

PreflightFails(t, p) ==
  /\ phase[t] = "preflight"
  /\ IsFirst(p, todo[t])
  /\ \/ fs[p] # previous[t][p] /\ GiveUp(t, "conflict", "done")
     \/ "read" \in Faults /\ GiveUp(t, "io", "done")
  /\ UNCHANGED <<fs, unusedEdits, writes, previous, staged, backup, committed,
                 installed>>

-----------------------------------------------------------------------------
(* NodeWorkspace.writeBatchAtomic.                                         *)

\* The new content of p goes to a .tmp file beside it (#stageWrite).
Stage(t, p) ==
  /\ phase[t] = "stage"
  /\ IsFirst(p, todo[t])
  /\ todo[t] = {p} => Quiet(Txns \ {t})
  /\ staged' = [staged EXCEPT ![t] = @ \cup {p}]
  /\ Advance(t, p, "stage", "revalidate")
  /\ UNCHANGED <<fs, unusedEdits, outcome, writes, previous, backup, committed,
                 installed>>

StageFails(t) ==
  /\ phase[t] = "stage"
  /\ "stage" \in Faults
  /\ GiveUp(t, "io", "sweep")
  /\ UNCHANGED <<fs, unusedEdits, writes, previous, staged, backup, committed,
                 installed>>

\* Seeded fault: the file is read again but not compared.
Revalidate_NoCompare(t, p) ==
  /\ phase[t] = "revalidate"
  /\ IsFirst(p, todo[t])
  /\ Advance(t, p, "revalidate", "commit")
  /\ UNCHANGED <<fs, unusedEdits, outcome, writes, previous, staged, backup,
                 committed, installed>>

\* Every file is read again and compared with what the plan was made over.
Revalidate(t, p) ==
  /\ phase[t] = "revalidate"
  /\ IsFirst(p, todo[t])
  /\ fs[p] = previous[t][p]
  /\ Advance(t, p, "revalidate", "commit")
  /\ UNCHANGED <<fs, unusedEdits, outcome, writes, previous, staged, backup,
                 committed, installed>>

RevalidateFails(t, p) ==
  /\ phase[t] = "revalidate"
  /\ IsFirst(p, todo[t])
  /\ \/ fs[p] # previous[t][p] /\ GiveUp(t, "conflict", "sweep")
     \/ "read" \in Faults /\ GiveUp(t, "io", "sweep")
  /\ UNCHANGED <<fs, unusedEdits, writes, previous, staged, backup, committed,
                 installed>>

\* rename(target, backup): whatever is in the file now becomes the backup.
BackUp(t, p) ==
  /\ phase[t] = "commit"
  /\ IsFirst(p, todo[t])
  /\ p \notin committed[t]
  /\ previous[t][p] # Absent
  /\ fs[p] # Absent
  /\ committed' = [committed EXCEPT ![t] = @ \cup {p}]
  /\ backup' = [backup EXCEPT ![t][p] = fs[p]]
  /\ fs' = [fs EXCEPT ![p] = Absent]
  /\ UNCHANGED <<unusedEdits, phase, outcome, writes, previous, todo, staged,
                 installed>>

\* Seeded fault: the file is replaced whether or not it has been backed up.
Install_NoBackup(t, p) ==
  /\ phase[t] = "commit"
  /\ IsFirst(p, todo[t])
  /\ committed' = [committed EXCEPT ![t] = @ \cup {p}]
  /\ installed' = [installed EXCEPT ![t] = @ \cup {p}]
  /\ staged' = [staged EXCEPT ![t] = @ \ {p}]
  /\ fs' = [fs EXCEPT ![p] = t]
  /\ Advance(t, p, "commit", "cleanup")
  /\ UNCHANGED <<unusedEdits, outcome, writes, previous, backup>>

\* rename(temporary, target): whatever is in the file now is replaced.
Install(t, p) ==
  /\ phase[t] = "commit"
  /\ IsFirst(p, todo[t])
  /\ p \in committed[t] \/ previous[t][p] = Absent
  /\ committed' = [committed EXCEPT ![t] = @ \cup {p}]
  /\ installed' = [installed EXCEPT ![t] = @ \cup {p}]
  /\ staged' = [staged EXCEPT ![t] = @ \ {p}]
  /\ fs' = [fs EXCEPT ![p] = t]
  /\ Advance(t, p, "commit", "cleanup")
  /\ UNCHANGED <<unusedEdits, outcome, writes, previous, backup>>

\* Seeded fault: a rename that fails is reported as a stale plan.
CommitFails_AsConflict(t, p) ==
  /\ phase[t] = "commit"
  /\ IsFirst(p, todo[t])
  /\ \/ "commit" \in Faults
     \/ p \notin committed[t] /\ previous[t][p] # Absent /\ fs[p] = Absent
  /\ committed' = [committed EXCEPT ![t] = @ \cup {p}]
  /\ GiveUp(t, "conflict", "rollback")
  /\ UNCHANGED <<fs, unusedEdits, writes, previous, staged, backup, installed>>

\* One of the two renames fails: the file to back up is gone, or an I/O error.
CommitFails(t, p) ==
  /\ phase[t] = "commit"
  /\ IsFirst(p, todo[t])
  /\ \/ "commit" \in Faults
     \/ p \notin committed[t] /\ previous[t][p] # Absent /\ fs[p] = Absent
  /\ committed' = [committed EXCEPT ![t] = @ \cup {p}]
  /\ GiveUp(t, "io", "rollback")
  /\ UNCHANGED <<fs, unusedEdits, writes, previous, staged, backup, installed>>

\* All files are in place: the backups are deleted, errors are ignored.
Cleanup(t) ==
  /\ phase[t] = "cleanup"
  /\ \E kept \in SUBSET committed[t] :
       /\ kept # {} => "cleanup" \in Faults
       /\ backup' = [backup EXCEPT ![t] =
                       [p \in Paths |-> IF p \in kept THEN @[p] ELSE Absent]]
  /\ phase' = [phase EXCEPT ![t] = "done"]
  /\ outcome' = [outcome EXCEPT ![t] = "applied"]
  /\ UNCHANGED <<fs, unusedEdits, writes, previous, todo, staged, committed,
                 installed>>

\* Seeded fault: a file that the batch created is not removed.
RollbackRemove_CreatedStays(t, p) ==
  /\ phase[t] = "rollback"
  /\ IsLast(p, committed[t])
  /\ p \in installed[t]
  /\ fs' = IF backup[t][p] # Absent THEN [fs EXCEPT ![p] = Absent] ELSE fs
  /\ installed' = [installed EXCEPT ![t] = @ \ {p}]
  /\ UNCHANGED <<unusedEdits, phase, outcome, writes, previous, todo, staged,
                 backup, committed>>

\* Rollback of the last record, first half: rm(target) if t installed it.
RollbackRemove(t, p) ==
  /\ phase[t] = "rollback"
  /\ IsLast(p, committed[t])
  /\ p \in installed[t]
  /\ fs' = [fs EXCEPT ![p] = Absent]
  /\ installed' = [installed EXCEPT ![t] = @ \ {p}]
  /\ UNCHANGED <<unusedEdits, phase, outcome, writes, previous, todo, staged,
                 backup, committed>>

\* Seeded fault: the loop does not move on to the record before.
RollbackRestore_Stays(t, p) ==
  /\ phase[t] = "rollback"
  /\ IsLast(p, committed[t])
  /\ p \notin installed[t]
  /\ fs' = IF backup[t][p] # Absent THEN [fs EXCEPT ![p] = backup[t][p]] ELSE fs
  /\ backup' = [backup EXCEPT ![t][p] = Absent]
  /\ UNCHANGED <<unusedEdits, phase, outcome, writes, previous, todo, staged,
                 committed, installed>>

\* Second half: rename(backup, target) if there is a backup.
RollbackRestore(t, p) ==
  /\ phase[t] = "rollback"
  /\ IsLast(p, committed[t])
  /\ p \notin installed[t]
  /\ fs' = IF backup[t][p] # Absent THEN [fs EXCEPT ![p] = backup[t][p]] ELSE fs
  /\ backup' = [backup EXCEPT ![t][p] = Absent]
  /\ committed' = [committed EXCEPT ![t] = @ \ {p}]
  /\ UNCHANGED <<unusedEdits, phase, outcome, writes, previous, todo, staged,
                 installed>>

\* A rollback step fails: it is noted and the other records are rolled back.
RollbackFails(t, p) ==
  /\ phase[t] = "rollback"
  /\ IsLast(p, committed[t])
  /\ "rollback" \in Faults
  /\ outcome' = [outcome EXCEPT ![t] = "rollback-failed"]
  /\ committed' = [committed EXCEPT ![t] = @ \ {p}]
  /\ UNCHANGED <<fs, unusedEdits, phase, writes, previous, todo, staged, backup,
                 installed>>

RollbackDone(t) ==
  /\ phase[t] = "rollback"
  /\ committed[t] = {}
  /\ phase' = [phase EXCEPT ![t] = "sweep"]
  /\ UNCHANGED <<fs, unusedEdits, outcome, writes, previous, todo, staged, backup,
                 committed, installed>>

\* The .tmp files are deleted, errors are ignored, and the error is reported.
Sweep(t) ==
  /\ phase[t] = "sweep"
  /\ \E kept \in SUBSET staged[t] :
       /\ kept # {} => "cleanup" \in Faults
       /\ staged' = [staged EXCEPT ![t] = kept]
  /\ phase' = [phase EXCEPT ![t] = "done"]
  /\ UNCHANGED <<fs, unusedEdits, outcome, writes, previous, todo, backup,
                 committed, installed>>

-----------------------------------------------------------------------------

\* The steps of one batch, its own I/O errors included.
Run(t) ==
  \/ \E p \in Paths :
       \/ Preflight(t, p) \/ PreflightFails(t, p)
       \/ Stage(t, p)
       \/ Revalidate(t, p) \/ RevalidateFails(t, p)
       \/ BackUp(t, p) \/ Install(t, p) \/ CommitFails(t, p)
       \/ RollbackRemove(t, p) \/ RollbackRestore(t, p) \/ RollbackFails(t, p)
  \/ StageFails(t)
  \/ Cleanup(t)
  \/ RollbackDone(t)
  \/ Sweep(t)

Next ==
  \/ \E p \in Paths : Edit(p)
  \/ \E t \in Txns : \/ \E W \in (SUBSET Paths) \ {{}} : Plan(t, W)
                     \/ Run(t)
                     \/ Crash(t)

Spec == Init /\ [][Next]_vars

\* A process that has not died goes on running: its I/O calls return.
FairSpec == Spec /\ \A t \in Txns : WF_vars(Run(t))

-----------------------------------------------------------------------------
(* Safety.                                                                 *)

\* A content that some file or some .rollback file of p holds.
Held(p, c) == fs[p] = c \/ \E t \in Txns : backup[t][p] = c

\* What may destroy the content c of file p: another program that replaces it,
\* a batch planned over c that has installed all it writes, or the rollback of
\* the batch that wrote c.
MayDestroy(p, c) ==
  \/ unusedEdits' # unusedEdits /\ fs[p] = c
  \/ \E t \in Txns :
       \/ /\ phase[t] = "cleanup"
          /\ p \in writes[t]
          /\ previous[t][p] = c
          /\ \A q \in writes[t] : fs[q] = t
       \/ c = t /\ phase[t] = "rollback"

\* No step of writeBatchAtomic, failing or not, and no death of the process,
\* loses a file content: it stays in its file or in a .rollback file until a
\* batch that was planned over it is completely in place.
ContentSurvives ==
  [][\A p \in Paths, c \in Contents :
       Held(p, c) /\ ~Held(p, c)' => MayDestroy(p, c)]_vars

\* A batch that reports a stale plan has written nothing, whoever interferes:
\* not one of its contents is in a file or in a backup.
StalePlanNeverWrites ==
  \A t \in Txns : outcome[t] = "conflict" =>
    \A p \in Paths : ~Held(p, t)

\* A batch that fails and reports no failed rollback has left nothing behind:
\* no content of its own, and no content kept from its file in a backup.
FailureIsClean ==
  \A t \in Txns : phase[t] = "done" /\ outcome[t] \in {"conflict", "io"} =>
    \A p \in Paths : fs[p] # t /\ backup[t][p] = Absent

\* Every applied plan ends: applied, refused, failed or dead.
Terminates == \A t \in Txns : phase[t] = "preflight" ~> phase[t] = "done"

-----------------------------------------------------------------------------
(* Why these hold: where a batch stands with each of its files.            *)

\* No record, no backup: the batch has not come to p.
Pristine(t, p) ==
  p \notin committed[t] /\ p \notin installed[t] /\ backup[t][p] = Absent

\* The old file is in the backup and the new one is not in place.
Moved(t, p) ==
  /\ p \in committed[t] \ installed[t]
  /\ backup[t][p] = previous[t][p]
  /\ fs[p] = Absent

\* The old file, if there was one, is in the backup and the new one in place.
InPlace(t, p) ==
  /\ p \in committed[t] \cap installed[t]
  /\ backup[t][p] = previous[t][p]
  /\ fs[p] = t

Secured(t) ==
  /\ phase[t] \in {"idle", "preflight", "stage", "revalidate"} =>
       \A p \in Paths : Pristine(t, p)
  /\ phase[t] = "revalidate" =>
       \A p \in writes[t] \ todo[t] : fs[p] = previous[t][p]
  /\ phase[t] = "commit" =>
       \A p \in Paths :
         IF p \in writes[t] \ todo[t]
         THEN InPlace(t, p)
         ELSE \/ Pristine(t, p) /\ (p \in writes[t] => fs[p] = previous[t][p])
              \/ Moved(t, p)
  /\ phase[t] = "cleanup" =>
       \A p \in Paths : IF p \in writes[t] THEN InPlace(t, p) ELSE Pristine(t, p)
  /\ phase[t] = "rollback" =>
       \A p \in committed[t] :
         \/ InPlace(t, p)
         \/ Moved(t, p)
         \/ p \notin installed[t] /\ backup[t][p] = Absent

\* At most one batch is in its commit window.
Exclusive ==
  \A t, u \in Txns : phase[t] \in Window /\ phase[u] \in Window => t = u

\* The inductive invariant of a workspace whose commit windows are undisturbed.
WindowInv == ~Interference => Exclusive /\ \A t \in Txns : Secured(t)

\* A batch has written nothing before its commit phase, and reports a stale
\* plan only there.
Unwritten(t) ==
  /\ outcome[t] = "conflict" => phase[t] \in {"sweep", "done"}
  /\ \/ phase[t] \in {"idle", "preflight", "stage", "revalidate"}
     \/ outcome[t] = "conflict"
     => \A p \in Paths : ~Held(p, t)

\* The inductive invariant behind StalePlanNeverWrites.
UnwrittenInv == \A t \in Txns : Unwritten(t)

\* While t can still be rolled back its content is only where its records say,
\* and a rollback that has gone through so far leaves no backup behind it.
Traceless(t) ==
  /\ phase[t] = "commit" \/ (phase[t] = "rollback" /\ outcome[t] = "io") =>
       \A p \in Paths :
         /\ fs[p] = t => p \in committed[t] \cap installed[t]
         /\ \A u \in Txns : backup[u][p] # t
         /\ p \notin committed[t] => backup[t][p] = Absent
  /\ phase[t] \in {"sweep", "done"} /\ outcome[t] \in {"conflict", "io"} =>
       \A p \in Paths : ~Held(p, t) /\ backup[t][p] = Absent

\* The inductive invariant behind FailureIsClean, with the two above.
TracelessInv == ~Interference => \A t \in Txns : Traceless(t)

-----------------------------------------------------------------------------
(* Refinement: while t is between its first rename and its last, the files *)
(* as recovery would restore them are still those from before the batch.   *)

Uncommitted(t) == phase[t] \in {"commit", "rollback"}

Recoverable ==
  [p \in Paths |->
     IF \E t \in Txns : Uncommitted(t) /\ backup[t][p] # Absent
     THEN backup[CHOOSE t \in Txns : Uncommitted(t) /\ backup[t][p] # Absent][p]
     ELSE IF \E t \in Txns : Uncommitted(t) /\ p \in installed[t]
          THEN Absent
          ELSE fs[p]]

VerdictOf(t) ==
  CASE phase[t] = "cleanup" \/ outcome[t] = "applied" -> "committed"
    [] outcome[t] \in {"conflict", "io"} -> "rejected"
    [] OTHER -> "pending"

Verdict == [t \in Txns |-> VerdictOf(t)]

Abstract == INSTANCE AtomicBatch WITH store <- Recoverable, verdict <- Verdict

\* When a batch is a compare-and-swap: nobody writes to its files between its
\* re-read and its last rename, no rollback step fails, the process survives.
Undisturbed == ~Interference /\ ~Crashes /\ "rollback" \notin Faults

\* What a batch that cannot be disturbed says of itself is what has become of it,
\* and its rollback removes what it has put in place before it drops a record.
Decided(t) ==
  /\ phase[t] # "idle" => writes[t] # {}
  /\ phase[t] \in Phases \ {"rollback", "sweep", "done"} => outcome[t] = "none"
  /\ phase[t] = "rollback" => outcome[t] = "io" /\ installed[t] \subseteq committed[t]
  /\ phase[t] = "sweep" => outcome[t] \in {"conflict", "io"}
  /\ phase[t] = "done" => outcome[t] \in {"applied", "conflict", "io"}

\* The inductive invariant behind the refinement, with WindowInv and TracelessInv.
DecidedInv == Undisturbed => \A t \in Txns : Decided(t)

\* writeBatchAtomic is a multi-file compare-and-swap, as long as nobody writes
\* to the files between its re-read and its last rename, no rollback step fails
\* and the process survives.
ImplementsAtomicBatch == Abstract!Spec

-----------------------------------------------------------------------------
(* What the documentation promises and the death of the process breaks.    *)

\* A dead process leaves all of its plan or nothing of it: README.md,
\* "generation is atomic".
CrashLeavesNoPartialPlan ==
  \A t \in Txns : phase[t] = "done" /\ outcome[t] = "crashed" =>
    \/ \A p \in writes[t] : fs[p] = t
    \/ \A p \in writes[t] : fs[p] = previous[t][p]
=============================================================================
