------------------------- MODULE Configuration_proofs -------------------------
(***************************************************************************)
(* Proofs about Configuration: what ConfigLifecycle, CommandLine and       *)
(* Detection promise, for any processes, documents, arguments, questions,  *)
(* extensions and files, and any number of edits by others.                *)
(*                                                                         *)
(* Lifecycle.  First what the migrations compute: Migrated is recursive,   *)
(* but it takes at most two migrations, so that its values can be written  *)
(* down; a downgrade is undone by the upgrade that follows, hence a detour *)
(* over another schema version loses nothing.  Then LifecycleInv, action   *)
(* by action: Begin preserves it whenever what is begun is Sound, and each *)
(* operation begins only what is.  What a replacement may do follows from  *)
(* the invariant in the state before it.                                   *)
(*                                                                         *)
(* Command line.  By induction over the arguments, what Readings computes  *)
(* describes them (Describes), so that what Parsed accepts is what a       *)
(* reader sees in the line.  With that, each step of the program is right, *)
(* given CommandFacts.                                                     *)
(*                                                                         *)
(* Detection.  An answer rests on evidence, and evidence is not overlooked *)
(* (SelectedHasEvidence, EvidenceIsSelected), if what is held and kept is  *)
(* related to the files as DetectionFacts says.                            *)
(***************************************************************************)
EXTENDS Configuration, TLAPS, WellFoundedInduction

-----------------------------------------------------------------------------
(* The lifecycle of aiyoke.yaml.                                           *)

\* The runtime settings of a document.
Runtimes == {"none", "default", "custom"}

\* The records that documents are among: Documents says which fields go together.
Shapes ==
  [version : 0 .. 3, monorepo : BOOLEAN, runtime : Runtimes, sound : BOOLEAN,
   canonical : BOOLEAN, name : Names]

\* d and e may differ in the schema version and the runtime settings only.
Same(d, e) ==
  d.sound = e.sound /\ d.canonical = e.canonical /\ d.name = e.name /\ d.monorepo = e.monorepo

\* Setting the version of a document changes nothing else.
LEMMA SetVersion ==
  ASSUME NEW d, d \in Shapes, NEW v, v \in 0 .. 3, NEW e, e = [d EXCEPT !.version = v]
  PROVE  e \in Shapes /\ Same(e, d) /\ e.version = v /\ e.runtime = d.runtime
  BY SMT DEF Shapes, Same, Runtimes

\* Setting the runtime of a document changes nothing else.
LEMMA SetRuntime ==
  ASSUME NEW d, d \in Shapes, NEW r, r \in Runtimes, NEW e, e = [d EXCEPT !.runtime = r]
  PROVE  e \in Shapes /\ Same(e, d) /\ e.version = d.version /\ e.runtime = r
  BY SMT DEF Shapes, Same, Runtimes

\* Printing a document makes it canonical and changes nothing else.
LEMMA PrintedEffect ==
  ASSUME NEW d, d \in Shapes
  PROVE  /\ Printed(d) \in Shapes /\ Printed(d).version = d.version /\ Printed(d).runtime = d.runtime
         /\ Printed(d).sound = d.sound /\ Printed(d).name = d.name /\ Printed(d).monorepo = d.monorepo
         /\ Printed(d).canonical = TRUE
<1>1. Printed(d) \in Shapes
  BY Zenon DEF Printed, Shapes
<1>2. /\ Printed(d).version = d.version /\ Printed(d).runtime = d.runtime /\ Printed(d).sound = d.sound
      /\ Printed(d).name = d.name /\ Printed(d).monorepo = d.monorepo /\ Printed(d).canonical = TRUE
  BY Zenon DEF Printed, Shapes
<1> QED
  BY <1>1, <1>2

\* Setting the name of a document, as `config` does, changes nothing else.
LEMMA SetName ==
  ASSUME NEW d, d \in Shapes, NEW n, n \in Names, NEW e, e = [d EXCEPT !.name = n]
  PROVE  /\ e \in Shapes /\ e.version = d.version /\ e.runtime = d.runtime
         /\ e.sound = d.sound /\ e.canonical = d.canonical /\ e.name = n /\ e.monorepo = d.monorepo
  BY SMT DEF Shapes, Runtimes

\* A document is known by its fields.
LEMMA SameShape ==
  ASSUME NEW d, d \in Shapes, NEW e, e \in Shapes,
         Same(d, e), d.version = e.version, d.runtime = e.runtime
  PROVE  d = e
  BY SMT DEF Shapes, Same

\* The documents are the records whose fields go together.
LEMMA DocumentIsShape ==
  ASSUME NEW d
  PROVE  /\ d \in Documents <=> /\ d \in Shapes
                                /\ d.version < 2 => ~d.monorepo
                                /\ d.version = 3 <=> d.runtime # "none"
                                /\ d.version = 0 => ~d.sound /\ ~d.canonical
         /\ d \in Documents => d.version \in 0 .. 3 /\ d.runtime \in Runtimes
  BY DEF Documents, Shapes, Current, Runtimes

\* The registered upgrades add one to the version and keep everything else; there is
\* none from version 3.
LEMMA UpEffect ==
  ASSUME NEW d, d \in Documents
  PROVE  /\ d.version \in {0, 3} => Up(d) = Absent
         /\ d.version = 1 => Up(d) \in Documents /\ Up(d).version = 2 /\ Same(Up(d), d) /\ Up(d).runtime = "none"
         /\ d.version = 2 => Up(d) \in Documents /\ Up(d).version = 3 /\ Same(Up(d), d) /\ Up(d).runtime = "default"
<1> d \in Shapes /\ d.version \in 0 .. 3 /\ d.runtime \in Runtimes
  BY DocumentIsShape
<1>1. CASE d.version = 1
  <2>1. Up(d) = [d EXCEPT !.version = 2]
    BY <1>1 DEF Up
  <2>2. Up(d) \in Shapes /\ Same(Up(d), d) /\ Up(d).version = 2 /\ Up(d).runtime = d.runtime
    BY <2>1, SetVersion
  <2>3. d.runtime = "none" /\ ~d.monorepo
    BY <1>1, DocumentIsShape
  <2> QED
    BY <1>1, <2>2, <2>3, DocumentIsShape DEF Same
<1>2. CASE d.version = 2
  <2> DEFINE f == [d EXCEPT !.version = 3]
  <2>1. Up(d) = [f EXCEPT !.runtime = "default"]
    BY <1>2 DEF Up
  <2>3. f \in Shapes /\ Same(f, d) /\ f.version = 3
    BY SetVersion
  <2> HIDE DEF f
  <2>4. Up(d) \in Shapes /\ Same(Up(d), f) /\ Up(d).version = 3 /\ Up(d).runtime = "default"
    BY <2>1, <2>3, SetRuntime DEF Runtimes
  <2>2. Up(d) \in Shapes /\ Same(Up(d), d) /\ Up(d).version = 3 /\ Up(d).runtime = "default"
    BY <2>3, <2>4 DEF Same
  <2> QED
    BY <1>2, <2>2, DocumentIsShape DEF Same
<1>3. CASE d.version \notin {1, 2}
  BY <1>3 DEF Up
<1> QED
  BY <1>1, <1>2, <1>3

\* A registered downgrade takes one from the version and keeps everything else, or it
\* is refused; version 3 goes down with the default runtime only.
LEMMA DownEffect ==
  ASSUME NEW d, d \in Documents
  PROVE  \/ Down(d) = Absent
         \/ /\ d.version \in {2, 3} /\ Down(d) \in Documents
            /\ Down(d).version = d.version - 1
            /\ d.version = 3 => d.runtime = "default"
            /\ Same(Down(d), d)
<1> d \in Shapes /\ d.version \in 0 .. 3 /\ d.runtime \in Runtimes
  BY DocumentIsShape
<1>1. CASE d.version = 3 /\ d.runtime = "default"
  <2> DEFINE f == [d EXCEPT !.version = 2]
  <2>1. Down(d) = [f EXCEPT !.runtime = "none"]
    BY <1>1 DEF Down
  <2>3. f \in Shapes /\ Same(f, d) /\ f.version = 2
    BY SetVersion
  <2> HIDE DEF f
  <2>4. Down(d) \in Shapes /\ Same(Down(d), f) /\ Down(d).version = 2 /\ Down(d).runtime = "none"
    BY <2>1, <2>3, SetRuntime DEF Runtimes
  <2>2. Down(d) \in Shapes /\ Same(Down(d), d) /\ Down(d).version = 2 /\ Down(d).runtime = "none"
    BY <2>3, <2>4 DEF Same
  <2> QED
    BY <1>1, <2>2, DocumentIsShape DEF Same
<1>2. CASE d.version = 2 /\ ~d.monorepo
  <2>1. Down(d) = [d EXCEPT !.version = 1]
    BY <1>2 DEF Down
  <2>2. Down(d) \in Shapes /\ Same(Down(d), d) /\ Down(d).version = 1 /\ Down(d).runtime = d.runtime
    BY <2>1, SetVersion
  <2> QED
    BY <1>2, <2>2, DocumentIsShape DEF Same
<1>3. CASE ~(d.version = 3 /\ d.runtime = "default") /\ ~(d.version = 2 /\ ~d.monorepo)
  BY <1>3 DEF Down
<1> QED
  BY <1>1, <1>2, <1>3

\* What a downgrade takes away, the upgrade gives back.
LEMMA UpUndoesDown ==
  ASSUME NEW d, d \in Documents, Down(d) # Absent
  PROVE  Up(Down(d)) = d
<1>1. /\ d.version \in {2, 3} /\ Down(d) \in Documents
      /\ Down(d).version = d.version - 1
      /\ d.version = 3 => d.runtime = "default"
      /\ Same(Down(d), d)
  BY DownEffect
<1>2. /\ Up(Down(d)) \in Documents /\ Same(Up(Down(d)), Down(d)) /\ Up(Down(d)).version = d.version
      /\ d.version = 3 => Up(Down(d)).runtime = d.runtime
      /\ d.version = 2 => Up(Down(d)).runtime = "none"
  BY <1>1, UpEffect
<1>3. /\ Up(Down(d)) \in Shapes /\ d \in Shapes /\ Same(Up(Down(d)), d)
      /\ Up(Down(d)).runtime = d.runtime
  BY <1>1, <1>2, DocumentIsShape DEF Same
<1> QED
  BY <1>2, <1>3, SameShape

\* What one use of the registry does, migration by migration.
MigrateOnce(e, target) == IF e.version < target THEN Up(e) ELSE Down(e)

\* One migration on the way to version t: nearer by one, with the same content, and the
\* upgrade undoes it if it was a downgrade.
LEMMA OnceEffect ==
  ASSUME NEW d, d \in Documents, NEW t, t \in 1 .. 3, d.version # t
  PROVE  \/ MigrateOnce(d, t) = Absent
         \/ /\ MigrateOnce(d, t) \in Documents /\ Same(MigrateOnce(d, t), d)
            /\ d.version < t => d.version # 0 /\ MigrateOnce(d, t).version = d.version + 1 /\ MigrateOnce(d, t) = Up(d)
            /\ d.version > t => MigrateOnce(d, t).version = d.version - 1 /\ Up(MigrateOnce(d, t)) = d
<1>1. d.version \in 0 .. 3
  BY DocumentIsShape
<1>2. CASE d.version < t
  BY <1>1, <1>2, UpEffect DEF MigrateOnce
<1>3. CASE d.version > t
  BY <1>1, <1>3, DownEffect, UpUndoesDown DEF MigrateOnce
<1> QED
  BY <1>1, <1>2, <1>3

\* The recursive function of Migrated is well defined, as there are two migrations.
LEMMA MigratedUnfolds ==
  ASSUME NEW t, t \in 1 .. 3
  PROVE  \A d \in Files :
           Migrated(d, t) = IF d = Absent THEN Absent ELSE IF d.version = t THEN d ELSE Migrated(MigrateOnce(d, t), t)
<1> DEFINE Over(e) == IF e = Absent THEN TRUE ELSE e.version = t
           Is(r) == r = [e \in Files |->
                           IF e = Absent THEN Absent
                           ELSE IF e.version = t THEN e
                           ELSE r[IF e.version < t THEN Up(e) ELSE Down(e)]]
           once == [e \in Files |-> MigrateOnce(e, t)]
           g == [e \in Files |-> IF Over(e) THEN e ELSE IF Over(once[e]) THEN once[e] ELSE once[once[e]]]
           reach == CHOOSE r : Is(r)
<1>1. \A e \in Files : ~Over(e) => once[e] \in Files
  BY OnceEffect DEF Files
<1>2. \A e \in Files : ~Over(e) /\ ~Over(once[e]) => Over(once[once[e]])
  <2> SUFFICES ASSUME NEW e \in Files, ~Over(e), ~Over(once[e]) PROVE Over(once[once[e]])
    OBVIOUS
  <2>1. e \in Documents /\ e.version # t /\ e.version \in 0 .. 3
    BY DocumentIsShape DEF Files
  <2>2. once[e] = MigrateOnce(e, t) /\ once[e] \in Files
    BY <1>1
  <2>3. once[e] \in Documents /\ once[e].version # t
    BY <2>2 DEF Files
  <2>4. once[once[e]] = MigrateOnce(once[e], t)
    BY <2>2
  <2> HIDE DEF once
  <2>5. \/ e.version < t /\ e.version # 0 /\ once[e].version = e.version + 1
        \/ e.version > t /\ once[e].version = e.version - 1
    BY <2>1, <2>2, <2>3, OnceEffect, LifecycleAssumption
  <2>6. \/ once[once[e]] = Absent
        \/ once[e].version < t /\ once[once[e]].version = once[e].version + 1
        \/ once[e].version > t /\ once[once[e]].version = once[e].version - 1
    BY <2>1, <2>3, <2>4, <2>5, OnceEffect
  <2> QED
    BY <2>1, <2>3, <2>5, <2>6
<1>3. Is(g)
  <2>1. \A e \in Files : g[e] = IF e = Absent THEN Absent ELSE IF e.version = t THEN e ELSE g[once[e]]
    BY <1>1, <1>2
  <2>2. \A e \in Files : once[e] = IF e.version < t THEN Up(e) ELSE Down(e)
    BY DEF MigrateOnce
  <2> HIDE DEF once
  <2>3. g = [e \in Files |-> g[e]]
    OBVIOUS
  <2> QED
    BY <2>1, <2>2, <2>3
<1>4. Is(reach)
  BY <1>3
<1>5. \A d : Migrated(d, t) = reach[d]
  BY DEF Migrated
<1> HIDE DEF reach
<1>6. \A d \in Files : reach[d] = IF d = Absent THEN Absent ELSE IF d.version = t THEN d ELSE reach[IF d.version < t THEN Up(d) ELSE Down(d)]
  BY <1>4
<1> QED
  BY <1>5, <1>6 DEF MigrateOnce

\* What the registry returns is a document of the version asked for that differs
\* in nothing else, or it refuses.
LEMMA MigratedEffect ==
  ASSUME NEW d, d \in Documents, NEW t, t \in 1 .. 3, Migrated(d, t) # Absent
  PROVE  /\ Migrated(d, t) \in Documents /\ Migrated(d, t).version = t /\ Same(Migrated(d, t), d)
         /\ d.version # 0
<1> USE LifecycleAssumption DEF Files
<1> d # Absent /\ d.version \in 0 .. 3
  BY DocumentIsShape
<1>1. CASE d.version = t
  BY <1>1, MigratedUnfolds DEF Same
<1> DEFINE e == MigrateOnce(d, t)
<1>2. CASE d.version # t
  <2>1. Migrated(d, t) = Migrated(e, t) /\ e # Absent
    BY <1>2, OnceEffect, MigratedUnfolds
  <2>2. e \in Documents /\ Same(e, d) /\ d.version # 0
        /\ \/ d.version < t /\ e.version = d.version + 1
           \/ d.version > t /\ e.version = d.version - 1
    BY <1>2, <2>1, OnceEffect
  <2> HIDE DEF e
  <2>3. CASE e.version = t
    <3>1. Migrated(e, t) = e
      BY <2>1, <2>2, <2>3, MigratedUnfolds
    <3> QED
      BY <2>1, <2>2, <2>3, <3>1
  <2> DEFINE f == MigrateOnce(e, t)
  <2>4. CASE e.version # t
    <3>1. Migrated(e, t) = Migrated(f, t) /\ f # Absent
      BY <2>1, <2>2, <2>4, OnceEffect, MigratedUnfolds
    <3>2. f \in Documents /\ Same(f, e)
          /\ \/ e.version < t /\ f.version = e.version + 1
             \/ e.version > t /\ f.version = e.version - 1
      BY <2>2, <2>4, <3>1, OnceEffect
    <3> HIDE DEF f
    <3>3. f.version = t
      BY <2>2, <2>4, <3>2
    <3>4. Migrated(f, t) = f
      BY <3>1, <3>2, <3>3, MigratedUnfolds
    <3> QED
      BY <2>1, <2>2, <3>1, <3>2, <3>3, <3>4 DEF Same
  <2> QED
    BY <2>3, <2>4
<1> QED
  BY <1>1, <1>2

\* Up to the current schema.
LEMMA MigratedUp ==
  ASSUME NEW d, d \in Documents
  PROVE  /\ d.version = 3 => Migrated(d, 3) = d
         /\ d.version < 3 => Migrated(d, 3) = Migrated(Up(d), 3)
<1> d # Absent /\ d.version \in 0 .. 3 /\ d \in Files
  BY DocumentIsShape, LifecycleAssumption DEF Files
<1> QED
  BY MigratedUnfolds DEF MigrateOnce

\* A detour over another version loses nothing.
LEMMA MigrationComposes ==
  ASSUME NEW d, d \in Documents, NEW t, t \in 1 .. 3, Migrated(d, t) # Absent
  PROVE  Migrated(Migrated(d, t), 3) = Migrated(d, 3)
<1> USE LifecycleAssumption DEF Files
<1> d # Absent /\ d.version \in 0 .. 3
  BY DocumentIsShape
<1>1. CASE d.version = t
  BY <1>1, MigratedUnfolds
<1> DEFINE e == MigrateOnce(d, t)
<1>2. CASE d.version # t
  <2>1. Migrated(d, t) = Migrated(e, t) /\ e # Absent
    BY <1>2, OnceEffect, MigratedUnfolds
  <2>2. /\ e \in Documents
        /\ \/ d.version < t /\ d.version # 0 /\ e.version = d.version + 1 /\ e = Up(d)
           \/ d.version > t /\ e.version = d.version - 1 /\ Up(e) = d
    BY <1>2, <2>1, OnceEffect
  <2>3. Migrated(e, 3) = Migrated(d, 3)
    BY <2>2, MigratedUp
  <2> HIDE DEF e
  <2>4. CASE e.version = t
    BY <2>1, <2>2, <2>3, <2>4, MigratedUnfolds
  <2> DEFINE f == MigrateOnce(e, t)
  <2>5. CASE e.version # t
    <3>1. Migrated(e, t) = Migrated(f, t) /\ f # Absent
      BY <2>1, <2>2, <2>5, OnceEffect, MigratedUnfolds
    <3>2. /\ f \in Documents
          /\ \/ e.version < t /\ f.version = e.version + 1 /\ f = Up(e)
             \/ e.version > t /\ f.version = e.version - 1 /\ Up(f) = e
      BY <2>2, <2>5, <3>1, OnceEffect
    <3>3. Migrated(f, 3) = Migrated(e, 3)
      BY <2>2, <2>5, <3>2, MigratedUp
    <3> HIDE DEF f
    <3>4. f.version = t
      BY <2>2, <2>5, <3>2
    <3>5. Migrated(f, t) = f
      BY <3>1, <3>2, <3>4, MigratedUnfolds
    <3> QED
      BY <2>1, <2>3, <3>1, <3>3, <3>5
  <2> QED
    BY <2>4, <2>5
<1> QED
  BY <1>1, <1>2

\* Printing a document changes nothing but its layout.
LEMMA PrintedDocument ==
  ASSUME NEW d, d \in Documents, d.version # 0
  PROVE  Printed(d) \in Documents /\ Printed(d).version = d.version /\ Printed(d).sound = d.sound
<1>1. d \in Shapes /\ (d.version < 2 => ~d.monorepo) /\ (d.version = 3 <=> d.runtime # "none")
  BY DocumentIsShape
<1>2. /\ Printed(d) \in Shapes /\ Printed(d).version = d.version /\ Printed(d).runtime = d.runtime
      /\ Printed(d).sound = d.sound /\ Printed(d).monorepo = d.monorepo
  BY <1>1, PrintedEffect
<1> QED
  BY <1>1, <1>2, DocumentIsShape

\* Two documents that are printed alike differ in their layout only.
LEMMA PrintedAlike ==
  ASSUME NEW d, d \in Documents, NEW e, e \in Documents,
         d.version = e.version, d.runtime = e.runtime, d.sound = e.sound, d.name = e.name, d.monorepo = e.monorepo
  PROVE  Printed(d) = Printed(e)
<1>1. d \in Shapes /\ e \in Shapes
  BY DocumentIsShape
<1>2. Printed(d) \in Shapes /\ Printed(e) \in Shapes /\ Same(Printed(d), Printed(e))
      /\ Printed(d).version = Printed(e).version /\ Printed(d).runtime = Printed(e).runtime
  BY <1>1, PrintedEffect DEF Same
<1> QED
  BY <1>2, SameShape

\* Printing before a migration is printing after it.
LEMMA PrintedMigrates ==
  ASSUME NEW d, d \in Documents, d.version # 0
  PROVE  /\ Migrated(Printed(d), 3) \in Documents /\ Migrated(d, 3) \in Documents
         /\ Printed(Migrated(Printed(d), 3)) = Printed(Migrated(d, 3))
<1> DEFINE e == Printed(d)
<1> USE LifecycleAssumption
<1>1. d \in Shapes /\ d.version \in 1 .. 3
  BY DocumentIsShape
<1>2. /\ e \in Documents /\ e.version = d.version /\ e.runtime = d.runtime /\ e.sound = d.sound
      /\ e.name = d.name /\ e.monorepo = d.monorepo
  BY <1>1, PrintedDocument, PrintedEffect
<1> SUFFICES /\ Migrated(e, 3) \in Documents /\ Migrated(d, 3) \in Documents
             /\ Printed(Migrated(e, 3)) = Printed(Migrated(d, 3))
  OBVIOUS
<1> HIDE DEF e
<1>3. CASE d.version = 3
  BY <1>2, <1>3, MigratedUp, PrintedAlike
<1>4. ASSUME NEW u, u \in Documents, NEW v, v \in Documents, u.version = 2, v.version = 2,
             u.sound = v.sound, u.name = v.name, u.monorepo = v.monorepo
      PROVE  /\ Migrated(u, 3) \in Documents /\ Migrated(v, 3) \in Documents
             /\ Printed(Migrated(u, 3)) = Printed(Migrated(v, 3))
  <2>1. Migrated(u, 3) = Up(u) /\ Migrated(v, 3) = Up(v)
    BY <1>4, UpEffect, MigratedUp
  <2>2. /\ Up(u) \in Documents /\ Same(Up(u), u) /\ Up(u).version = 3 /\ Up(u).runtime = "default"
        /\ Up(v) \in Documents /\ Same(Up(v), v) /\ Up(v).version = 3 /\ Up(v).runtime = "default"
    BY <1>4, UpEffect
  <2> QED
    BY <1>4, <2>1, <2>2, PrintedAlike DEF Same
<1>5. CASE d.version = 2
  BY <1>2, <1>4, <1>5
<1>6. CASE d.version = 1
  <2>1. Migrated(d, 3) = Migrated(Up(d), 3) /\ Migrated(e, 3) = Migrated(Up(e), 3)
    BY <1>2, <1>6, MigratedUp
  <2>2. /\ Up(d) \in Documents /\ Same(Up(d), d) /\ Up(d).version = 2
        /\ Up(e) \in Documents /\ Same(Up(e), e) /\ Up(e).version = 2
    BY <1>2, <1>6, UpEffect
  <2>3. Up(d).sound = Up(e).sound /\ Up(d).name = Up(e).name /\ Up(d).monorepo = Up(e).monorepo
    BY <1>2, <2>2 DEF Same
  <2> QED
    BY <1>4, <2>1, <2>2, <2>3
<1> QED
  BY <1>1, <1>3, <1>5, <1>6

\* A document is usable if and only if it is of a schema and its content is sound.
LEMMA UsableMeans ==
  ASSUME NEW d, d \in Documents
  PROVE  Usable(d) <=> d.version # 0 /\ d.sound
<1> USE LifecycleAssumption DEF Current
<1>1. CASE d.version = 0
  BY <1>1 DEF Usable
<1>2. CASE d.version # 0
  <2>1. Migrated(d, 3) \in Documents
    BY <1>2, PrintedMigrates
  <2>2. Migrated(d, 3).version = 3 /\ Migrated(d, 3).sound = d.sound
    BY <2>1, MigratedEffect DEF Same
  <2> QED
    BY <1>2, <2>1, <2>2 DEF Usable, Loads
<1> QED
  BY <1>1, <1>2

-----------------------------------------------------------------------------
(* The steps.                                                              *)

\* What may be begun: what is written can be used, and what is replaced is what was
\* read.
Sound(p, kind, s, o, next) ==
  /\ kind \in Operations /\ s \in Files /\ o \in Documents /\ Usable(o)
  /\ next \in {"create", "restore", "backup"}
  /\ next = "restore" => kind = "rollback"
  /\ next = "backup" => /\ s \in Documents \ {o}
                        /\ kind \in {"configure", "migrate"} => Usable(s)
                        /\ kind = "migrate" => Printed(Migrated(o, 3)) = Printed(Migrated(s, 3))

\* Whatever is sound may be begun: the invariant is preserved.
LEMMA BeginKeeps ==
  ASSUME LifecycleInv, NEW p \in Procs, NEW kind, NEW s, NEW o, NEW next,
         pc[p] \in {"start", "restore"}, Sound(p, kind, s, o, next), Begin(p, kind, s, o, next)
  PROVE  LifecycleInv'
<1> USE DEF LifecycleInv, Sound, Begin, Current
<1>1. TypeOK'
  BY DEF TypeOK, Steps, Replacing, Files
<1> USE DEF TypeOK
<1>2. WritesStayUsable'
  BY DEF WritesStayUsable, Replacing
<1>3. MigrationKeepsMeaning'
  BY DEF MigrationKeepsMeaning, Replacing
<1>4. SavedBeforeReplaced'
  BY DEF SavedBeforeReplaced
<1>5. WindowIsClosed'
  BY DEF WindowIsClosed, Quiet
<1> QED
  BY <1>1, <1>2, <1>3, <1>4, <1>5

\* initialize begins what is sound: the defaults load, and unless forced there is no file.
LEMMA InitializeBegins ==
  ASSUME LifecycleInv, NEW p \in Procs, NEW d \in Defaults, Initialize(p, d)
  PROVE  LifecycleInv'
<1>1. PICK kind \in {"init", "force"} : /\ config = Absent \/ kind = "force"
                                        /\ Begin(p, kind, config, d, "create")
  BY DEF Initialize
<1>2. d \in Documents /\ Usable(d)
  BY UsableMeans DEF Defaults, Loads, Current
<1>3. Sound(p, kind, config, d, "create") /\ pc[p] = "start"
  BY <1>1, <1>2 DEF Sound, Initialize, Operations, LifecycleInv, TypeOK
<1> QED
  BY <1>1, <1>3, BeginKeeps

\* configure begins what is sound: both the file and its edited form load.
LEMMA ConfigureBegins ==
  ASSUME LifecycleInv, NEW p \in Procs, NEW name \in Names, Configure(p, name)
  PROVE  LifecycleInv'
<1> DEFINE named == [config EXCEPT !.name = name]
           new == Printed(named)
<1>1. /\ config \in Documents /\ config.version = 3 /\ config.sound
      /\ new # config /\ pc[p] = "start" /\ Begin(p, "configure", config, new, "backup")
  BY DEF Configure, LifecycleInv, TypeOK, Loads, Current, Files
<1>2. config \in Shapes /\ config.runtime # "none"
  BY <1>1, DocumentIsShape
<1>3. named \in Shapes /\ named.version = config.version /\ named.runtime = config.runtime
      /\ named.sound = config.sound
  BY <1>2, SetName
<1> HIDE DEF named
<1>5. named \in Documents /\ named.version = 3 /\ named.sound
  BY <1>1, <1>2, <1>3, DocumentIsShape
<1>6. new \in Documents /\ Usable(new) /\ Usable(config)
  BY <1>1, <1>5, PrintedDocument, UsableMeans
<1> HIDE DEF new
<1>4. Sound(p, "configure", config, new, "backup")
  BY <1>1, <1>6 DEF Sound, Operations, Files
<1> QED
  BY <1>1, <1>4, BeginKeeps

\* migrate begins what is sound: the migrated document was validated, hence what it
\* replaces can be migrated to the current schema as well, with the same result.
LEMMA MigrateBegins ==
  ASSUME LifecycleInv, NEW p \in Procs, NEW t \in 1 .. Current, Migrate(p, t)
  PROVE  LifecycleInv'
<1> DEFINE m == Migrated(config, t)
           new == Printed(m)
<1>1. /\ config \in Documents /\ config.version \notin {0, t} /\ m # Absent /\ Usable(m) /\ t \in 1 .. 3
      /\ pc[p] = "start" /\ Begin(p, "migrate", config, new, "backup")
  BY DEF Migrate, LifecycleInv, TypeOK, Files, Current
<1>2. m \in Documents /\ m.version = t /\ m.sound = config.sound
  BY <1>1, MigratedEffect DEF Same
<1>3. new \in Documents /\ new.version = t /\ new.sound = m.sound
  BY <1>1, <1>2, PrintedDocument
<1>4. Usable(new) /\ Usable(config)
  BY <1>1, <1>2, <1>3, UsableMeans
<1>5. Printed(Migrated(new, 3)) = Printed(Migrated(config, 3))
  BY <1>1, <1>2, PrintedMigrates, MigrationComposes
<1> HIDE DEF m, new
<1>6. Sound(p, "migrate", config, new, "backup")
  BY <1>1, <1>2, <1>3, <1>4, <1>5 DEF Sound, Operations, Files
<1> QED
  BY <1>1, <1>6, BeginKeeps

\* rollbackMigration begins what is sound: it has validated the backup.
LEMMA RollBackBegins ==
  ASSUME LifecycleInv, NEW p \in Procs, NEW d \in Documents, RollBack(p, d)
  PROVE  LifecycleInv'
<1>1. /\ backups[d] \in Documents /\ Usable(backups[d])
      /\ pc[p] = "start" /\ Begin(p, "rollback", Absent, backups[d], "restore")
  BY DEF RollBack, LifecycleInv, TypeOK, Files
<1>2. Sound(p, "rollback", Absent, backups[d], "restore")
  BY <1>1 DEF Sound, Operations, Files
<1> QED
  BY <1>1, <1>2, BeginKeeps

\* rollbackMigration goes on with what is sound: the file is a document, and another one.
LEMMA RollBackGoesOn ==
  ASSUME LifecycleInv, NEW p \in Procs, RollBackOver(p)
  PROVE  LifecycleInv'
<1>1. /\ config \in Documents \ {output[p]} /\ output[p] \in Documents /\ Usable(output[p]) /\ op[p] = "rollback"
      /\ pc[p] = "restore" /\ Begin(p, op[p], config, output[p], "backup")
  BY DEF RollBackOver, LifecycleInv, TypeOK, WritesStayUsable, Files
<1>2. Sound(p, op[p], config, output[p], "backup")
  BY <1>1 DEF Sound, Operations, Files
<1> QED
  BY <1>1, <1>2, BeginKeeps

\* #backup finds what was read under its digest, or stops.
LEMMA FindBackupKeeps ==
  ASSUME LifecycleInv, NEW p \in Procs, FindBackup(p)
  PROVE  LifecycleInv'
<1> USE DEF LifecycleInv, FindBackup
<1>1. TypeOK'
  BY DEF TypeOK, Steps, Replacing
<1> USE DEF TypeOK
<1>2. WritesStayUsable' /\ MigrationKeepsMeaning'
  BY DEF WritesStayUsable, MigrationKeepsMeaning, Replacing
<1>3. SavedBeforeReplaced'
  BY DEF SavedBeforeReplaced
<1>4. WindowIsClosed'
  BY DEF WindowIsClosed
<1> QED
  BY <1>1, <1>2, <1>3, <1>4

\* #backup saves what was read under its digest, and no other backup changes: two that
\* save the same content write the same.
LEMMA SaveBackupKeeps ==
  ASSUME LifecycleInv, NEW p \in Procs, SaveBackup(p)
  PROVE  LifecycleInv'
<1> USE DEF LifecycleInv, SaveBackup
<1>1. TypeOK'
  BY DEF TypeOK, Steps, Replacing, Files
<1> USE DEF TypeOK
<1>2. WritesStayUsable' /\ MigrationKeepsMeaning'
  BY DEF WritesStayUsable, MigrationKeepsMeaning, Replacing
<1>3. SavedBeforeReplaced'
  BY DEF SavedBeforeReplaced, Replacing
<1>4. WindowIsClosed'
  BY DEF WindowIsClosed
<1> QED
  BY <1>1, <1>2, <1>3, <1>4

\* #assertConfigUnchanged goes on only if the file is what was read.
LEMMA AssertUnchangedKeeps ==
  ASSUME LifecycleInv, NEW p \in Procs, AssertUnchanged(p)
  PROVE  LifecycleInv'
<1> USE DEF LifecycleInv, AssertUnchanged
<1>1. TypeOK'
  BY DEF TypeOK, Steps, Replacing
<1> USE DEF TypeOK
<1>2. WritesStayUsable' /\ MigrationKeepsMeaning'
  BY DEF WritesStayUsable, MigrationKeepsMeaning, Replacing
<1>3. SavedBeforeReplaced'
  BY DEF SavedBeforeReplaced
<1>4. WindowIsClosed'
  BY DEF WindowIsClosed, Quiet
<1> QED
  BY <1>1, <1>2, <1>3, <1>4

\* The rename closes its own window; with the window closed there is no other.
LEMMA ReplaceKeeps ==
  ASSUME LifecycleInv, NEW p \in Procs, Replace(p)
  PROVE  LifecycleInv'
<1> USE DEF LifecycleInv, Replace, Quiet
<1>1. TypeOK'
  BY DEF TypeOK, Steps, Replacing, Files
<1> USE DEF TypeOK
<1>2. WritesStayUsable' /\ MigrationKeepsMeaning'
  BY DEF WritesStayUsable, MigrationKeepsMeaning, Replacing
<1>3. SavedBeforeReplaced'
  BY DEF SavedBeforeReplaced
<1>4. WindowIsClosed'
  BY DEF WindowIsClosed
<1> QED
  BY <1>1, <1>2, <1>3, <1>4

\* A process that stops leaves the rest to the others.
LEMMA StopKeeps ==
  ASSUME LifecycleInv, NEW p \in Procs, Stop(p)
  PROVE  LifecycleInv'
<1> USE DEF LifecycleInv, Stop
<1>1. TypeOK'
  BY DEF TypeOK, Steps, Replacing
<1> USE DEF TypeOK
<1>2. WritesStayUsable' /\ MigrationKeepsMeaning'
  BY DEF WritesStayUsable, MigrationKeepsMeaning, Replacing
<1>3. SavedBeforeReplaced' /\ WindowIsClosed'
  BY DEF SavedBeforeReplaced, WindowIsClosed
<1> QED
  BY <1>1, <1>2, <1>3

\* Another program may write aiyoke.yaml outside the windows.
LEMMA EditKeeps ==
  ASSUME LifecycleInv, Edit
  PROVE  LifecycleInv'
<1> USE LifecycleAssumption DEF LifecycleInv, Edit
<1>1. TypeOK'
  BY DEF TypeOK, Replacing
<1>2. WritesStayUsable' /\ MigrationKeepsMeaning' /\ SavedBeforeReplaced'
  BY DEF WritesStayUsable, MigrationKeepsMeaning, SavedBeforeReplaced
<1>3. WindowIsClosed'
  BY DEF WindowIsClosed, Quiet
<1> QED
  BY <1>1, <1>2, <1>3

\* Another program may write a backup that no operation relies on.
LEMMA TamperKeeps ==
  ASSUME LifecycleInv, NEW d \in Documents, Tamper(d)
  PROVE  LifecycleInv'
<1> USE LifecycleAssumption DEF LifecycleInv, Tamper
<1>1. TypeOK'
  BY DEF TypeOK, Replacing
<1>2. WritesStayUsable' /\ MigrationKeepsMeaning'
  BY DEF WritesStayUsable, MigrationKeepsMeaning
<1>3. SavedBeforeReplaced' /\ WindowIsClosed'
  BY DEF SavedBeforeReplaced, WindowIsClosed
<1> QED
  BY <1>1, <1>2, <1>3

\* Every step preserves the invariant.
LEMMA LifecycleStep == LifecycleInv /\ [Next]_vars => LifecycleInv'
<1> SUFFICES ASSUME LifecycleInv, [Next]_vars PROVE LifecycleInv'
  OBVIOUS
<1>1. CASE Edit
  BY <1>1, EditKeeps
<1>2. CASE \E d \in Documents : Tamper(d)
  BY <1>2, TamperKeeps
<1>3. ASSUME NEW p \in Procs, Run(p) PROVE LifecycleInv'
  BY <1>3, InitializeBegins, RollBackBegins, ConfigureBegins, MigrateBegins, RollBackGoesOn, FindBackupKeeps,
     SaveBackupKeeps, AssertUnchangedKeeps, ReplaceKeeps, StopKeeps DEF Run
<1>4. CASE UNCHANGED vars
  BY <1>4 DEF vars, LifecycleInv, TypeOK, WritesStayUsable, MigrationKeepsMeaning, SavedBeforeReplaced,
              WindowIsClosed
<1> QED
  BY <1>1, <1>2, <1>3, <1>4 DEF Next

\* Whatever aiyoke processes and other programs do to aiyoke.yaml, what an operation is
\* about to write can be used, has lost nothing by a migration, and once it compares the
\* file for the last time what it read is saved under its digest.
THEOREM LifecycleIsSound == Spec => []LifecycleInv
<1>1. Init => LifecycleInv
  BY LifecycleAssumption DEF Init, LifecycleInv, TypeOK, Files, Steps, Operations, WritesStayUsable, Replacing,
     MigrationKeepsMeaning, SavedBeforeReplaced, WindowIsClosed
<1> QED
  BY <1>1, LifecycleStep, PTL DEF Spec

\* If nobody writes between the comparison and the rename, then what a step replaces is
\* in its backup.
LEMMA ReplacingStep ==
  ASSUME ~Interference, LifecycleInv, [Next]_vars, NEW p \in Procs, config' # config,
         pc[p] = "replace", pc'[p] = "done"
  PROVE  /\ config # Absent
         /\ backups[config] = config
         /\ op[p] \in {"configure", "migrate"} => Usable(config)
<1> QED
  BY LifecycleAssumption
     DEF LifecycleInv, TypeOK, WindowIsClosed, SavedBeforeReplaced, WritesStayUsable, Replacing

\* If nobody writes between the comparison and the rename, then whatever configure,
\* migrate or rollback replaces is in its backup, and rollback accepts the backups of
\* configure and migrate.
THEOREM ReplacedIsRestorable == ~Interference => (Spec => ReplacedCanBeRestored)
<1> SUFFICES ASSUME ~Interference PROVE Spec => ReplacedCanBeRestored
  OBVIOUS
<1>1. LifecycleInv /\ [Next]_vars =>
        [\A p \in Procs :
           pc[p] = "replace" /\ pc'[p] = "done" /\ config' # config =>
             /\ config # Absent
             /\ backups[config] = config
             /\ op[p] \in {"configure", "migrate"} => Usable(config)]_vars
  BY ReplacingStep
<1> QED
  BY <1>1, LifecycleIsSound, PTL DEF Spec, ReplacedCanBeRestored

\* Every step of a behaviour is a step of the lifecycle, or leaves it alone.
LEMMA LifecyclePart == [ConfigurationNext]_configurationVars => [Next]_vars
  BY Zenon DEF ConfigurationNext, Operate, Execute, Validate, Detect, configurationVars

\* The same holds when the lifecycle is one of the uses of a configuration.
THEOREM ConfigurationIsSound == ConfigurationSpec => []LifecycleInv
<1>1. ConfigurationInit => LifecycleInv
  <2> SUFFICES ASSUME ConfigurationInit PROVE LifecycleInv
    OBVIOUS
  <2>1. CASE Init
    BY <2>1, LifecycleAssumption DEF Init, LifecycleInv, TypeOK, Files, Steps, Operations, WritesStayUsable, Replacing,
       MigrationKeepsMeaning, SavedBeforeReplaced, WindowIsClosed
  <2>2. CASE NoLifecycle
    BY <2>2, LifecycleAssumption DEF NoLifecycle, LifecycleInv, TypeOK, Files, Steps, Operations, WritesStayUsable,
       Replacing, MigrationKeepsMeaning, SavedBeforeReplaced, WindowIsClosed
  <2> QED
    BY <2>1, <2>2 DEF ConfigurationInit
<1> QED
  BY <1>1, LifecyclePart, LifecycleStep, PTL DEF ConfigurationSpec

\* And so, if nobody writes between the comparison and the rename, does what a
\* replacement may do.
THEOREM ConfigurationReplaces == ~Interference => (ConfigurationSpec => ReplacedCanBeRestored)
<1> SUFFICES ASSUME ~Interference PROVE ConfigurationSpec => ReplacedCanBeRestored
  OBVIOUS
<1>1. LifecycleInv /\ [Next]_vars =>
        [\A p \in Procs :
           pc[p] = "replace" /\ pc'[p] = "done" /\ config' # config =>
             /\ config # Absent
             /\ backups[config] = config
             /\ op[p] \in {"configure", "migrate"} => Usable(config)]_vars
  BY ReplacingStep
<1> QED
  BY <1>1, LifecyclePart, ConfigurationIsSound, PTL DEF ConfigurationSpec, ReplacedCanBeRestored

-----------------------------------------------------------------------------
(* Induction over the natural numbers, for a set.                          *)

\* A set that contains 0, and with each number the next one, contains them all: there
\* is no least number outside.
LEMMA EveryNumber ==
  ASSUME NEW S, 0 \in S, \A n \in Nat : n \in S => n + 1 \in S
  PROVE  Nat \subseteq S
<1> SUFFICES ASSUME ~(Nat \subseteq S) PROVE FALSE
  OBVIOUS
<1> DEFINE R == OpToRel(<, Nat)
           T == {n \in Nat : n \notin S}
<1>1. IsWellFoundedOn(R, Nat)
  BY NatLessThanWellFounded
<1>2. \A a, b \in Nat : <<a, b>> \in R <=> a < b
  <2>1. R = {p \in Nat \X Nat : p[1] < p[2]}
    BY Zenon DEF OpToRel
  <2> HIDE DEF R
  <2> QED
    BY <2>1
<1> HIDE DEF R
<1>3. PICK m \in T : \A k \in T : <<k, m>> \notin R
  BY <1>1, WFMin
<1>4. m - 1 \in Nat /\ (m - 1) + 1 = m /\ m - 1 < m
  BY <1>3
<1> QED
  BY <1>2, <1>3, <1>4

-----------------------------------------------------------------------------
(* The command line: what is read of the arguments. *)

\* The words among the first n arguments of a line that are no values of options.
WordsOf(line, n) ==
  {line[i] : i \in {j \in 1 .. n : ~Cli!IsOption(line[j]) /\ (j > 1 => line[j - 1] \notin Cli!Valued)}}
HelpAmong(line, n) == \E i \in 1 .. n : line[i] \in {"--help", "-h"}

\* What a reading s of the first n arguments says of them, unless something is wrong.
Describes(s, line, n) ==
  /\ \A i \in 1 .. n : line[i] \in Cli!Switches \ {"--help", "-h"} => line[i] \in s.switches
  /\ \A t \in s.switches : \E i \in 1 .. n : line[i] = t
  /\ s.due = IF n > 0 /\ line[n] \in Cli!Valued THEN line[n] ELSE Nothing
  /\ \A i \in 1 .. n - 1 : line[i] \in Cli!Valued => line[i] \in DOMAIN s.values
  /\ \A o \in DOMAIN s.values : o \in Cli!Valued /\ \E i \in 1 .. n - 1 : line[i] = o /\ s.values[o] = line[i + 1]
  /\ s.command = "help" \/ s.command \in WordsOf(line, n)
  /\ HelpAmong(line, n) \/ WordsOf(line, n) \subseteq {s.command, "help"}

\* The fields of a reading.
Parts == {"command", "switches", "values", "due", "wrong"}

\* The options are disjoint from each other, and from the words.
LEMMA Vocabulary ==
  /\ "--help" \notin Cli!Valued /\ "-h" \notin Cli!Valued
  /\ \A t \in Cli!Switches : t \notin Cli!Valued /\ Cli!IsOption(t)
  /\ \A t \in Cli!Valued : Cli!IsOption(t)
  BY DEF Cli!Switches, Cli!Valued, Cli!EditFlags, Cli!IsOption

\* The reading r is s with the argument t: the value of an option, a call for help,
\* another switch, an option with a value, or the command.
Reads(s, t, r) ==
  \/ /\ s.due # Nothing /\ ~Cli!IsOption(t)
     /\ r.values = [o \in DOMAIN s.values \cup {s.due} |-> IF o = s.due THEN t ELSE s.values[o]]
     /\ r.due = Nothing /\ r.switches = s.switches /\ r.command = s.command
  \/ /\ s.due = Nothing /\ t \in {"--help", "-h"}
     /\ r.command = "help" /\ r.values = s.values /\ r.due = s.due /\ r.switches = s.switches
  \/ /\ s.due = Nothing /\ t \in Cli!Switches \ {"--help", "-h"}
     /\ r.switches = s.switches \cup {t}
     /\ r.values = s.values /\ r.due = s.due /\ r.command = s.command
  \/ /\ s.due = Nothing /\ t \in Cli!Valued
     /\ r.due = t /\ r.values = s.values /\ r.switches = s.switches /\ r.command = s.command
  \/ /\ s.due = Nothing /\ ~Cli!IsOption(t) /\ s.command = "help"
     /\ r.command = t /\ r.values = s.values /\ r.due = s.due /\ r.switches = s.switches

\* What one more argument does to a reading, unless it is wrong.
LEMMA TokenEffect ==
  ASSUME NEW s, DOMAIN s = Parts, s.wrong \in BOOLEAN, NEW t, NEW r, r = Cli!Token(s, t)
  PROVE  /\ DOMAIN r = Parts
         /\ r.wrong \in BOOLEAN
         /\ ~r.wrong =>
              ~s.wrong /\ Reads(s, t, r)
<1>1. CASE s.wrong
  <2>1. r = s
    BY <1>1, Zenon DEF Cli!Token
  <2> QED
    BY <1>1, <2>1, Zenon
<1>2. CASE ~s.wrong /\ s.due # Nothing /\ (Cli!IsOption(t) \/ ~Cli!Converts(s.due, t))
  <2>1. r = [s EXCEPT !.wrong = TRUE]
    BY <1>2, Zenon DEF Cli!Token
  <2>2. DOMAIN r = Parts /\ r.wrong = TRUE
    BY <2>1, Zenon DEF Parts
  <2> QED
    BY <2>2, Zenon
<1>3. CASE ~s.wrong /\ s.due # Nothing /\ ~Cli!IsOption(t) /\ Cli!Converts(s.due, t)
  <2>1. r = [s EXCEPT !.values = [o \in DOMAIN s.values \cup {s.due} |-> IF o = s.due THEN t ELSE s.values[o]],
                      !.due = Nothing]
    BY <1>3, Zenon DEF Cli!Token
  <2>2. /\ DOMAIN r = Parts /\ r.wrong = s.wrong
        /\ r.values = [o \in DOMAIN s.values \cup {s.due} |-> IF o = s.due THEN t ELSE s.values[o]]
        /\ r.due = Nothing /\ r.switches = s.switches /\ r.command = s.command
    BY <2>1, Zenon DEF Parts
  <2> QED
    BY <1>3, <2>2, Zenon DEF Reads
<1>4. CASE ~s.wrong /\ s.due = Nothing /\ t \in {"--help", "-h"}
  <2>1. r = [s EXCEPT !.command = "help"]
    BY <1>4, Zenon DEF Cli!Token
  <2>2. /\ DOMAIN r = Parts /\ r.wrong = s.wrong /\ r.command = "help"
        /\ r.values = s.values /\ r.due = s.due /\ r.switches = s.switches
    BY <2>1, Zenon DEF Parts
  <2> QED
    BY <1>4, <2>2, Zenon DEF Reads
<1>5. CASE ~s.wrong /\ s.due = Nothing /\ t \in Cli!Switches \ {"--help", "-h"}
  <2>1. r = [s EXCEPT !.switches = @ \cup {t}]
    BY <1>5, Zenon DEF Cli!Token
  <2>2. /\ DOMAIN r = Parts /\ r.wrong = s.wrong /\ r.switches = s.switches \cup {t}
        /\ r.values = s.values /\ r.due = s.due /\ r.command = s.command
    BY <2>1, Zenon DEF Parts
  <2> QED
    BY <1>5, <2>2, Zenon DEF Reads
<1>6. CASE ~s.wrong /\ s.due = Nothing /\ t \in Cli!Valued
  <2>1. t \notin Cli!Switches /\ t \notin {"--help", "-h"}
    BY <1>6, Vocabulary
  <2>2. r = [s EXCEPT !.due = t]
    BY <1>6, <2>1, Zenon DEF Cli!Token
  <2>3. /\ DOMAIN r = Parts /\ r.wrong = s.wrong /\ r.due = t
        /\ r.values = s.values /\ r.switches = s.switches /\ r.command = s.command
    BY <2>2, Zenon DEF Parts
  <2> QED
    BY <1>6, <2>3, Zenon DEF Reads
<1>7. CASE ~s.wrong /\ s.due = Nothing /\ t \notin {"--help", "-h"} /\ t \notin Cli!Switches /\ t \notin Cli!Valued
  <2>1. CASE ~Cli!IsOption(t) /\ s.command = "help"
    <3>1. r = [s EXCEPT !.command = t]
      BY <1>7, <2>1, Zenon DEF Cli!Token
    <3>2. /\ DOMAIN r = Parts /\ r.wrong = s.wrong /\ r.command = t
          /\ r.values = s.values /\ r.due = s.due /\ r.switches = s.switches
      BY <3>1, Zenon DEF Parts
    <3> QED
      BY <1>7, <2>1, <3>2, Zenon DEF Reads
  <2>2. CASE ~(~Cli!IsOption(t) /\ s.command = "help")
    <3>1. r = [s EXCEPT !.wrong = TRUE]
      BY <1>7, <2>2, Zenon DEF Cli!Token
    <3>2. DOMAIN r = Parts /\ r.wrong = TRUE
      BY <3>1, Zenon DEF Parts
    <3> QED
      BY <3>2, Zenon
  <2> QED
    BY <2>1, <2>2, Zenon
<1> QED
  BY <1>1, <1>2, <1>3, <1>4, <1>5, <1>6, <1>7, Zenon

\* One more argument keeps what a reading says true.
LEMMA TokenDescribes ==
  ASSUME Nothing \notin Cli!Valued, NEW line, NEW n \in Nat,
         NEW s, DOMAIN s = Parts, s.wrong \in BOOLEAN, ~s.wrong => Describes(s, line, n),
         NEW r, r = Cli!Token(s, line[n + 1]), ~r.wrong
  PROVE  Describes(r, line, n + 1)
<1> DEFINE t == line[n + 1]
           W == WordsOf(line, n)
<1>10. ~s.wrong /\ Reads(s, line[n + 1], r)
  BY TokenEffect
<1>1. Describes(s, line, n)
  BY <1>10, Zenon
<1>2. /\ \A i \in 1 .. n : line[i] \in Cli!Switches \ {"--help", "-h"} => line[i] \in s.switches
      /\ \A u \in s.switches : \E i \in 1 .. n : line[i] = u
  BY <1>1, Zenon DEF Describes
<1>3. s.due = IF n > 0 /\ line[n] \in Cli!Valued THEN line[n] ELSE Nothing
  BY <1>1, Zenon DEF Describes
<1>4. /\ \A i \in 1 .. n - 1 : line[i] \in Cli!Valued => line[i] \in DOMAIN s.values
      /\ \A o \in DOMAIN s.values : o \in Cli!Valued /\ \E i \in 1 .. n - 1 : line[i] = o /\ s.values[o] = line[i + 1]
  BY <1>1, Zenon DEF Describes
<1>5. /\ s.command = "help" \/ s.command \in W
      /\ HelpAmong(line, n) \/ W \subseteq {s.command, "help"}
  BY <1>1, Zenon DEF Describes
<1>6. HelpAmong(line, n + 1) <=> HelpAmong(line, n) \/ t \in {"--help", "-h"}
  BY DEF HelpAmong
<1>7. WordsOf(line, n + 1) = W \cup (IF ~Cli!IsOption(t) /\ (n > 0 => line[n] \notin Cli!Valued) THEN {t} ELSE {})
  <2> DEFINE Free(j) == ~Cli!IsOption(line[j]) /\ (j > 1 => line[j - 1] \notin Cli!Valued)
  <2>1. Free(n + 1) <=> ~Cli!IsOption(t) /\ (n > 0 => line[n] \notin Cli!Valued)
    BY DEF Cli!IsOption
  <2>2. {j \in 1 .. n + 1 : Free(j)} = {j \in 1 .. n : Free(j)} \cup (IF Free(n + 1) THEN {n + 1} ELSE {})
    <3> HIDE DEF Free
    <3> QED
      OBVIOUS
  <2>3. WordsOf(line, n + 1) = {line[j] : j \in {k \in 1 .. n + 1 : Free(k)}} /\ W = {line[j] : j \in {k \in 1 .. n : Free(k)}}
    BY Zenon DEF WordsOf
  <2> HIDE DEF Free, W
  <2> QED
    BY <2>1, <2>2, <2>3
<1> HIDE DEF W
<1>8. CASE /\ s.due # Nothing /\ ~Cli!IsOption(t)
           /\ r.values = [o \in DOMAIN s.values \cup {s.due} |-> IF o = s.due THEN t ELSE s.values[o]]
           /\ r.due = Nothing /\ r.switches = s.switches /\ r.command = s.command
  <2>1. n > 0 /\ line[n] \in Cli!Valued /\ s.due = line[n]
    BY <1>3, <1>8
  <2>2. t \notin Cli!Valued /\ t \notin Cli!Switches /\ t \notin {"--help", "-h"}
    BY <1>8, Vocabulary DEF Cli!Switches
  <2>3. WordsOf(line, n + 1) = W /\ (HelpAmong(line, n + 1) <=> HelpAmong(line, n))
    BY <1>6, <1>7, <2>1, <2>2
  <2>4. DOMAIN r.values = DOMAIN s.values \cup {line[n]} /\ r.values[line[n]] = t
        /\ \A o \in DOMAIN s.values : o # line[n] => r.values[o] = s.values[o]
    BY <1>8, <2>1
  <2>5. \A i \in 1 .. n : line[i] \in Cli!Valued => line[i] \in DOMAIN r.values
    BY <1>4, <2>4
  <2>6. \A o \in DOMAIN r.values : o \in Cli!Valued /\ \E i \in 1 .. n : line[i] = o /\ r.values[o] = line[i + 1]
    BY <1>4, <2>1, <2>4
  <2>7. /\ \A i \in 1 .. n + 1 : line[i] \in Cli!Switches \ {"--help", "-h"} => line[i] \in r.switches
        /\ \A u \in r.switches : \E i \in 1 .. n + 1 : line[i] = u
    BY <1>2, <1>8, <2>2
  <2>8. r.due = IF n + 1 > 0 /\ line[n + 1] \in Cli!Valued THEN line[n + 1] ELSE Nothing
    BY <1>8, <2>2
  <2>9. r.command = s.command
    BY <1>8
  <2> QED
    BY <1>5, <2>3, <2>5, <2>6, <2>7, <2>8, <2>9 DEF Describes
<1>9. CASE s.due = Nothing /\ r.values = s.values
  <2>1. n > 0 => line[n] \notin Cli!Valued
    BY <1>3, <1>9
  <2>2. /\ \A i \in 1 .. n : line[i] \in Cli!Valued => line[i] \in DOMAIN r.values
        /\ \A o \in DOMAIN r.values : o \in Cli!Valued /\ \E i \in 1 .. n : line[i] = o /\ r.values[o] = line[i + 1]
    BY <1>4, <1>9, <2>1
  <2>3. CASE t \in {"--help", "-h"} /\ r.command = "help" /\ r.due = s.due /\ r.switches = s.switches
    <3>1. Cli!IsOption(t) /\ t \notin Cli!Valued
      BY <2>3, Vocabulary DEF Cli!Switches
    <3>2. HelpAmong(line, n + 1)
      BY <1>6, <2>3
    <3>3. /\ \A i \in 1 .. n + 1 : line[i] \in Cli!Switches \ {"--help", "-h"} => line[i] \in r.switches
          /\ \A u \in r.switches : \E i \in 1 .. n + 1 : line[i] = u
      BY <1>2, <2>3
    <3>4. r.due = IF n + 1 > 0 /\ line[n + 1] \in Cli!Valued THEN line[n + 1] ELSE Nothing
      BY <1>9, <2>3, <3>1
    <3> QED
      BY <2>2, <2>3, <3>2, <3>3, <3>4 DEF Describes
  <2>4. CASE /\ t \in Cli!Switches \ {"--help", "-h"} /\ r.switches = s.switches \cup {t}
             /\ r.due = s.due /\ r.command = s.command
    <3>1. Cli!IsOption(t) /\ t \notin Cli!Valued
      BY <2>4, Vocabulary
    <3>2. WordsOf(line, n + 1) = W /\ (HelpAmong(line, n + 1) <=> HelpAmong(line, n))
      BY <1>6, <1>7, <2>4, <3>1
    <3>3. /\ \A i \in 1 .. n + 1 : line[i] \in Cli!Switches \ {"--help", "-h"} => line[i] \in r.switches
          /\ \A u \in r.switches : \E i \in 1 .. n + 1 : line[i] = u
      BY <1>2, <2>4
    <3>4. r.due = IF n + 1 > 0 /\ line[n + 1] \in Cli!Valued THEN line[n + 1] ELSE Nothing
      BY <1>9, <2>4, <3>1
    <3>5. r.command = s.command
      BY <2>4
    <3> QED
      BY <1>5, <2>2, <3>2, <3>3, <3>4, <3>5 DEF Describes
  <2>5. CASE t \in Cli!Valued /\ r.due = t /\ r.switches = s.switches /\ r.command = s.command
    <3>1. Cli!IsOption(t) /\ t \notin Cli!Switches /\ t \notin {"--help", "-h"}
      BY <2>5, Vocabulary
    <3>2. WordsOf(line, n + 1) = W /\ (HelpAmong(line, n + 1) <=> HelpAmong(line, n))
      BY <1>6, <1>7, <2>5, <3>1
    <3>3. /\ \A i \in 1 .. n + 1 : line[i] \in Cli!Switches \ {"--help", "-h"} => line[i] \in r.switches
          /\ \A u \in r.switches : \E i \in 1 .. n + 1 : line[i] = u
      BY <1>2, <2>5, <3>1
    <3>4. r.due = IF n + 1 > 0 /\ line[n + 1] \in Cli!Valued THEN line[n + 1] ELSE Nothing
      BY <2>5
    <3>5. r.command = s.command
      BY <2>5
    <3> QED
      BY <1>5, <2>2, <3>2, <3>3, <3>4, <3>5 DEF Describes
  <2>6. CASE /\ ~Cli!IsOption(t) /\ s.command = "help" /\ r.command = t
             /\ r.due = s.due /\ r.switches = s.switches
    <3>1. t \notin Cli!Valued /\ t \notin Cli!Switches /\ t \notin {"--help", "-h"}
      BY <2>6, Vocabulary DEF Cli!Switches
    <3>2. WordsOf(line, n + 1) = W \cup {t} /\ (HelpAmong(line, n + 1) <=> HelpAmong(line, n))
      BY <1>6, <1>7, <2>1, <2>6, <3>1
    <3>3. /\ \A i \in 1 .. n + 1 : line[i] \in Cli!Switches \ {"--help", "-h"} => line[i] \in r.switches
          /\ \A u \in r.switches : \E i \in 1 .. n + 1 : line[i] = u
      BY <1>2, <2>6, <3>1
    <3>4. r.due = IF n + 1 > 0 /\ line[n + 1] \in Cli!Valued THEN line[n + 1] ELSE Nothing
      BY <1>9, <2>6, <3>1
    <3>5. HelpAmong(line, n) \/ W \subseteq {"help"}
      BY <1>5, <2>6
    <3>6. r.command = t
      BY <2>6
    <3> QED
      BY <2>2, <3>2, <3>3, <3>4, <3>5, <3>6 DEF Describes
  <2> QED
    BY <1>9, <1>10, <2>3, <2>4, <2>5, <2>6, Zenon DEF Reads
<1> QED
  BY <1>8, <1>9, <1>10, Zenon DEF Reads

\* f holds what has been read after each of the first n arguments.
Following(line, n, f) == f = [i \in 0 .. n |-> IF i = 0 THEN Cli!Unread ELSE Cli!Token(f[i - 1], line[i])]

\* The arguments can be followed to the end of any line.
LEMMA ReadingsUnfold ==
  ASSUME NEW line, Len(line) \in Nat
  PROVE  Following(line, Len(line), Cli!Readings(line))
<1> DEFINE Defined == {n \in Nat : \E f : Following(line, n, f)}
<1>1. 0 \in Defined
  <2> DEFINE f == [i \in 0 .. 0 |-> Cli!Unread]
  <2>1. Following(line, 0, f)
    BY DEF Following
  <2> QED
    BY <2>1
<1>2. ASSUME NEW n \in Nat, n \in Defined PROVE n + 1 \in Defined
  <2> PICK f : Following(line, n, f)
    BY <1>2
  <2> DEFINE g == [i \in 0 .. n + 1 |-> IF i <= n THEN f[i] ELSE Cli!Token(f[n], line[i])]
  <2>1. \A i \in 0 .. n : f[i] = IF i = 0 THEN Cli!Unread ELSE Cli!Token(f[i - 1], line[i])
    BY DEF Following
  <2>2. \A i \in 0 .. n + 1 : g[i] = IF i = 0 THEN Cli!Unread ELSE Cli!Token(g[i - 1], line[i])
    <3> SUFFICES ASSUME NEW i \in 0 .. n + 1
                 PROVE  g[i] = IF i = 0 THEN Cli!Unread ELSE Cli!Token(g[i - 1], line[i])
      OBVIOUS
    <3>1. CASE i <= n
      BY <2>1, <3>1
    <3>2. CASE i = n + 1
      BY <3>2
    <3> QED
      BY <3>1, <3>2
  <2>3. Following(line, n + 1, g)
    <3>1. g = [i \in 0 .. n + 1 |-> g[i]]
      OBVIOUS
    <3> HIDE DEF g
    <3> QED
      BY <2>2, <3>1 DEF Following
  <2> QED
    BY <2>3
<1> HIDE DEF Defined
<1>3. Len(line) \in Defined
  BY <1>1, <1>2, EveryNumber
<1> DEFINE read == CHOOSE f : Following(line, Len(line), f)
<1>4. Following(line, Len(line), read)
  BY <1>3 DEF Defined
<1>5. Cli!Readings(line) = read
  BY DEF Cli!Readings, Following
<1> QED
  BY <1>4, <1>5

\* Every reading of a line describes it.
LEMMA ReadingDescribes ==
  ASSUME Nothing \notin Cli!Valued, NEW line, Len(line) \in Nat, NEW s, s = Cli!Readings(line)[Len(line)]
  PROVE  DOMAIN s = Parts /\ s.wrong \in BOOLEAN /\ (~s.wrong => Describes(s, line, Len(line)))
<1> DEFINE f == Cli!Readings(line)
           Right(n) == DOMAIN f[n] = Parts /\ f[n].wrong \in BOOLEAN /\ (~f[n].wrong => Describes(f[n], line, n))
           RightOnes == {n \in Nat : n <= Len(line) => Right(n)}
<1>1. f[0] = Cli!Unread /\ \A i \in 1 .. Len(line) : f[i] = Cli!Token(f[i - 1], line[i])
  <2> HIDE DEF f
  <2>1. Following(line, Len(line), f)
    BY ReadingsUnfold DEF f
  <2> QED
    BY <2>1 DEF Following
<1> HIDE DEF f
<1>2. Right(0)
  <2>1. DOMAIN f[0] = Parts /\ f[0].wrong = FALSE
    <3>1. DOMAIN Cli!Unread = Parts
      BY DEF Cli!Unread, Parts
    <3>2. Cli!Unread.wrong = FALSE
      BY Zenon DEF Cli!Unread
    <3> QED
      BY <1>1, <3>1, <3>2, Zenon
  <2>2. f[0].switches = {} /\ f[0].due = Nothing /\ DOMAIN f[0].values = {} /\ f[0].command = "help"
    BY <1>1 DEF Cli!Unread
  <2>3. WordsOf(line, 0) = {}
    BY DEF WordsOf
  <2>4. Describes(f[0], line, 0)
    BY <2>2, <2>3 DEF Describes
  <2> QED
    BY <2>1, <2>4, Zenon
<1>3. ASSUME NEW n \in Nat, n + 1 <= Len(line), Right(n) PROVE Right(n + 1)
  <2> DEFINE r == f[n + 1]
  <2>1. r = Cli!Token(f[n], line[n + 1])
    BY <1>1, <1>3
  <2> HIDE DEF r
  <2>2. DOMAIN r = Parts /\ r.wrong \in BOOLEAN
    BY <1>3, <2>1, TokenEffect
  <2>3. ~r.wrong => Describes(r, line, n + 1)
    BY <1>3, <2>1, TokenDescribes
  <2> QED
    BY <2>2, <2>3, Zenon DEF r
<1> HIDE DEF Right
<1>4. 0 \in RightOnes /\ \A n \in Nat : n \in RightOnes => n + 1 \in RightOnes
  BY <1>2, <1>3
<1> HIDE DEF RightOnes
<1>5. Len(line) \in RightOnes
  BY <1>4, EveryNumber
<1> QED
  <2>1. Right(Len(line))
    BY <1>5 DEF RightOnes
  <2>2. s = f[Len(line)]
    BY DEF f
  <2> QED
    BY <2>1, <2>2, Zenon DEF Right

\* Arguments that are taken are described by what was read, no option is given twice,
\* and each is an option of the command.
LEMMA ParsedDescribes ==
  ASSUME Nothing \notin Cli!Valued, NEW line, Len(line) \in Nat, DOMAIN line = 1 .. Len(line),
         NEW p, p = Cli!Parsed(line), ~p.wrong
  PROVE  /\ Describes(p, line, Len(line))
         /\ p.due = Nothing
         /\ \A i, j \in DOMAIN line :
              Cli!IsOption(line[i]) /\ Cli!IsOption(line[j]) /\ Cli!Named(line[i]) = Cli!Named(line[j]) => i = j
         /\ \A i \in DOMAIN line : Cli!IsOption(line[i]) => Cli!Named(line[i]) \in Cli!OptionsOf(p.command)
<1> DEFINE s == Cli!Readings(line)[Len(line)]
           options == {i \in DOMAIN line : Cli!IsOption(line[i])}
           faulty == \/ s.wrong
                     \/ s.due # Nothing
                     \/ \E i, j \in options : i # j /\ Cli!Named(line[i]) = Cli!Named(line[j])
                     \/ \E i \in options : Cli!Named(line[i]) \notin Cli!OptionsOf(s.command)
<1>1. DOMAIN s = Parts /\ s.wrong \in BOOLEAN /\ (~s.wrong => Describes(s, line, Len(line)))
  <2> HIDE DEF s
  <2> QED
    BY ReadingDescribes DEF s
<1>2. p = [s EXCEPT !.wrong = faulty]
  BY Zenon DEF Cli!Parsed
<1> HIDE DEF s
<1>3. p.wrong = faulty
  <2> HIDE DEF faulty
  <2> QED
    BY <1>1, <1>2, Zenon DEF Parts
<1>4. p.switches = s.switches /\ p.values = s.values /\ p.due = s.due /\ p.command = s.command
  <2> HIDE DEF faulty
  <2> QED
    BY <1>1, <1>2, Zenon DEF Parts
<1>5. ~faulty
  BY <1>3, Zenon
<1>6. Describes(p, line, Len(line)) <=> Describes(s, line, Len(line))
  BY <1>4 DEF Describes
<1> QED
  BY <1>1, <1>4, <1>5, <1>6, Zenon

-----------------------------------------------------------------------------
(* The command line: what the program does.                                *)

\* The arguments can be read, aiyoke.yaml is a document or none, and a dialogue goes on
\* only if `config` was asked for.
CommandFacts ==
  /\ Len(args) \in Nat /\ DOMAIN args = 1 .. Len(args)
  /\ foreign \in Nat
  /\ file \in {Nothing, Broken} \/ IsDocument(file)
  /\ phase \in {"asking", "confirming", "writing"} => ~Cli!Options.wrong /\ Cli!Options.command = "config"

\* The arguments, if they are taken, are described by what was read.
LEMMA OptionsDescribe ==
  ASSUME CommandFacts, ~Cli!Options.wrong
  PROVE  /\ Describes(Cli!Options, args, Len(args))
         /\ Cli!Options.due = Nothing
         /\ \A i, j \in DOMAIN args :
              Cli!IsOption(args[i]) /\ Cli!IsOption(args[j]) /\ Cli!Named(args[i]) = Cli!Named(args[j]) => i = j
         /\ \A i \in DOMAIN args : Cli!IsOption(args[i]) => Cli!Named(args[i]) \in Cli!OptionsOf(Cli!Options.command)
<1> DEFINE p == Cli!Parsed(args)
<1>1. Cli!Options = p
  BY Zenon DEF Cli!Options
<1>2. Len(args) \in Nat /\ DOMAIN args = 1 .. Len(args) /\ Nothing \notin Cli!Valued
  BY CommandAssumption DEF CommandFacts
<1> HIDE DEF p
<1> QED
  BY <1>1, <1>2, ParsedDescribes DEF p

\* The command that is read, but for "help", has been asked for.
LEMMA CommandIsAskedFor ==
  ASSUME CommandFacts, ~Cli!Options.wrong, Cli!Options.command # "help"
  PROVE  Cli!AskedFor(Cli!Options.command)
<1>1. Describes(Cli!Options, args, Len(args))
  BY OptionsDescribe
<1>2. /\ Cli!Options.command \in WordsOf(args, Len(args))
      /\ HelpAmong(args, Len(args)) \/ WordsOf(args, Len(args)) \subseteq {Cli!Options.command, "help"}
  BY <1>1 DEF Describes
<1>3. WordsOf(args, Len(args)) = Cli!Words
  BY Zenon DEF WordsOf, Cli!Words, CommandFacts
<1>4. HelpAmong(args, Len(args)) => {"--help", "-h"} \cap Range(args) # {}
  BY DEF HelpAmong, CommandFacts, Range
<1>5. Cli!Range(args) = Range(args)
  BY Zenon DEF Cli!Range, Range
<1> QED
  BY <1>2, <1>3, <1>4, <1>5 DEF Cli!AskedFor

\* A switch that is given has been read, and one that was read is given.
LEMMA SwitchIsGiven ==
  ASSUME CommandFacts, ~Cli!Options.wrong, NEW t \in Cli!Switches \ {"--help", "-h"}
  PROVE  Cli!Has(t) <=> t \in Cli!Options.switches
<1>1. Describes(Cli!Options, args, Len(args)) /\ DOMAIN args = 1 .. Len(args)
  BY OptionsDescribe DEF CommandFacts
<1>2. Cli!Has(t) <=> \E i \in 1 .. Len(args) : args[i] = t
  BY <1>1 DEF Cli!Has, Cli!Range
<1> QED
  BY <1>1, <1>2 DEF Describes

\* An option that is given is one of the command's.
LEMMA OptionIsTaken ==
  ASSUME CommandFacts, ~Cli!Options.wrong, NEW t, Cli!IsOption(t), t # "-h", Cli!Has(t)
  PROVE  t \in Cli!OptionsOf(Cli!Options.command)
<1>1. PICK i \in DOMAIN args : args[i] = t
  BY Zenon DEF Cli!Has, Cli!Range
<1>2. Cli!Named(args[i]) \in Cli!OptionsOf(Cli!Options.command)
  BY <1>1, OptionsDescribe
<1> QED
  BY <1>1, <1>2 DEF Cli!Named

\* Which commands take --dry-run and the options that edit.
LEMMA OptionsOfCommands ==
  /\ "--dry-run" \notin Cli!OptionsOf("init") /\ "--dry-run" \notin Cli!OptionsOf("apply")
  /\ \A o \in Cli!EditFlags : o \notin Cli!OptionsOf("migrate") /\ o \notin Cli!OptionsOf("rollback") /\ o \notin Cli!OptionsOf("apply")
  BY DEF Cli!OptionsOf, Cli!Common, Cli!EditFlags

\* An option that edits has its own field, and its value is the argument that follows.
LEMMA SelectedIsGiven ==
  ASSUME CommandFacts, ~Cli!Options.wrong, NEW i \in DOMAIN args, args[i] \in Cli!EditFlags
  PROVE  /\ Cli!FieldOf[args[i]] \in DOMAIN Cli!Selected
         /\ Cli!Selected[Cli!FieldOf[args[i]]] = args[i + 1]
<1> DEFINE o == args[i]
           v == Cli!Options.values
<1>1. Describes(Cli!Options, args, Len(args)) /\ DOMAIN args = 1 .. Len(args) /\ Len(args) \in Nat
  BY OptionsDescribe DEF CommandFacts
<1>2. o \in Cli!Valued /\ Nothing \notin Cli!Valued
  BY CommandAssumption DEF Cli!Valued
<1>3. i # Len(args) /\ i \in 1 .. Len(args) - 1
  <2>1. Cli!Options.due = Nothing
    BY OptionsDescribe
  <2>2. Len(args) > 0 /\ args[Len(args)] \in Cli!Valued => Cli!Options.due = args[Len(args)]
    BY <1>1 DEF Describes
  <2> QED
    BY <1>1, <1>2, <2>1, <2>2
<1>4. o \in DOMAIN v /\ \E j \in 1 .. Len(args) - 1 : args[j] = o /\ v[o] = args[j + 1]
  BY <1>1, <1>2, <1>3 DEF Describes
<1>5. PICK j \in 1 .. Len(args) - 1 : args[j] = o /\ v[o] = args[j + 1]
  BY <1>4
<1>6. i = j
  <2>1. Cli!IsOption(args[i]) /\ Cli!IsOption(args[j]) /\ i \in DOMAIN args /\ j \in DOMAIN args
    BY <1>1, <1>2, <1>5, Vocabulary
  <2>2. Cli!Named(args[i]) = Cli!Named(args[j])
    BY <1>5
  <2> QED
    BY <2>1, <2>2, OptionsDescribe
<1>7. o \in Cli!Given
  BY <1>4, Zenon DEF Cli!Given
<1>8. \A a, b \in Cli!EditFlags : Cli!FieldOf[a] = Cli!FieldOf[b] => a = b
  BY DEF Cli!EditFlags, Cli!FieldOf
<1>9. Cli!Given \subseteq Cli!EditFlags
  BY Zenon DEF Cli!Given
<1> HIDE DEF o
<1>10. (CHOOSE a \in Cli!Given : Cli!FieldOf[a] = Cli!FieldOf[o]) = o
  BY <1>7, <1>8, <1>9
<1>11. Cli!FieldOf[o] \in DOMAIN Cli!Selected /\ Cli!Selected[Cli!FieldOf[o]] = v[o]
  BY <1>7, <1>10 DEF Cli!Selected
<1> QED
  BY <1>5, <1>6, <1>11 DEF o

\* The field of an option that edits is one of a document's.
LEMMA FieldIsThere ==
  ASSUME NEW d, IsDocument(d), NEW o \in Cli!EditFlags
  PROVE  Cli!FieldOf[o] \in DOMAIN d /\ "version" \in DOMAIN d
<1>1. Cli!FieldOf[o] \in Range(Cli!FieldOf)
  BY DEF Range, Cli!FieldOf
<1> QED
  BY <1>1 DEF IsDocument

\* An edited document is a document, with the changes.
LEMMA EditedEffect ==
  ASSUME NEW d, NEW edit
  PROVE  /\ DOMAIN Cli!Edited(d, edit) = DOMAIN d
         /\ \A k \in DOMAIN d \cap DOMAIN edit : Cli!Edited(d, edit)[k] = edit[k]
         /\ \A k \in DOMAIN d \ DOMAIN edit : Cli!Edited(d, edit)[k] = d[k]
  BY DEF Cli!Edited

\* A step that ends the program with a status and writes nothing.
LEMMA EndKeeps ==
  ASSUME CommandFacts, NEW status, Cli!End(status), status # 0 \/ phase # "writing"
  PROVE  CommandFacts' /\ Cli!DoneAsAsked /\ Cli!WrittenAsConfirmed
<1>1. /\ phase' = "ended" /\ exit' = status /\ file' = file /\ artifacts' = artifacts
      /\ args' = args /\ foreign' = foreign
  BY DEF Cli!End, Cli!EndWith
<1>2. CommandFacts'
  BY <1>1 DEF CommandFacts
<1>3. Cli!DoneAsAsked
  BY <1>1, Zenon DEF Cli!DoneAsAsked, Cli!Writes
<1>4. Cli!WrittenAsConfirmed
  BY <1>1 DEF Cli!WrittenAsConfirmed
<1> QED
  BY <1>2, <1>3, <1>4

\* A step of the dialogue that writes nothing.
LEMMA AskingKeeps ==
  ASSUME CommandFacts, UNCHANGED <<args, exit, file, artifacts>>, foreign' \in Nat, phase # "writing",
         phase \in {"asking", "confirming", "writing"} \/ (~Cli!Options.wrong /\ Cli!Options.command = "config")
  PROVE  CommandFacts' /\ Cli!DoneAsAsked /\ Cli!WrittenAsConfirmed
<1>1. CommandFacts'
  <2>1. ~Cli!Options.wrong /\ Cli!Options.command = "config"
    BY Zenon DEF CommandFacts
  <2>2. (Cli!Options)' = Cli!Options
    BY Zenon DEF Cli!Options
  <2> QED
    BY <2>1, <2>2, Zenon DEF CommandFacts
<1>2. Cli!DoneAsAsked
  BY Zenon DEF Cli!DoneAsAsked, Cli!Writes
<1>3. Cli!WrittenAsConfirmed
  BY DEF Cli!WrittenAsConfirmed
<1> QED
  BY <1>1, <1>2, <1>3

\* What a step of the command line has to keep, and to respect.
StepIsRight == CommandFacts' /\ Cli!DoneAsAsked /\ Cli!WrittenAsConfirmed

\* `init` and its options write a new document, with the values they are given.
LEMMA InitializeKeeps ==
  ASSUME CommandFacts, NEW default, IsDocument(default), Cli!Command("init"), Cli!Initialize(default)
  PROVE  StepIsRight
<1>1. phase = "start" /\ ~Cli!Options.wrong /\ Cli!Options.command = "init"
  BY Zenon DEF Cli!Command
<1>2. CASE \E status : Cli!End(status)
  BY <1>1, <1>2, EndKeeps DEF StepIsRight
<1>3. CASE ~\E status : Cli!End(status)
  <2> DEFINE preset == {Cli!Options.values[o] : o \in {"--preset"} \cap DOMAIN Cli!Options.values}
             new == Cli!Edited(default, Cli!Chosen(preset))
  <2>1. (file = Nothing \/ "--force" \in Cli!Options.switches) /\ Cli!EndWith(0, new, artifacts)
    BY <1>3, Zenon DEF Cli!Initialize
  <2>2. /\ exit' = 0 /\ file' = new /\ artifacts' = artifacts /\ args' = args /\ foreign' = foreign /\ phase' = "ended"
    BY <2>1, Zenon DEF Cli!EndWith
  <2>3. "--force" \in Cli!Options.switches => Cli!Has("--force")
    BY <1>1, SwitchIsGiven DEF Cli!Switches
  <2>4. ~Cli!Has("--dry-run")
    BY <1>1, OptionIsTaken, OptionsOfCommands DEF Cli!IsOption, Cli!Switches
  <2>5. Cli!AskedFor("init")
    BY <1>1, CommandIsAskedFor
  <2>6. DOMAIN new = DOMAIN default /\ IsDocument(new)
    BY EditedEffect DEF IsDocument
  <2>7. CommandFacts'
    <3> HIDE DEF new
    <3>1. IsDocument(file')
      BY <2>2, <2>6
    <3> QED
      BY <2>2, <3>1 DEF CommandFacts, IsDocument
  <2>8. Cli!DoneAsAsked
    BY <2>1, <2>2, <2>3, <2>4, <2>5, Zenon DEF Cli!DoneAsAsked
  <2>9. ASSUME NEW i \in DOMAIN args, args[i] \in Cli!EditFlags
        PROVE  file'[Cli!FieldOf[args[i]]] = args[i + 1]
    <3> DEFINE k == Cli!FieldOf[args[i]]
    <3>1. k \in DOMAIN Cli!Selected /\ Cli!Selected[k] = args[i + 1]
      BY <1>1, <2>9, SelectedIsGiven
    <3>2. k \in DOMAIN default
      BY <2>9, FieldIsThere
    <3> HIDE DEF k
    <3>3. k \in DOMAIN Cli!Chosen(preset) /\ Cli!Chosen(preset)[k] = Cli!Selected[k]
      <4> HIDE DEF preset
      <4> QED
        BY <3>1 DEF Cli!Chosen
    <3>4. new[k] = Cli!Chosen(preset)[k]
      BY <3>2, <3>3, EditedEffect
    <3> QED
      BY <2>2, <3>1, <3>3, <3>4 DEF k
  <2>10. Cli!WrittenAsConfirmed
    BY <1>1, <2>9, Zenon DEF Cli!WrittenAsConfirmed
  <2> QED
    BY <2>7, <2>8, <2>10 DEF StepIsRight
<1> QED
  BY <1>2, <1>3

\* `apply` generates, and writes no document.
LEMMA ApplyKeeps == ASSUME CommandFacts, Cli!Command("apply"), Cli!Apply PROVE StepIsRight
<1>1. phase = "start" /\ ~Cli!Options.wrong /\ Cli!Options.command = "apply"
  BY Zenon DEF Cli!Command
<1>2. CASE Cli!End(1)
  BY <1>2, EndKeeps DEF StepIsRight
<1>3. CASE Cli!EndWith(0, file, file)
  <2>1. exit' = 0 /\ file' = file /\ args' = args /\ foreign' = foreign /\ phase' = "ended"
    BY <1>3, Zenon DEF Cli!EndWith
  <2>2. ~Cli!Has("--dry-run")
    BY <1>1, OptionIsTaken, OptionsOfCommands DEF Cli!IsOption, Cli!Switches
  <2>3. Cli!AskedFor("apply")
    BY <1>1, CommandIsAskedFor
  <2>4. CommandFacts'
    BY <2>1 DEF CommandFacts
  <2>5. Cli!DoneAsAsked
    BY <2>1, <2>2, <2>3, Zenon DEF Cli!DoneAsAsked
  <2>6. Cli!WrittenAsConfirmed
    BY <1>1, <2>1 DEF Cli!WrittenAsConfirmed
  <2> QED
    BY <2>4, <2>5, <2>6 DEF StepIsRight
<1> QED
  BY <1>2, <1>3, Zenon DEF Cli!Apply

\* What migrations and rollbacks write: options that edit are none of theirs.
LEMMA NothingIsEdited ==
  ASSUME CommandFacts, ~Cli!Options.wrong, Cli!Options.command \in {"migrate", "rollback"}
  PROVE  \A i \in DOMAIN args : args[i] \notin Cli!EditFlags
<1> SUFFICES ASSUME NEW i \in DOMAIN args, args[i] \in Cli!EditFlags PROVE FALSE
  OBVIOUS
<1>1. Cli!IsOption(args[i]) /\ args[i] # "-h"
  BY DEF Cli!IsOption, Cli!Valued, Cli!EditFlags
<1>2. Cli!Has(args[i])
  BY Zenon DEF Cli!Has, Cli!Range
<1> QED
  BY <1>1, <1>2, OptionIsTaken, OptionsOfCommands

\* `migrate` changes the version of the document, downwards only with consent.
LEMMA MigrateKeeps == ASSUME CommandFacts, Cli!Command("migrate"), Cli!Migrate PROVE StepIsRight
<1>1. phase = "start" /\ ~Cli!Options.wrong /\ Cli!Options.command = "migrate"
  BY Zenon DEF Cli!Command
<1>2. CASE Cli!End(1)
  BY <1>2, EndKeeps DEF StepIsRight
<1>3. CASE ~Cli!End(1)
  <2>1. PICK target :
          /\ file \notin {Nothing, Broken}
          /\ target < file.version => "--allow-downgrade" \in Cli!Options.switches
          /\ Cli!EndWith(0, IF Cli!DryRun THEN file ELSE [file EXCEPT !.version = target], artifacts)
    BY <1>3, Zenon DEF Cli!Migrate
  <2>2. /\ exit' = 0 /\ file' = (IF Cli!DryRun THEN file ELSE [file EXCEPT !.version = target])
        /\ artifacts' = artifacts /\ args' = args /\ foreign' = foreign /\ phase' = "ended"
    BY <2>1, Zenon DEF Cli!EndWith
  <2>3. IsDocument(file) /\ "version" \in DOMAIN file
    BY <2>1 DEF CommandFacts, IsDocument
  <2>4. /\ "--dry-run" \in Cli!Options.switches <=> Cli!Has("--dry-run")
        /\ "--allow-downgrade" \in Cli!Options.switches <=> Cli!Has("--allow-downgrade")
    BY <1>1, SwitchIsGiven DEF Cli!Switches
  <2>5. IsDocument(file')
    BY <2>2, <2>3 DEF IsDocument
  <2>6. CommandFacts'
    BY <2>2, <2>5 DEF CommandFacts, IsDocument
  <2>7. file' # file => ~Cli!DryRun /\ file'.version = target
    BY <2>2, <2>3
  <2>8. Cli!AskedFor("migrate")
    BY <1>1, CommandIsAskedFor
  <2>9. Cli!DoneAsAsked
    BY <2>1, <2>2, <2>4, <2>7, <2>8, Zenon DEF Cli!DoneAsAsked, Cli!Writes, Cli!DryRun
  <2>10. Cli!WrittenAsConfirmed
    BY <1>1, NothingIsEdited DEF Cli!WrittenAsConfirmed
  <2> QED
    BY <2>6, <2>9, <2>10 DEF StepIsRight
<1> QED
  BY <1>2, <1>3

\* `rollback` restores what is saved.
LEMMA RollBackKeeps == ASSUME CommandFacts, Cli!Command("rollback"), Cli!RollBack PROVE StepIsRight
<1>1. phase = "start" /\ ~Cli!Options.wrong /\ Cli!Options.command = "rollback"
  BY Zenon DEF Cli!Command
<1>2. CASE Cli!End(1)
  BY <1>2, EndKeeps DEF StepIsRight
<1>3. CASE ~Cli!End(1)
  <2>1. /\ "--backup" \in DOMAIN Cli!Options.values
        /\ Cli!EndWith(0, IF Cli!DryRun THEN file ELSE Saved, artifacts)
    BY <1>3, Zenon DEF Cli!RollBack
  <2>2. /\ exit' = 0 /\ file' = (IF Cli!DryRun THEN file ELSE Saved)
        /\ artifacts' = artifacts /\ args' = args /\ foreign' = foreign /\ phase' = "ended"
    BY <2>1, Zenon DEF Cli!EndWith
  <2>3. "--dry-run" \in Cli!Options.switches <=> Cli!Has("--dry-run")
    BY <1>1, SwitchIsGiven DEF Cli!Switches
  <2>4. Cli!Has("--backup")
    <3>1. Describes(Cli!Options, args, Len(args)) /\ DOMAIN args = 1 .. Len(args) /\ Len(args) \in Nat
      BY <1>1, OptionsDescribe DEF CommandFacts
    <3>2. \E i \in 1 .. Len(args) - 1 : args[i] = "--backup"
      BY <2>1, <3>1 DEF Describes
    <3> QED
      BY <3>1, <3>2 DEF Cli!Has, Cli!Range
  <2>5. IsDocument(Saved)
    BY CommandAssumption, Zenon
  <2>6. CommandFacts'
    BY <2>2, <2>5 DEF CommandFacts, IsDocument
  <2>7. Cli!AskedFor("rollback")
    BY <1>1, CommandIsAskedFor
  <2>8. Cli!DoneAsAsked
    BY <2>2, <2>3, <2>4, <2>7, Zenon DEF Cli!DoneAsAsked, Cli!Writes, Cli!DryRun
  <2>9. Cli!WrittenAsConfirmed
    BY <1>1, NothingIsEdited DEF Cli!WrittenAsConfirmed
  <2> QED
    BY <2>6, <2>8, <2>9 DEF StepIsRight
<1> QED
  BY <1>2, <1>3

\* What configure does, if it does not fail.
LEMMA ConfigureEffect ==
  ASSUME CommandFacts, NEW edit, NEW dryRun, Cli!Configure(edit, dryRun), ~Cli!End(1)
  PROVE  /\ IsDocument(file) /\ exit' = 0 /\ artifacts' = artifacts /\ args' = args /\ foreign' = foreign
         /\ phase' = "ended" /\ file' = IF dryRun THEN file ELSE Cli!Edited(file, edit)
         /\ CommandFacts'
<1>1. file \notin {Nothing, Broken} /\ Cli!EndWith(0, IF dryRun THEN file ELSE Cli!Edited(file, edit), artifacts)
  BY Zenon DEF Cli!Configure, Cli!Loads
<1>2. /\ exit' = 0 /\ artifacts' = artifacts /\ args' = args /\ foreign' = foreign
      /\ phase' = "ended" /\ file' = IF dryRun THEN file ELSE Cli!Edited(file, edit)
  BY <1>1, Zenon DEF Cli!EndWith
<1>3. IsDocument(file)
  BY <1>1 DEF CommandFacts
<1>4. IsDocument(file')
  BY <1>2, <1>3, EditedEffect DEF IsDocument
<1>5. CommandFacts'
  BY <1>2, <1>4 DEF CommandFacts, IsDocument
<1> QED
  BY <1>2, <1>3, <1>5

\* `config` with flags writes their values, and nothing without any.
LEMMA RunConfigKeeps == ASSUME CommandFacts, Cli!RunConfig PROVE StepIsRight
<1> DEFINE dryRun == Cli!DryRun \/ Cli!Given = {}
<1>1. phase = "start" /\ ~Cli!Options.wrong /\ Cli!Options.command = "config" /\ Cli!Configure(Cli!Selected, dryRun)
  BY Zenon DEF Cli!RunConfig, Cli!Command
<1>2. CASE Cli!End(1)
  BY <1>2, EndKeeps DEF StepIsRight
<1>3. CASE ~Cli!End(1)
  <2>1. /\ IsDocument(file) /\ exit' = 0 /\ artifacts' = artifacts /\ args' = args /\ foreign' = foreign
        /\ file' = IF dryRun THEN file ELSE Cli!Edited(file, Cli!Selected)
        /\ CommandFacts'
    <3> HIDE DEF dryRun
    <3> QED
      BY <1>1, <1>3, ConfigureEffect
  <2>2. file' # file => ~dryRun /\ file' = Cli!Edited(file, Cli!Selected)
    BY <2>1, Zenon
  <2>3. "--dry-run" \in Cli!Options.switches <=> Cli!Has("--dry-run")
    BY <1>1, SwitchIsGiven DEF Cli!Switches
  <2>4. Cli!Given # {} => Cli!EditFlags \cap Cli!Range(args) # {}
    <3>1. Describes(Cli!Options, args, Len(args)) /\ DOMAIN args = 1 .. Len(args) /\ Len(args) \in Nat
      BY <1>1, OptionsDescribe DEF CommandFacts
    <3>2. ASSUME NEW o \in Cli!Given PROVE o \in Cli!EditFlags /\ \E i \in 1 .. Len(args) - 1 : args[i] = o
      BY <3>1 DEF Describes, Cli!Given
    <3> QED
      BY <3>1, <3>2 DEF Cli!Range
  <2>5. Cli!AskedFor("config")
    BY <1>1, CommandIsAskedFor
  <2>6. Cli!DoneAsAsked
    BY <2>1, <2>2, <2>3, <2>4, <2>5, Zenon DEF Cli!DoneAsAsked, Cli!Writes, Cli!DryRun
  <2>7. ASSUME file' # file, NEW i \in DOMAIN args, args[i] \in Cli!EditFlags
        PROVE  file'[Cli!FieldOf[args[i]]] = args[i + 1]
    BY <1>1, <2>1, <2>2, <2>7, SelectedIsGiven, FieldIsThere, EditedEffect
  <2>8. Cli!WrittenAsConfirmed
    BY <1>1, <2>7 DEF Cli!WrittenAsConfirmed
  <2> QED
    BY <2>1, <2>6, <2>8 DEF StepIsRight
<1> QED
  BY <1>2, <1>3

\* A dialogue writes the answers that were confirmed, and keeps the other fields.
LEMMA EndDialogueKeeps == ASSUME CommandFacts, Cli!EndDialogue PROVE StepIsRight
<1>1. phase = "writing" /\ Cli!Configure(Cli!Collected, Cli!DryRun)
  BY Zenon DEF Cli!EndDialogue
<1>2. ~Cli!Options.wrong /\ Cli!Options.command = "config"
  BY <1>1 DEF CommandFacts
<1>3. CASE Cli!End(1)
  BY <1>3, EndKeeps DEF StepIsRight
<1>4. CASE ~Cli!End(1)
  <2>1. /\ IsDocument(file) /\ exit' = 0 /\ artifacts' = artifacts /\ args' = args /\ foreign' = foreign
        /\ file' = IF Cli!DryRun THEN file ELSE Cli!Edited(file, Cli!Collected)
        /\ CommandFacts'
    BY <1>1, <1>4, ConfigureEffect
  <2>2. Cli!DryRun <=> Cli!Has("--dry-run")
    BY <1>2, SwitchIsGiven DEF Cli!Switches, Cli!DryRun
  <2>3. Cli!AskedFor("config")
    BY <1>2, CommandIsAskedFor
  <2>4. Cli!DoneAsAsked
    BY <1>1, <2>1, <2>2, <2>3, Zenon DEF Cli!DoneAsAsked, Cli!Writes
  <2>5. DOMAIN Cli!Collected = Cli!Fields
    BY DEF Cli!Collected
  <2>6. ASSUME NEW n \in DOMAIN Questions
        PROVE  /\ Questions[n] \in Cli!Fields /\ Questions[n] \in DOMAIN file
               /\ Cli!Collected[Questions[n]] = IF answers[n] = "" THEN shown[Questions[n]] ELSE answers[n]
    <3>1. Questions[n] \in Cli!Fields
      BY DEF Cli!Fields, Cli!Range
    <3>2. Questions[n] \in Range(Cli!FieldOf)
      BY CommandAssumption
    <3>3. Questions[n] \in DOMAIN file
      BY <2>1, <3>2 DEF IsDocument
    <3>4. (CHOOSE m \in DOMAIN Questions : Questions[m] = Questions[n]) = n
      BY CommandAssumption
    <3> DEFINE q == Questions[n]
               place == CHOOSE m \in DOMAIN Questions : Questions[m] = q
    <3>5. Cli!Collected[q] = IF answers[place] = "" THEN shown[q] ELSE answers[place]
      <4> HIDE DEF q
      <4> QED
        BY <3>1, Zenon DEF Cli!Collected, q
    <3> QED
      BY <3>1, <3>3, <3>4, <3>5, Zenon
  <2>7. ~Cli!Has("--dry-run") =>
          /\ \A n \in DOMAIN Questions :
               file'[Questions[n]] = IF answers[n] = "" THEN shown[Questions[n]] ELSE answers[n]
          /\ \A k \in DOMAIN file \ Cli!Fields : file'[k] = file[k]
    <3> DEFINE new == Cli!Edited(file, Cli!Collected)
    <3>1. ~Cli!Has("--dry-run") => file' = new
      BY <2>1, <2>2, Zenon
    <3>2. /\ \A k \in DOMAIN file \cap DOMAIN Cli!Collected : new[k] = Cli!Collected[k]
          /\ \A k \in DOMAIN file \ DOMAIN Cli!Collected : new[k] = file[k]
      BY EditedEffect
    <3> HIDE DEF new
    <3>3. \A n \in DOMAIN Questions : new[Questions[n]] = Cli!Collected[Questions[n]]
      BY <2>5, <2>6, <3>2, Zenon
    <3> QED
      BY <2>5, <2>6, <3>1, <3>2, <3>3, Zenon
  <2>8. Cli!WrittenAsConfirmed
    BY <1>1, <2>7 DEF Cli!WrittenAsConfirmed
  <2> QED
    BY <2>1, <2>4, <2>8 DEF StepIsRight
<1> QED
  BY <1>3, <1>4

\* The beginning of a dialogue, its questions and the last one write nothing.
LEMMA DialogueKeeps ==
  ASSUME CommandFacts,
         Cli!BeginDialogue \/ (\E a \in Cli!Replies : Cli!Answer(a)) \/ (\E a \in {"y", "", "end of file"} : Cli!Confirm(a))
  PROVE  StepIsRight
<1>1. phase # "writing"
  BY DEF Cli!BeginDialogue, Cli!Command, Cli!Answer, Cli!Confirm
<1>2. CASE \E status : Cli!End(status)
  BY <1>1, <1>2, EndKeeps DEF StepIsRight
<1>3. CASE ~\E status : Cli!End(status)
  <2>1. UNCHANGED <<args, exit, file, artifacts>> /\ foreign' = foreign
    BY <1>3, Zenon DEF Cli!BeginDialogue, Cli!Answer, Cli!Confirm
  <2>2. phase \in {"asking", "confirming", "writing"} \/ (~Cli!Options.wrong /\ Cli!Options.command = "config")
    BY <1>3, Zenon DEF Cli!BeginDialogue, Cli!Answer, Cli!Confirm, Cli!Command
  <2>3. foreign' \in Nat
    BY <2>1 DEF CommandFacts
  <2> QED
    BY <1>1, <2>1, <2>2, <2>3, AskingKeeps DEF StepIsRight
<1> QED
  BY <1>2, <1>3

\* Another program writes a document, or removes it.
LEMMA ForeignEditKeeps == ASSUME CommandFacts, Cli!ForeignEdit PROVE StepIsRight
<1>1. /\ foreign' = foreign + 1 /\ foreign \in Nat /\ file' \in ForeignDocuments
      /\ UNCHANGED <<args, phase, exit, artifacts>>
  BY DEF Cli!ForeignEdit, CommandFacts
<1>2. file' \in {Nothing, Broken} \/ IsDocument(file')
  BY <1>1, CommandAssumption, Zenon
<1>3. (Cli!Options)' = Cli!Options
  BY <1>1, Zenon DEF Cli!Options
<1>4. foreign' \in Nat /\ foreign' # foreign
  BY <1>1
<1>5. CommandFacts'
  <2>1. Len(args') \in Nat /\ DOMAIN args' = 1 .. Len(args')
    BY <1>1, Zenon DEF CommandFacts
  <2>2. phase' \in {"asking", "confirming", "writing"} => ~(Cli!Options)'.wrong /\ (Cli!Options)'.command = "config"
    BY <1>1, <1>3, Zenon DEF CommandFacts
  <2>3. file' \in {Nothing, Broken} \/ IsDocument(file)'
    BY <1>2 DEF IsDocument
  <2> QED
    BY <1>4, <2>1, <2>2, <2>3, Zenon DEF CommandFacts
<1> QED
  BY <1>4, <1>5 DEF StepIsRight, Cli!DoneAsAsked, Cli!WrittenAsConfirmed

\* Every step of the command line is right.
LEMMA CommandStep == ASSUME CommandFacts, Cli!Next PROVE StepIsRight
<1>1. CASE Cli!Refuse
  BY <1>1, EndKeeps DEF Cli!Refuse, StepIsRight
<1>2. ASSUME NEW default, IsDocument(default), Cli!Run(default) PROVE StepIsRight
  <2>1. CASE Cli!Command("init") /\ Cli!Initialize(default)
    BY <1>2, <2>1, InitializeKeeps
  <2>2. CASE Cli!Command("apply") /\ Cli!Apply
    BY <2>2, ApplyKeeps
  <2>3. CASE Cli!Command("migrate") /\ Cli!Migrate
    BY <2>3, MigrateKeeps
  <2>4. CASE Cli!Command("rollback") /\ Cli!RollBack
    BY <2>4, RollBackKeeps
  <2>5. ASSUME phase = "start", NEW status, Cli!End(status) PROVE StepIsRight
    BY <2>5, EndKeeps DEF StepIsRight
  <2>6. CASE \E c \in {"plan", "check", "doctor"} : Cli!Command(c) /\ Cli!Inspect(c)
    <3>1. phase = "start" /\ \E status : Cli!End(status)
      BY <2>6, Zenon DEF Cli!Command, Cli!Inspect
    <3> QED
      BY <2>5, <3>1
  <2> QED
    BY <1>2, <2>1, <2>2, <2>3, <2>4, <2>5, <2>6, Zenon DEF Cli!Run, Cli!Command
<1>3. CASE \E default \in {d \in ForeignDocuments : Cli!Loads(d)} : Cli!Run(default)
  <2>1. PICK default \in ForeignDocuments : Cli!Loads(default) /\ Cli!Run(default)
    BY <1>3
  <2>2. IsDocument(default)
    BY <2>1, CommandAssumption, Zenon DEF Cli!Loads
  <2> QED
    BY <1>2, <2>1, <2>2
<1> QED
  BY <1>1, <1>3, RunConfigKeeps, DialogueKeeps, EndDialogueKeeps, ForeignEditKeeps, Zenon
     DEF Cli!Next, Cli!Process

\* The facts hold at first.
LEMMA CommandStarts == ConfigurationInit => CommandFacts
<1> SUFFICES ASSUME ConfigurationInit PROVE CommandFacts
  OBVIOUS
<1>1. CASE NoCommand
  BY <1>1 DEF NoCommand, CommandFacts
<1>2. CASE Cli!Init
  BY <1>2, CommandAssumption DEF Cli!Init, CommandFacts
<1> QED
  BY <1>1, <1>2 DEF ConfigurationInit

\* Every step of a behaviour keeps the facts, and is right if it is one of the command line.
LEMMA CommandKeeps ==
  CommandFacts /\ [ConfigurationNext]_configurationVars =>
    CommandFacts' /\ [Cli!DoneAsAsked]_cliVars /\ [Cli!WrittenAsConfirmed]_cliVars
<1> SUFFICES ASSUME CommandFacts, [ConfigurationNext]_configurationVars
             PROVE  CommandFacts' /\ [Cli!DoneAsAsked]_cliVars /\ [Cli!WrittenAsConfirmed]_cliVars
  OBVIOUS
<1>1. CASE Cli!Next
  BY <1>1, CommandStep DEF StepIsRight
<1>2. CASE UNCHANGED cliVars
  <2>1. (Cli!Options)' = Cli!Options
    BY <1>2, Zenon DEF cliVars, Cli!Options
  <2> QED
    BY <1>2, <2>1, Zenon DEF cliVars, CommandFacts, IsDocument
<1> QED
  BY <1>1, <1>2, Zenon DEF ConfigurationNext, Operate, Execute, Validate, Detect, configurationVars

\* Whatever the arguments are, and whatever another program writes during a dialogue:
\* only the command that is named does anything, a dry run and a command that fails do
\* nothing, and no document is replaced or downgraded without the option for it.
THEOREM OnlyWhatIsAskedIsDone == ConfigurationSpec => OnlyAskedIsDone
<1>1. CommandFacts /\ [ConfigurationNext]_configurationVars => CommandFacts'
  BY CommandKeeps
<1>2. CommandFacts /\ [ConfigurationNext]_configurationVars => [Cli!DoneAsAsked]_(Cli!cliVars)
  BY CommandKeeps DEF cliVars, Cli!cliVars
<1> QED
  BY <1>1, <1>2, CommandStarts, PTL DEF ConfigurationSpec, OnlyAskedIsDone, Cli!OnlyAskedIsDone

\* What a dialogue writes is what was shown or answered and then confirmed, and what an
\* option says is written as it is given; the other fields stay.
THEOREM WhatIsConfirmedIsWritten == ConfigurationSpec => ConfirmedIsWritten
<1>1. CommandFacts /\ [ConfigurationNext]_configurationVars => CommandFacts'
  BY CommandKeeps
<1>2. CommandFacts /\ [ConfigurationNext]_configurationVars => [Cli!WrittenAsConfirmed]_(Cli!cliVars)
  BY CommandKeeps DEF cliVars, Cli!cliVars
<1> QED
  BY <1>1, <1>2, CommandStarts, PTL DEF ConfigurationSpec, ConfirmedIsWritten, Cli!ConfirmedIsWritten

-----------------------------------------------------------------------------
(* Detection. *)

\* What is known of the files while extensions are asked: a listed file holds nothing
\* that it has not held, and still what it has always held; and the extension that is
\* asked would have been found in the files that it has read, had its word always been
\* there.
DetectionFacts ==
  /\ turn \in Nat
  /\ verdicts \in Seq(Nat)
  /\ Len(verdicts) \in {turn, turn - 1}
  /\ listing \subseteq DOMAIN tree
  /\ DOMAIN held = DOMAIN tree
  /\ DOMAIN kept = DOMAIN tree
  /\ \A f \in listing :
       /\ f.spelling \in Int
       /\ tree[f] # Missing => tree[f] \subseteq held[f] /\ kept[f] \subseteq tree[f]
       /\ tree[f] = Missing => kept[f] = {}
  /\ ~Det!Answered =>
       /\ reading \subseteq Det!ToRead(Registered[turn])
       /\ \A f \in Det!ToRead(Registered[turn]) \ reading : kept[f] \cap Registered[turn].words = {}
  /\ DetectionInv

\* The confidence with which the extension d answers, and the threshold of its kind.
Confidence(d, refers) ==
  IF d.kind = "language" THEN Det!LanguageConfidence(d, refers) ELSE Det!FrameworkConfidence(d, refers)
Threshold(d) == IF d.kind = "language" THEN 60 ELSE 75

\* A confidence is a number.
LEMMA ConfidenceIsNat ==
  ASSUME NEW d, NEW refers PROVE Confidence(d, refers) \in Nat /\ Threshold(d) \in Nat
  BY DEF Confidence, Threshold, Det!LanguageConfidence, Det!FrameworkConfidence

\* The files an extension reads, and those that mark it, are listed.
LEMMA ReadIsListed ==
  ASSUME NEW d PROVE Det!ToRead(d) \subseteq listing /\ Det!Marking(d) \subseteq Det!Index /\ Det!Index \subseteq listing
  BY Zenon DEF Det!ToRead, Det!Marking, Det!Index

\* Without paths that differ in case only, every listed file is in the index.
LEMMA IndexIsListing ==
  ASSUME \A f \in listing : f.spelling \in Int, ~Det!Twins PROVE Det!Index = listing
<1>1. ASSUME NEW f \in listing, NEW g \in listing, g.path = f.path PROVE f.spelling <= g.spelling
  <2>1. g = f
    BY <1>1, Zenon DEF Det!Twins
  <2> QED
    BY <2>1
<1> QED
  BY <1>1 DEF Det!Index

\* A confidence that selects an extension rests on evidence: a file that marks it, one of
\* its source files, or a word it was found by.
LEMMA SelectedHasEvidence ==
  ASSUME NEW d, NEW words, NEW refers \in BOOLEAN,
         refers => \E f \in Det!ToRead(d) : words[f] \cap d.words # {},
         Confidence(d, refers) >= Threshold(d)
  PROVE  Det!Evidence(d, words)
<1>1. CASE d.kind = "language"
  <2>1. CASE refers
    BY <1>1, <2>1, ReadIsListed DEF Det!ToRead, Det!Evidence, Det!LanguageEvidence
  <2>2. CASE ~refers /\ Det!Marking(d) # {}
    BY <1>1, <2>2, ReadIsListed DEF Det!Marking, Det!Evidence, Det!LanguageEvidence
  <2>3. CASE ~refers /\ Det!Marking(d) = {}
    <3>1. \E f \in Det!Index : f.endings \cap d.sources # {}
      BY <1>1, <2>3 DEF Confidence, Threshold, Det!LanguageConfidence
    <3> QED
      BY <1>1, <3>1, ReadIsListed DEF Det!Evidence, Det!LanguageEvidence
  <2> QED
    BY <2>1, <2>2, <2>3
<1>2. CASE d.kind # "language"
  <2>1. CASE refers
    BY <1>2, <2>1, ReadIsListed DEF Det!ToRead, Det!Marking, Det!Evidence, Det!FrameworkEvidence
  <2>2. CASE ~refers
    <3>1. \E f \in Det!Marking(d) : f.name \notin Det!Manifests
      BY <1>2, <2>2 DEF Confidence, Threshold, Det!FrameworkConfidence
    <3> QED
      BY <1>2, <3>1, ReadIsListed DEF Det!Marking, Det!Evidence, Det!FrameworkEvidence
  <2> QED
    BY <2>1, <2>2
<1> QED
  BY <1>1, <1>2

\* Evidence is not overlooked: if no file that was read holds a word of the extension,
\* then what marks it, or a source file, selects it.
LEMMA EvidenceIsSelected ==
  ASSUME NEW d, NEW words, NEW refers \in BOOLEAN, \A f \in listing : f.spelling \in Int,
         ~refers => \A f \in Det!ToRead(d) : words[f] \cap d.words = {},
         Det!Evidence(d, words), ~Det!Twins
  PROVE  Confidence(d, refers) >= Threshold(d)
<1>1. Det!Index = listing
  BY IndexIsListing
<1>2. CASE refers
  BY <1>2 DEF Confidence, Threshold, Det!LanguageConfidence, Det!FrameworkConfidence
<1>3. CASE ~refers /\ d.kind = "language"
  <2>1. Det!ToRead(d) = {f \in listing : f.name = "package.json" /\ f.atRoot /\ d.words # {}}
    BY <1>1, <1>3 DEF Det!ToRead
  <2>2. PICK f \in listing : \/ f.name \in d.markers
                             \/ f.endings \cap d.sources # {}
                             \/ f.name = "package.json" /\ f.atRoot /\ words[f] \cap d.words # {}
    BY <1>3, Zenon DEF Det!Evidence, Det!LanguageEvidence
  <2>3. f.name \in d.markers \/ f.endings \cap d.sources # {}
    BY <1>3, <2>1, <2>2
  <2>4. Det!Marking(d) # {} \/ \E g \in Det!Index : g.endings \cap d.sources # {}
    BY <1>1, <2>3, Zenon DEF Det!Marking
  <2> QED
    BY <1>3, <2>4 DEF Confidence, Threshold, Det!LanguageConfidence
<1>4. CASE ~refers /\ d.kind # "language"
  <2>1. Det!ToRead(d) = Det!Marking(d)
    BY <1>4 DEF Det!ToRead
  <2>2. PICK f \in listing : f.name \in d.markers /\ (f.name \notin Det!Manifests \/ words[f] \cap d.words # {})
    BY <1>4, Zenon DEF Det!Evidence, Det!FrameworkEvidence
  <2>3. f \in Det!Marking(d)
    BY <1>1, <2>2, Zenon DEF Det!Marking
  <2>4. f.name \notin Det!Manifests
    BY <1>4, <2>1, <2>2, <2>3, Zenon
  <2> QED
    BY <1>4, <2>3, <2>4 DEF Confidence, Threshold, Det!FrameworkConfidence
<1> QED
  BY <1>2, <1>3, <1>4

\* Whether an extension is selected, by its confidence.
LEMMA SelectedIs ==
  ASSUME NEW i \in DOMAIN verdicts
  PROVE  Det!Selected(i) <=> verdicts[i] >= Threshold(Registered[i])
  BY DEF Det!Selected, Threshold

\* An answer that is true of what was read keeps the facts.
LEMMA AnswerKeeps ==
  ASSUME DetectionFacts, NEW refers \in BOOLEAN, ~Det!Answered, Det!Answer(refers),
         UNCHANGED <<tree, listing, turn, held, kept>>,
         refers => \E f \in Det!ToRead(Registered[turn]) : held[f] \cap Registered[turn].words # {},
         ~refers => \A f \in Det!ToRead(Registered[turn]) : kept[f] \cap Registered[turn].words = {}
  PROVE  DetectionFacts'
<1> DEFINE d == Registered[turn]
<1>1. verdicts' = Append(verdicts, Confidence(d, refers)) /\ reading' = {}
  BY Zenon DEF Det!Answer, Confidence
<1>2. Len(verdicts) = turn - 1 /\ turn \in Nat /\ verdicts \in Seq(Nat) /\ Len(verdicts) \in Nat
  BY DEF DetectionFacts, Det!Answered
<1>3. /\ verdicts' \in Seq(Nat) /\ Len(verdicts') = turn /\ DOMAIN verdicts' = 1 .. turn
      /\ verdicts'[turn] = Confidence(d, refers)
      /\ \A i \in DOMAIN verdicts' : i # turn => i \in DOMAIN verdicts /\ verdicts'[i] = verdicts[i]
  <2> HIDE DEF d
  <2> QED
    BY <1>1, <1>2, ConfidenceIsNat
<1>4. Det!Answered'
  BY <1>3 DEF Det!Answered
<1>5. \A f \in listing : f.spelling \in Int
  BY Zenon DEF DetectionFacts
<1>6. (Det!Twins <=> Det!Twins') /\ \A e, w : Det!Evidence(e, w) <=> Det!Evidence(e, w)'
  BY Zenon DEF Det!Twins, Det!Evidence, Det!LanguageEvidence, Det!FrameworkEvidence, Det!Manifests
<1>7. ASSUME NEW i \in DOMAIN verdicts'
      PROVE  /\ Det!Selected(i)' => Det!Evidence(Registered[i], held)'
             /\ Det!Evidence(Registered[i], kept)' /\ ~Det!Twins' => Det!Selected(i)'
  <2>1. CASE i = turn
    <3>1. Det!Selected(i)' <=> Confidence(d, refers) >= Threshold(d)
      BY <1>3, <2>1 DEF Det!Selected, Threshold
    <3>2. Confidence(d, refers) >= Threshold(d) => Det!Evidence(d, held)
      BY SelectedHasEvidence
    <3>3. Det!Evidence(d, kept) /\ ~Det!Twins => Confidence(d, refers) >= Threshold(d)
      BY <1>5, EvidenceIsSelected
    <3>4. (Det!Evidence(d, held) <=> Det!Evidence(Registered[i], held)') /\ (Det!Evidence(d, kept) <=> Det!Evidence(Registered[i], kept)')
      BY <2>1, Zenon DEF Det!Evidence, Det!LanguageEvidence, Det!FrameworkEvidence, Det!Manifests
    <3> QED
      BY <1>6, <3>1, <3>2, <3>3, <3>4, Zenon
  <2>2. CASE i # turn
    <3>1. i \in DOMAIN verdicts /\ verdicts'[i] = verdicts[i]
      BY <1>3, <2>2
    <3>2. Det!Selected(i)' <=> Det!Selected(i)
      BY <3>1 DEF Det!Selected
    <3>3. (Det!Evidence(Registered[i], held) <=> Det!Evidence(Registered[i], held)') /\ (Det!Evidence(Registered[i], kept) <=> Det!Evidence(Registered[i], kept)')
      BY Zenon DEF Det!Evidence, Det!LanguageEvidence, Det!FrameworkEvidence, Det!Manifests
    <3> QED
      BY <1>6, <3>1, <3>2, <3>3, Zenon DEF DetectionFacts, DetectionInv, Det!DetectionInv
  <2> QED
    BY <2>1, <2>2
<1>8. DetectionInv'
  BY <1>7, Zenon DEF DetectionInv, Det!DetectionInv
<1> QED
  BY <1>1, <1>2, <1>3, <1>4, <1>8 DEF DetectionFacts

\* The next extension is asked: it has read nothing yet.
LEMMA AskKeeps == ASSUME DetectionFacts, Det!Ask PROVE DetectionFacts'
<1>1. reading' = Det!ToRead(Registered[turn + 1]) /\ turn' = turn + 1 /\ UNCHANGED <<tree, listing, verdicts, held, kept>>
  BY DEF Det!Ask
<1>2. reading' = (Det!ToRead(Registered[turn]))'
  BY <1>1, Zenon DEF Det!ToRead, Det!Marking, Det!Index
<1>3. DetectionInv'
  BY <1>1, Zenon DEF DetectionFacts, DetectionInv, Det!DetectionInv, Det!Selected, Det!Twins, Det!Evidence,
     Det!LanguageEvidence, Det!FrameworkEvidence, Det!Manifests
<1>4. turn' \in Nat /\ Len(verdicts') \in {turn', turn' - 1}
  BY <1>1 DEF DetectionFacts, Det!Ask, Det!Answered
<1> QED
  BY <1>1, <1>2, <1>3, <1>4, Zenon DEF DetectionFacts

\* A file that is read tells that the extension is referred to, or is done with: what it
\* has always held, it holds now.
LEMMA ReadFileKeeps == ASSUME DetectionFacts, Det!ReadFile PROVE DetectionFacts'
<1> DEFINE d == Registered[turn]
<1>1. PICK f \in reading :
        IF tree[f] # Missing /\ tree[f] \cap d.words # {} THEN Det!Answer(TRUE)
        ELSE reading' = reading \ {f} /\ UNCHANGED verdicts
  BY Zenon DEF Det!ReadFile
<1>2. ~Det!Answered /\ UNCHANGED <<tree, listing, turn, held, kept>>
  BY Zenon DEF Det!ReadFile
<1>3. f \in Det!ToRead(d) /\ f \in listing
  BY <1>2, ReadIsListed, Zenon DEF DetectionFacts
<1>4. CASE tree[f] # Missing /\ tree[f] \cap d.words # {}
  <2>1. held[f] \cap d.words # {}
    BY <1>3, <1>4 DEF DetectionFacts
  <2>2. Det!Answer(TRUE)
    BY <1>1, <1>4, Zenon
  <2> QED
    BY <1>2, <1>3, <2>1, <2>2, AnswerKeeps
<1>5. CASE ~(tree[f] # Missing /\ tree[f] \cap d.words # {})
  <2>1. kept[f] \cap d.words = {}
    BY <1>3, <1>5 DEF DetectionFacts
  <2>2. reading' = reading \ {f} /\ UNCHANGED verdicts
    BY <1>1, <1>5, Zenon
  <2>3. (Det!ToRead(Registered[turn]))' = Det!ToRead(d)
    BY <1>2, Zenon DEF Det!ToRead, Det!Marking, Det!Index
  <2>4. DetectionInv'
    BY <1>2, <2>2, Zenon DEF DetectionFacts, DetectionInv, Det!DetectionInv, Det!Selected, Det!Twins, Det!Evidence,
       Det!LanguageEvidence, Det!FrameworkEvidence, Det!Manifests
  <2>5. /\ reading' \subseteq (Det!ToRead(Registered[turn]))'
        /\ \A g \in (Det!ToRead(Registered[turn]))' \ reading' : kept'[g] \cap Registered[turn'].words = {}
    BY <1>2, <2>1, <2>2, <2>3, Zenon DEF DetectionFacts
  <2> QED
    BY <1>2, <2>2, <2>4, <2>5, Zenon DEF DetectionFacts
<1> QED
  BY <1>4, <1>5

\* All files are read, and none refers to the extension.
LEMMA ConcludeKeeps == ASSUME DetectionFacts, Det!Conclude PROVE DetectionFacts'
<1>1. ~Det!Answered /\ reading = {} /\ Det!Answer(FALSE) /\ UNCHANGED <<tree, listing, turn, held, kept>>
  BY Zenon DEF Det!Conclude
<1>2. \A f \in Det!ToRead(Registered[turn]) : kept[f] \cap Registered[turn].words = {}
  BY <1>1, Zenon DEF DetectionFacts
<1> QED
  BY <1>1, <1>2, AnswerKeeps

\* More words are evidence at least as good.
LEMMA EvidenceGrows ==
  ASSUME NEW d, NEW few, NEW many, \A f \in listing : few[f] \subseteq many[f], Det!Evidence(d, few)
  PROVE  Det!Evidence(d, many)
<1>1. CASE d.kind = "language"
  BY <1>1 DEF Det!Evidence, Det!LanguageEvidence
<1>2. CASE d.kind # "language"
  BY <1>2 DEF Det!Evidence, Det!FrameworkEvidence
<1> QED
  BY <1>1, <1>2

\* The developer changes a file: what it has held grows, and what it has always held
\* shrinks, so that no earlier answer becomes wrong.
LEMMA ChangeKeeps == ASSUME DetectionFacts, NEW g \in Det!Files, Det!Change(g) PROVE DetectionFacts'
<1>1. PICK c \in Contents \ {tree[g]} :
        /\ tree' = [tree EXCEPT ![g] = c]
        /\ held' = [held EXCEPT ![g] = @ \cup (IF c = Missing THEN {} ELSE c)]
        /\ kept' = [kept EXCEPT ![g] = @ \cap (IF c = Missing THEN {} ELSE c)]
  BY Zenon DEF Det!Change
<1>2. g \in listing /\ UNCHANGED <<listing, turn, reading, verdicts>>
  BY Zenon DEF Det!Change
<1>3. /\ listing \subseteq DOMAIN tree /\ DOMAIN held = DOMAIN tree /\ DOMAIN kept = DOMAIN tree
      /\ \A f \in listing : /\ f.spelling \in Int
                            /\ tree[f] # Missing => tree[f] \subseteq held[f] /\ kept[f] \subseteq tree[f]
                            /\ tree[f] = Missing => kept[f] = {}
  BY Zenon DEF DetectionFacts
<1>4. /\ DOMAIN tree' = DOMAIN tree /\ DOMAIN held' = DOMAIN tree /\ DOMAIN kept' = DOMAIN tree
      /\ \A f \in listing : held[f] \subseteq held'[f] /\ kept'[f] \subseteq kept[f]
      /\ \A f \in listing : /\ tree'[f] # Missing => tree'[f] \subseteq held'[f] /\ kept'[f] \subseteq tree'[f]
                            /\ tree'[f] = Missing => kept'[f] = {}
  BY <1>1, <1>2, <1>3
<1>5. (Det!Twins <=> Det!Twins') /\ \A i : Det!Selected(i)' <=> Det!Selected(i)
  BY <1>2, Zenon DEF Det!Twins, Det!Selected
<1>6. /\ (Det!Answered <=> Det!Answered')
      /\ (Det!ToRead(Registered[turn]))' = Det!ToRead(Registered[turn])
  BY <1>2, Zenon DEF Det!Answered, Det!ToRead, Det!Marking, Det!Index
<1>7. \A e, w : Det!Evidence(e, w) <=> Det!Evidence(e, w)'
  BY <1>2, Zenon DEF Det!Evidence, Det!LanguageEvidence, Det!FrameworkEvidence, Det!Manifests
<1>8. ASSUME NEW i \in DOMAIN verdicts'
      PROVE  /\ Det!Selected(i)' => Det!Evidence(Registered[i], held)'
             /\ Det!Evidence(Registered[i], kept)' /\ ~Det!Twins' => Det!Selected(i)'
  <2>1. i \in DOMAIN verdicts
    BY <1>2
  <2>2. Det!Evidence(Registered[i], held) => Det!Evidence(Registered[i], held')
    BY <1>4, EvidenceGrows
  <2>3. Det!Evidence(Registered[i], kept') => Det!Evidence(Registered[i], kept)
    BY <1>4, EvidenceGrows
  <2>4. (Det!Evidence(Registered[i], held)' <=> Det!Evidence(Registered[i], held')) /\ (Det!Evidence(Registered[i], kept)' <=> Det!Evidence(Registered[i], kept'))
    BY <1>2, Zenon DEF Det!Evidence, Det!LanguageEvidence, Det!FrameworkEvidence, Det!Manifests
  <2> QED
    BY <1>5, <2>1, <2>2, <2>3, <2>4, Zenon DEF DetectionFacts, DetectionInv, Det!DetectionInv
<1>9. ~Det!Answered' =>
        /\ reading' \subseteq (Det!ToRead(Registered[turn]))'
        /\ \A f \in (Det!ToRead(Registered[turn]))' \ reading' : kept'[f] \cap Registered[turn'].words = {}
  <2> SUFFICES ASSUME ~Det!Answered
               PROVE  \A f \in Det!ToRead(Registered[turn]) \ reading : kept'[f] \cap Registered[turn].words = {}
    BY <1>2, <1>6, Zenon DEF DetectionFacts
  <2> TAKE f \in Det!ToRead(Registered[turn]) \ reading
  <2>1. kept[f] \cap Registered[turn].words = {} /\ kept'[f] \subseteq kept[f]
    BY <1>4, ReadIsListed, Zenon DEF DetectionFacts
  <2> QED
    BY <2>1
<1>10. DetectionInv'
  BY <1>8, Zenon DEF DetectionInv, Det!DetectionInv
<1>11. turn' \in Nat /\ verdicts' \in Seq(Nat) /\ Len(verdicts') \in {turn', turn' - 1}
  BY <1>2 DEF DetectionFacts
<1> QED
  BY <1>2, <1>3, <1>4, <1>9, <1>10, <1>11, Zenon DEF DetectionFacts

\* Every step keeps the facts.
LEMMA DetectionStep == DetectionFacts /\ [ConfigurationNext]_configurationVars => DetectionFacts'
<1> SUFFICES ASSUME DetectionFacts, [ConfigurationNext]_configurationVars PROVE DetectionFacts'
  OBVIOUS
<1>1. CASE Det!DetectionNext
  BY <1>1, AskKeeps, ReadFileKeeps, ConcludeKeeps, ChangeKeeps DEF Det!DetectionNext
<1>2. CASE UNCHANGED detectionVars
  BY <1>2, Zenon DEF detectionVars, DetectionFacts, DetectionInv, Det!DetectionInv, Det!Answered, Det!Selected,
     Det!Twins, Det!Evidence, Det!LanguageEvidence, Det!FrameworkEvidence, Det!Manifests, Det!ToRead, Det!Marking,
     Det!Index
<1> QED
  BY <1>1, <1>2 DEF ConfigurationNext, Operate, Execute, Validate, Detect, configurationVars

\* However the developer changes files while the languages and frameworks are asked one
\* after the other, what `init` selects rests on evidence that was there, and evidence
\* that was there all the time is not overlooked.
THEOREM DetectionIsSound == ConfigurationSpec => []DetectionInv
<1>1. ConfigurationInit => DetectionFacts
  <2> SUFFICES ASSUME ConfigurationInit PROVE DetectionFacts
    OBVIOUS
  <2>1. turn = 0 /\ verdicts = <<>> /\ Det!Answered
    BY DEF ConfigurationInit, Det!Open, NoDetection, Det!Answered
  <2>2. DetectionInv
    BY <2>1 DEF DetectionInv, Det!DetectionInv
  <2>3. CASE NoDetection
    BY <2>1, <2>2, <2>3 DEF NoDetection, DetectionFacts
  <2>4. CASE Det!Open
    <3>1. /\ tree \in Trees /\ listing \subseteq DOMAIN tree /\ \A f \in listing : tree[f] # Missing
          /\ held = [f \in DOMAIN tree |-> IF tree[f] = Missing THEN {} ELSE tree[f]] /\ kept = held
      BY <2>4, Zenon DEF Det!Open, Det!ListFiles, Det!Files
    <3>2. \A f \in listing : f.spelling \in Int
      BY <3>1, SpellingsAreOrdered, Zenon
    <3>3. /\ DOMAIN held = DOMAIN tree /\ DOMAIN kept = DOMAIN tree
          /\ \A f \in listing : held[f] = tree[f] /\ kept[f] = tree[f]
      BY <3>1
    <3> QED
      BY <2>1, <2>2, <3>1, <3>2, <3>3 DEF DetectionFacts
  <2> QED
    BY <2>3, <2>4 DEF ConfigurationInit
<1>2. DetectionFacts => DetectionInv
  BY DEF DetectionFacts
<1> QED
  BY <1>1, <1>2, DetectionStep, PTL DEF ConfigurationSpec
===============================================================================
