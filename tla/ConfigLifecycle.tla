--------------------------- MODULE ConfigLifecycle ---------------------------
(***************************************************************************)
(* The life of aiyoke.yaml: AiyokeEngine.initialize, configure, migrate    *)
(* and rollbackMigration (src/engine/engine.ts) over                       *)
(* SchemaMigrationRegistry (src/application/migration-registry.ts) and the *)
(* two registered migrations (src/infrastructure/config/migrations.ts).    *)
(*                                                                         *)
(* Every operation reads the file, computes its replacement, saves what it *)
(* read under .aiyoke/backups, reads the file once more and renames the    *)
(* replacement over it.  Each of these accesses is a step: several aiyoke  *)
(* processes and other programs may run in between.                        *)
(*                                                                         *)
(* A document is abstracted to what the operations tell apart.  version 0  *)
(* stands for a text that is no schema document at all; `sound` says that  *)
(* the rest of the document passes validation; `canonical` that the text   *)
(* is what the program itself would print for it.                          *)
(***************************************************************************)
EXTENDS Integers, FiniteSets

CONSTANTS
  Procs,         \* the aiyoke processes; each runs one operation
  Names,         \* what `config` edits: project, selections and packs
  Initial,       \* the contents aiyoke.yaml may have at the start
  Foreign,       \* the documents other programs may write
  MaxEdits,      \* how often they do so
  Absent,        \* the "content" of a file that does not exist
  Interference   \* may others write between #assertConfigUnchanged and the rename?

Current == 3     \* CURRENT_SCHEMA_VERSION

Documents ==
  {d \in [version : 0 .. Current, monorepo : BOOLEAN,
          runtime : {"none", "default", "custom"}, sound : BOOLEAN,
          canonical : BOOLEAN, name : Names] :
     /\ d.version < 2 => ~d.monorepo
     /\ d.version = Current <=> d.runtime # "none"
     /\ d.version = 0 => ~d.sound /\ ~d.canonical}
Files == Documents \cup {Absent}

ASSUME LifecycleAssumption ==
  /\ Absent \notin Documents
  /\ Initial \subseteq Files
  /\ Foreign \subseteq Files
  /\ MaxEdits \in Nat
  /\ Interference \in BOOLEAN

VARIABLES
  config,    \* aiyoke.yaml
  backups,   \* backups[d]: the file whose name holds the digest of d
  edits,     \* how often another program has written so far
  pc,        \* pc[p]: what p does next
  op,        \* op[p]: the operation p runs
  source,    \* source[p]: the content p has read
  output     \* output[p]: the content p is going to write

vars == <<config, backups, edits, pc, op, source, output>>

Steps == {"start", "restore", "create", "backup", "save", "assert", "replace", "done"}
Replacing == {"backup", "save", "assert", "replace"}
Operations == {"none", "init", "force", "configure", "migrate", "rollback"}

TypeOK ==
  /\ config \in Files
  /\ backups \in [Documents -> Files]
  /\ edits \in 0 .. MaxEdits
  /\ pc \in [Procs -> Steps]
  /\ op \in [Procs -> Operations]
  /\ source \in [Procs -> Files]
  /\ output \in [Procs -> Files]
  /\ \A p \in Procs :
       /\ pc[p] \notin {"start", "done"} => output[p] \in Documents
       /\ pc[p] \in Replacing => source[p] \in Documents \ {output[p]}
       /\ pc[p] = "restore" => op[p] = "rollback"

Init ==
  /\ config \in Initial
  /\ backups = [d \in Documents |-> Absent]
  /\ edits = 0
  /\ pc = [p \in Procs |-> "start"]
  /\ op = [p \in Procs |-> "none"]
  /\ source = [p \in Procs |-> Absent]
  /\ output = [p \in Procs |-> Absent]

-----------------------------------------------------------------------------
(* Schema migrations.  Absent is the result of one that is refused.        *)

Up(d) ==
  IF d.version = 1 THEN [d EXCEPT !.version = 2]
  ELSE IF d.version = 2 THEN [d EXCEPT !.version = 3, !.runtime = "default"]
  ELSE Absent

\* Seeded fault: a customized runtime is dropped without a word.
Down_Lossy(d) ==
  IF d.version = 3 THEN [d EXCEPT !.version = 2, !.runtime = "none"]
  ELSE IF d.version = 2 /\ ~d.monorepo THEN [d EXCEPT !.version = 1]
  ELSE Absent

\* Only what the older schema can represent is taken down.
Down(d) ==
  IF d.version = 3 /\ d.runtime = "default" THEN [d EXCEPT !.version = 2, !.runtime = "none"]
  ELSE IF d.version = 2 /\ ~d.monorepo THEN [d EXCEPT !.version = 1]
  ELSE Absent

\* Adjacent migrations, one after the other, until the version is `target`.
Migrated(d, target) ==
  LET reach[e \in Files] ==
        IF e = Absent THEN Absent
        ELSE IF e.version = target THEN e
        ELSE reach[IF e.version < target THEN Up(e) ELSE Down(e)]
  IN  reach[d]

\* parseHarnessSpec: only complete, valid documents of the current schema load.
Loads(d) == d # Absent /\ d.version = Current /\ d.sound

\* parseSchemaDocument and #validateMigratedDocument: d loads once it has been
\* migrated to the current schema.
Usable(d) == d.version # 0 /\ Loads(Migrated(d, Current))

\* stringifyHarnessSpec and stringifySchemaDocument.
Printed(d) == [d EXCEPT !.canonical = TRUE]

\* What `init` may write, depending on what it detects and is asked for.
Defaults ==
  {d \in Documents : Loads(d) /\ d.canonical /\ ~d.monorepo /\ d.runtime = "default"}

-----------------------------------------------------------------------------
(* The environment.                                                        *)

\* None of P is between #assertConfigUnchanged and the rename.
Quiet(P) == Interference \/ \A p \in P : pc[p] # "replace"

\* Another program writes or deletes aiyoke.yaml.
Edit ==
  /\ edits < MaxEdits
  /\ Quiet(Procs)
  /\ edits' = edits + 1
  /\ config' \in Foreign \ {config}
  /\ UNCHANGED <<backups, pc, op, source, output>>

\* Another program writes or deletes a backup; nobody does so while an
\* operation relies on it.
Tamper(d) ==
  /\ edits < MaxEdits
  /\ \A p \in Procs : pc[p] \in {"start", "restore", "done"}
  /\ backups[d] # Absent
  /\ edits' = edits + 1
  /\ \E c \in Foreign \ {backups[d]} : backups' = [backups EXCEPT ![d] = c]
  /\ UNCHANGED <<config, pc, op, source, output>>

\* p stops: a preview, an error of the file system, the death of the process.
Stop(p) ==
  /\ pc[p] # "done"
  /\ pc' = [pc EXCEPT ![p] = "done"]
  /\ UNCHANGED <<config, backups, edits, op, source, output>>

-----------------------------------------------------------------------------
(* The operations, up to the point where something has to be written.      *)

\* p goes on with `kind`, to replace the content s by the content o.
Begin(p, kind, s, o, next) ==
  /\ op' = [op EXCEPT ![p] = kind]
  /\ source' = [source EXCEPT ![p] = s]
  /\ output' = [output EXCEPT ![p] = o]
  /\ pc' = [pc EXCEPT ![p] = next]
  /\ UNCHANGED <<config, backups, edits>>

\* initialize(force): the file is created if there is none, or if forced.  It is
\* not looked at again before it is written.
Initialize(p, d) ==
  /\ pc[p] = "start"
  /\ \E kind \in {"init", "force"} :
       /\ config = Absent \/ kind = "force"
       /\ Begin(p, kind, config, d, "create")

\* configure: the edited document is printed, so layout and comments go too.
Configure(p, name) ==
  LET new == Printed([config EXCEPT !.name = name])
  IN  /\ pc[p] = "start"
      /\ Loads(config)
      /\ new # config
      /\ Begin(p, "configure", config, new, "backup")

\* Seeded fault: the migrated document is not validated.
Migrate_Unvalidated(p, target) ==
  /\ pc[p] = "start"
  /\ config # Absent /\ config.version \notin {0, target}
  /\ Migrated(config, target) # Absent
  /\ Begin(p, "migrate", config, Printed(Migrated(config, target)), "backup")

\* migrate: with or without the consent that a downgrade needs.
Migrate(p, target) ==
  /\ pc[p] = "start"
  /\ config # Absent /\ config.version \notin {0, target}
  /\ Migrated(config, target) # Absent
  /\ Usable(Migrated(config, target))
  /\ Begin(p, "migrate", config, Printed(Migrated(config, target)), "backup")

\* rollbackMigration reads and validates the backup first, then the file.
RollBack(p, d) ==
  /\ pc[p] = "start"
  /\ backups[d] # Absent
  /\ Usable(backups[d])
  /\ Begin(p, "rollback", Absent, backups[d], "restore")

\* Seeded fault: nobody looks whether there is a file to save.
RollBackOver_Missing(p) ==
  /\ pc[p] = "restore"
  /\ config # output[p]
  /\ Begin(p, op[p], config, output[p], "backup")

RollBackOver(p) ==
  /\ pc[p] = "restore"
  /\ config # Absent /\ config.version # 0
  /\ config # output[p]
  /\ Begin(p, op[p], config, output[p], "backup")

-----------------------------------------------------------------------------
(* Saving what was read, and replacing it.                                 *)

\* #backup looks for a backup of the same content; another one under its name
\* is an error.
FindBackup(p) ==
  /\ pc[p] = "backup"
  /\ \/ backups[source[p]] = Absent /\ pc' = [pc EXCEPT ![p] = "save"]
     \/ backups[source[p]] = source[p] /\ pc' = [pc EXCEPT ![p] = "assert"]
     \/ backups[source[p]] \notin {Absent, source[p]} /\ pc' = [pc EXCEPT ![p] = "done"]
  /\ UNCHANGED <<config, backups, edits, op, source, output>>

SaveBackup(p) ==
  /\ pc[p] = "save"
  /\ backups' = [backups EXCEPT ![source[p]] = source[p]]
  /\ pc' = [pc EXCEPT ![p] = "assert"]
  /\ UNCHANGED <<config, edits, op, source, output>>

\* Seeded fault: the file is not compared again.
AssertUnchanged_Trusting(p) ==
  /\ pc[p] = "assert"
  /\ Quiet(Procs \ {p})
  /\ pc' = [pc EXCEPT ![p] = "replace"]
  /\ UNCHANGED <<config, backups, edits, op, source, output>>

\* #assertConfigUnchanged.
AssertUnchanged(p) ==
  /\ pc[p] = "assert"
  /\ Quiet(Procs \ {p})
  /\ pc' = [pc EXCEPT ![p] = IF config = source[p] THEN "replace" ELSE "done"]
  /\ UNCHANGED <<config, backups, edits, op, source, output>>

\* writeAtomic: the staged file is renamed over aiyoke.yaml.
Replace(p) ==
  /\ pc[p] \in {"create", "replace"}
  /\ Quiet(Procs \ {p})
  /\ config' = output[p]
  /\ pc' = [pc EXCEPT ![p] = "done"]
  /\ UNCHANGED <<backups, edits, op, source, output>>

Run(p) ==
  \/ \E d \in Defaults : Initialize(p, d)
  \/ \E d \in Documents : RollBack(p, d)
  \/ \E name \in Names : Configure(p, name)
  \/ \E target \in 1 .. Current : Migrate(p, target)
  \/ RollBackOver(p)
  \/ FindBackup(p) \/ SaveBackup(p) \/ AssertUnchanged(p) \/ Replace(p)
  \/ Stop(p)

Next ==
  \/ Edit
  \/ \E d \in Documents : Tamper(d)
  \/ \E p \in Procs : Run(p)

Spec == Init /\ [][Next]_vars

-----------------------------------------------------------------------------
(* Properties.                                                             *)

\* Whatever configure, migrate or rollback replaces can be had back: it is in
\* its backup, and rollback accepts the backup of anything that configure or
\* migrate have replaced.
ReplacedCanBeRestored ==
  [][\A p \in Procs :
       pc[p] = "replace" /\ pc'[p] = "done" /\ config' # config =>
         /\ config # Absent
         /\ backups[config] = config
         /\ op[p] \in {"configure", "migrate"} => Usable(config)]_vars

\* What an operation writes can be used again: it loads, or `migrate` makes it
\* load.  So could what configure and migrate replace: in a workspace nobody else
\* writes to, aiyoke.yaml is never worse.
WritesStayUsable ==
  \A p \in Procs :
    /\ pc[p] \notin {"start", "done"} => Usable(output[p])
    /\ pc[p] \in Replacing /\ op[p] \in {"configure", "migrate"} => Usable(source[p])

\* Going to another schema version and from there to the current one gives the
\* same document as going to the current one directly: nothing is lost, in
\* either direction, and what would be lost is refused.
MigrationKeepsMeaning ==
  \A p \in Procs : pc[p] \in Replacing /\ op[p] = "migrate" =>
    Printed(Migrated(output[p], Current)) = Printed(Migrated(source[p], Current))

\* Once an operation compares aiyoke.yaml with what it has read, that is saved.
SavedBeforeReplaced ==
  \A p \in Procs : pc[p] \in {"assert", "replace"} => backups[source[p]] = source[p]

\* With the window closed, one operation at a time is between its comparison of
\* aiyoke.yaml and the rename, and the file is what it has seen.
WindowIsClosed ==
  ~Interference =>
    \A p \in Procs : pc[p] = "replace" =>
      config = source[p] /\ \A q \in Procs \ {p} : pc[q] # "replace"

\* A configuration that another process wrote meanwhile is never replaced:
\* troubleshooting.md, "The safety check intentionally prevents replacement".
ChangedMeanwhileIsKept ==
  [][\A p \in Procs :
       pc[p] = "replace" /\ pc'[p] = "done" /\ config' # config => config = source[p]]_vars

\* The invariant of the documents: what is about to be written can be used and
\* has lost nothing, and what it replaces is saved.
LifecycleInv ==
  TypeOK /\ WritesStayUsable /\ MigrationKeepsMeaning /\ SavedBeforeReplaced /\ WindowIsClosed
=============================================================================
