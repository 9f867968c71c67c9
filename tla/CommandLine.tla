----------------------------- MODULE CommandLine -----------------------------
(***************************************************************************)
(* The aiyoke command: parseArguments and runCli of                        *)
(* src/interfaces/cli/main.ts, the dialogue of `config --interactive`      *)
(* (src/interfaces/cli/interactive-config.ts) and the operations of        *)
(* AiyokeEngine (src/engine/engine.ts) that a command leads to.            *)
(*                                                                         *)
(* Each engine operation is one step here; what may happen in the middle   *)
(* of one is the subject of ConfigLifecycle and PlanTransaction.  What     *)
(* happens between the questions of a dialogue is shown here.              *)
(*                                                                         *)
(* aiyoke.yaml is a record: its version, the fields that `config` edits    *)
(* and `rest`, which stands for everything else.  Broken is a text that    *)
(* does not parse.  A list is one value: "unregistered" when it names an   *)
(* extension nobody registered, "malformed" when it is no identifier.      *)
(***************************************************************************)
EXTENDS Integers, Sequences, Functions

LOCAL INSTANCE TLC

CONSTANTS
  CommandLines,    \* the arguments with which the program may be started
  Questions,       \* the fields in the order in which they are asked for
  FirstDocuments,  \* what aiyoke.yaml may hold
  ForeignDocuments,\* what another program may write into it
  MaxForeign,      \* how often it does
  Saved,           \* the document in the backup "saved"
  Nothing,         \* no file, no value, no exit status
  Broken           \* a text that does not parse

VARIABLES
  args,       \* the arguments
  phase,      \* "start", "asking", "confirming", "writing" or "ended"
  exit,       \* the exit status
  file,       \* aiyoke.yaml
  artifacts,  \* the document the artifacts were generated for, or Broken
  shown,      \* the document the dialogue shows
  answers,    \* the answers so far
  foreign     \* how often another program has written

cliVars == <<args, phase, exit, file, artifacts, shown, answers, foreign>>

Schema == 3
Fields == Range(Questions)
Commands ==
  {"help", "init", "plan", "apply", "check", "doctor", "detect", "list", "config", "migrate", "rollback"}
Switches == {"--help", "-h", "--json", "--force", "--dry-run", "--allow-downgrade", "--interactive"}
EditFlags == {"--name", "--architecture", "--languages", "--frameworks", "--targets", "--packs"}
Valued == EditFlags \cup {"--preset", "--root", "--to", "--backup"}
IsOption(t) == t \in Switches \cup Valued \cup {"--unknown"}
Named(t) == IF t = "-h" THEN "--help" ELSE t

\* The field that an option edits.
FieldOf ==
  [o \in EditFlags |->
     CASE o = "--name" -> "name" [] o = "--architecture" -> "architecture" [] o = "--languages" -> "languages"
       [] o = "--frameworks" -> "frameworks" [] o = "--targets" -> "targets" [] o = "--packs" -> "packs"]

Init ==
  /\ args \in CommandLines
  /\ phase = "start"
  /\ exit = Nothing
  /\ file \in FirstDocuments
  /\ artifacts \in {Nothing, Broken}
  /\ shown = Nothing
  /\ answers = <<>>
  /\ foreign = 0

-----------------------------------------------------------------------------
(* parseArguments.                                                         *)

\* positiveInteger and architecture; other values are looked at later.
Converts(option, t) ==
  /\ option = "--to" => t \in {"1", "2", "3"}
  /\ option = "--architecture" => t \notin {"unregistered", "malformed"}

\* One more argument: a value that is due, an option, or the command.
Token(s, t) ==
  IF s.wrong THEN s
  ELSE IF s.due # Nothing
  THEN IF IsOption(t) \/ ~Converts(s.due, t)
       THEN [s EXCEPT !.wrong = TRUE]
       ELSE [s EXCEPT !.values = [o \in DOMAIN @ \cup {s.due} |-> IF o = s.due THEN t ELSE @[o]],
                      !.due = Nothing]
  ELSE IF t \in {"--help", "-h"} THEN [s EXCEPT !.command = "help"]
  ELSE IF t \in Switches THEN [s EXCEPT !.switches = @ \cup {t}]
  ELSE IF t \in Valued THEN [s EXCEPT !.due = t]
  ELSE IF ~IsOption(t) /\ s.command = "help" THEN [s EXCEPT !.command = t]
  ELSE [s EXCEPT !.wrong = TRUE]

\* Nothing has been read.
Unread ==
  [command |-> "help", switches |-> {}, values |-> [o \in {} |-> Nothing], due |-> Nothing, wrong |-> FALSE]

\* What has been read after each of the arguments.
Readings(line) ==
  LET reading[n \in 0 .. Len(line)] == IF n = 0 THEN Unread ELSE Token(reading[n - 1], line[n])
  IN  reading

\* The options that each command takes.
Common == {"--root", "--json", "--help"}
OptionsOf(command) ==
  Common \cup
  CASE command = "init" -> {"--force", "--preset", "--languages", "--frameworks", "--targets"}
    [] command = "config" -> EditFlags \cup {"--dry-run", "--interactive"}
    [] command = "migrate" -> {"--dry-run", "--allow-downgrade", "--to"}
    [] command = "rollback" -> {"--dry-run", "--backup"}
    [] OTHER -> {}

\* Seeded fault: an option that the command does not know is passed over.
Parsed_Lenient(line) ==
  LET read == Readings(line)[Len(line)]
  IN  [read EXCEPT !.wrong = @ \/ read.due # Nothing \/ "--unknown" \in Range(line)]

\* No option twice, and none that the command does not take.
Parsed(line) ==
  LET read == Readings(line)[Len(line)]
      options == {i \in DOMAIN line : IsOption(line[i])}
  IN  [read EXCEPT !.wrong =
         \/ @
         \/ read.due # Nothing
         \/ \E i, j \in options : i # j /\ Named(line[i]) = Named(line[j])
         \/ \E i \in options : Named(line[i]) \notin OptionsOf(read.command)]

Options == Parsed(args)
DryRun == "--dry-run" \in Options.switches

-----------------------------------------------------------------------------
(* What the engine does.                                                   *)

Loads(d) == d \notin {Nothing, Broken} /\ d.version = Schema

\* The program ends with this status and leaves these files.
EndWith(status, newDocument, newArtifacts) ==
  /\ phase' = "ended"
  /\ exit' = status
  /\ file' = newDocument
  /\ artifacts' = newArtifacts
  /\ UNCHANGED <<args, shown, answers, foreign>>
End(status) == EndWith(status, file, artifacts)

\* #selectTargets, extensionId and #validateSelections; a name may be anything.
Selectable(changes) ==
  \A f \in DOMAIN changes \ {"name"} : changes[f] \notin {"unregistered", "malformed"}

\* d with these fields; the others, and what `config` does not ask for, stay.
Edited(d, changes) ==
  [k \in DOMAIN d |-> IF k \in DOMAIN changes THEN changes[k] ELSE d[k]]

\* configure.
Configure(changes, dryRun) ==
  IF Loads(file) /\ Selectable(changes)
  THEN EndWith(0, IF dryRun THEN file ELSE Edited(file, changes), artifacts)
  ELSE End(1)

\* The fields that are given by options; those of a list of Questions.
Given == {o \in DOMAIN Options.values : o \in EditFlags}
Selected == [f \in {FieldOf[o] : o \in Given} |-> Options.values[CHOOSE o \in Given : FieldOf[o] = f]]

\* Seeded fault: init with a selection replaces what is there.
Initialize_Selecting(default) ==
  IF file # Nothing /\ "--force" \notin Options.switches /\ Given = {}
  THEN End(IF Loads(file) THEN 0 ELSE 1)
  ELSE IF Selectable(Selected) THEN EndWith(0, Edited(default, Selected), artifacts) ELSE End(1)

\* The presets of the registry, each with the targets it selects.
Presets == [p \in {"simple"} |-> "second"]

\* Seeded fault: a preset comes before the options.
Chosen_PresetFirst(preset) ==
  [f \in DOMAIN Selected \cup {"targets" : p \in preset} |->
     IF f = "targets" /\ preset # {} THEN Presets[CHOOSE p \in preset : TRUE] ELSE Selected[f]]

\* The options, and what they leave to the preset.
Chosen(preset) ==
  [f \in DOMAIN Selected \cup {"targets" : p \in preset} |->
     IF f \in DOMAIN Selected THEN Selected[f] ELSE Presets[CHOOSE p \in preset : TRUE]]

\* initialize: from what is detected, a preset and the options, which have to be
\* identifiers even if nothing is written.
Initialize(default) ==
  LET preset == {Options.values[o] : o \in {"--preset"} \cap DOMAIN Options.values}
  IN  IF "malformed" \in Range(Selected) \cup preset
      THEN End(1)
      ELSE IF file # Nothing /\ "--force" \notin Options.switches
      THEN End(IF Loads(file) THEN 0 ELSE 1)
      ELSE IF preset \subseteq DOMAIN Presets /\ Selectable(Chosen(preset))
      THEN EndWith(0, Edited(default, Chosen(preset)), artifacts)
      ELSE End(1)

\* migrate; a downgrade has to be consented to, and may lose too much.
Migrate ==
  LET to == IF "--to" \in DOMAIN Options.values THEN Options.values["--to"] ELSE "3"
      target == CHOOSE v \in 1 .. Schema : ToString(v) = to
  IN  IF \/ file \in {Nothing, Broken}
         \/ target < file.version /\ "--allow-downgrade" \notin Options.switches
      THEN End(1)
      ELSE \/ EndWith(0, IF DryRun THEN file ELSE [file EXCEPT !.version = target], artifacts)
           \/ target < file.version /\ End(1)

\* rollbackMigration.
RollBack ==
  IF \/ "--backup" \notin DOMAIN Options.values
     \/ Options.values["--backup"] # "saved"
     \/ file \in {Nothing, Broken}
  THEN End(1)
  ELSE EndWith(0, IF DryRun THEN file ELSE Saved, artifacts)

\* plan exits with 1 over a conflict, check and doctor over an error, apply over
\* a conflict; only apply generates.
Conflict == artifacts = Broken
Inspect(command) ==
  IF ~Loads(file) THEN End(1)
  ELSE End(IF \/ command = "plan" /\ Conflict
              \/ command \in {"check", "doctor"} /\ artifacts # file
           THEN 1 ELSE 0)
Apply ==
  IF Loads(file) /\ ~Conflict THEN EndWith(0, file, file) ELSE End(1)

-----------------------------------------------------------------------------
(* runCli.                                                                 *)

\* The arguments, and the commands that end without another question.
Refuse == phase = "start" /\ Options.wrong /\ End(1)
Command(c) == phase = "start" /\ ~Options.wrong /\ Options.command = c

Run(default) ==
  \/ Command("help") /\ End(0)
  \/ Command("init") /\ Initialize(default)
  \/ \E c \in {"plan", "check", "doctor"} : Command(c) /\ Inspect(c)
  \/ Command("apply") /\ Apply
  \/ \E c \in {"detect", "list"} : Command(c) /\ End(0)
  \/ Command("migrate") /\ Migrate
  \/ Command("rollback") /\ RollBack
  \/ /\ phase = "start" /\ ~Options.wrong
     /\ Options.command \notin Commands
     /\ End(1)

\* `config` with flags; without any it only prints.
RunConfig ==
  /\ Command("config")
  /\ "--interactive" \notin Options.switches
  /\ Configure(Selected, DryRun \/ Given = {})

\* `config --interactive` without flags, and at a terminal, loads the document.
BeginDialogue ==
  /\ Command("config")
  /\ "--interactive" \in Options.switches
  /\ \/ End(1)
     \/ /\ Given = {}
        /\ Loads(file)
        /\ phase' = "asking"
        /\ shown' = file
        /\ UNCHANGED <<args, exit, file, artifacts, answers, foreign>>

\* The exit status after an answer that ends the dialogue.  At the end of the
\* input the next question is refused, or the process ends while it waits.
Status(a) ==
  CASE a = "end of file" -> {1, 13}
    [] a \in {"cancel", ""} -> {0}
    [] OTHER -> {1}

\* A question is answered, or the input ends ("end of file").
Answer(a) ==
  /\ phase = "asking"
  /\ LET field == Questions[Len(answers) + 1] IN
       IF a \in {"cancel", "end of file"} \/ (field = "architecture" /\ a \in {"unregistered", "malformed"})
       THEN \E status \in Status(a) : End(status)
       ELSE /\ answers' = Append(answers, a)
            /\ phase' = IF Len(answers') = Len(Questions) THEN "confirming" ELSE "asking"
            /\ UNCHANGED <<args, exit, file, artifacts, shown, foreign>>

Confirm(a) ==
  /\ phase = "confirming"
  /\ IF a = "y"
     THEN phase' = "writing" /\ UNCHANGED <<args, exit, file, artifacts, shown, answers, foreign>>
     ELSE \E status \in Status(a) : End(status)

\* Seeded fault: only what was typed is handed on.
Collected_Typed ==
  LET typed == {n \in DOMAIN answers : answers[n] # ""}
  IN  [f \in {Questions[n] : n \in typed} |-> answers[CHOOSE n \in typed : Questions[n] = f]]

\* The answers; an empty one stands for what was shown.
Collected ==
  [f \in Fields |-> LET n == CHOOSE n \in DOMAIN Questions : Questions[n] = f
                    IN  IF answers[n] = "" THEN shown[f] ELSE answers[n]]

\* configure reads the document again.
EndDialogue == phase = "writing" /\ Configure(Collected, DryRun)

\* Another program writes aiyoke.yaml during the dialogue.
ForeignEdit ==
  /\ phase # "ended"
  /\ foreign < MaxForeign
  /\ foreign' = foreign + 1
  /\ file' \in ForeignDocuments \ {file}
  /\ UNCHANGED <<args, phase, exit, artifacts, shown, answers>>

Replies == {"", "second", "unregistered", "malformed", "cancel", "end of file"}
Process ==
  \/ Refuse
  \/ \E default \in {d \in ForeignDocuments : Loads(d)} : Run(default)
  \/ RunConfig \/ BeginDialogue \/ EndDialogue
  \/ \E a \in Replies : Answer(a)
  \/ \E a \in {"y", "", "end of file"} : Confirm(a)

Next == Process \/ ForeignEdit

Spec == Init /\ [][Next]_cliVars

-----------------------------------------------------------------------------
(* Properties.                                                             *)

\* What a reader of the command line sees: the words that are no value of an
\* option, and the options.
Words == {args[i] : i \in {j \in DOMAIN args : ~IsOption(args[j]) /\ (j > 1 => args[j - 1] \notin Valued)}}
Has(option) == option \in Range(args)
\* The command w and no other; after --help the last word is the command.
AskedFor(w) == w \in Words /\ (Words \subseteq {w, "help"} \/ {"--help", "-h"} \cap Range(args) # {})
Writes == file' # file \/ artifacts' # artifacts

\* A step of the program that writes: see OnlyAskedIsDone.
DoneAsAsked ==
  foreign' = foreign /\ Writes =>
    /\ exit' = 0
    /\ ~Has("--dry-run")
    /\ artifacts' # artifacts => AskedFor("apply") /\ file' = file
    /\ file' # file =>
         \/ AskedFor("init") /\ (file = Nothing \/ Has("--force"))
         \/ AskedFor("config") /\ (EditFlags \cap Range(args) # {} \/ phase = "writing")
         \/ AskedFor("migrate") /\ (file'.version < file.version => Has("--allow-downgrade"))
         \/ AskedFor("rollback") /\ Has("--backup")

\* docs/cli.md: only the command that is named does anything, only `apply`
\* generates, `--dry-run` "without writing", `init` "makes no change unless
\* --force", "Downgrades require --allow-downgrade", `config` without flags only
\* prints, "Cancellation, EOF, and invalid answers do not modify the source"; and
\* a command that fails has changed nothing.
OnlyAskedIsDone == [][DoneAsAsked]_cliVars

\* A step of the program that ends well: see ConfirmedIsWritten.
WrittenAsConfirmed ==
  exit' = 0 /\ ~Has("--dry-run") /\ foreign' = foreign =>
    /\ phase = "writing" =>
         /\ \A n \in DOMAIN Questions :
              file'[Questions[n]] = IF answers[n] = "" THEN shown[Questions[n]] ELSE answers[n]
         /\ \A k \in DOMAIN file \ Fields : file'[k] = file[k]
    /\ phase = "start" /\ file' # file =>
         \A i \in DOMAIN args : args[i] \in EditFlags => file'[FieldOf[args[i]]] = args[i + 1]

\* The dialogue writes what its user has seen and confirmed, whatever has become of
\* aiyoke.yaml meanwhile, and keeps everything it did not ask for as it is now; and
\* the values of options are written as they are given, "flags override the preset".
ConfirmedIsWritten == [][WrittenAsConfirmed]_cliVars
=============================================================================
