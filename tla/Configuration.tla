---------------------------- MODULE Configuration ----------------------------
(***************************************************************************)
(* aiyoke.yaml at work.  A behaviour is one of its uses: concurrent        *)
(* operations replace it on the disk (ConfigLifecycle), one command is     *)
(* given with its arguments and its dialogue (CommandLine), a project is   *)
(* looked at to select what goes into it (Detection), or somebody edits it *)
(* and it is loaded and compiled into the options of the generated         *)
(* runtimes (RuntimePolicy).                                               *)
(***************************************************************************)
EXTENDS ConfigLifecycle, Functions, Sequences

CONSTANTS
  Uses,  \* of "lifecycle", "command", "detection" and "document"
  CommandLines, Questions, FirstDocuments, ForeignDocuments, MaxForeign, Saved,  \* see
  Nothing, Broken,                                                               \* CommandLine
  Drafts, MaxDefects, Missing, Bad, Blank, Unsafe, Unlimited, None, NoPath,      \* see
  TargetLanguages,                                                               \* RuntimePolicy
  Registered, Trees, Contents, MaxChanges  \* see Detection

\* Detection sorts the spellings of a path.
ASSUME SpellingsAreOrdered == \A t \in Trees : \A f \in DOMAIN t : f.spelling \in Int

VARIABLES
  use,  \* one of Uses
  args, phase, exit, file, artifacts, shown, answers, foreign,
  document, defects, report,
  tree, listing, turn, reading, verdicts, held, kept, changes

cliVars == <<args, phase, exit, file, artifacts, shown, answers, foreign>>
documentVars == <<document, defects, report>>
detectionVars == <<tree, listing, turn, reading, verdicts, held, kept, changes>>
configurationVars == <<use, vars, cliVars, documentVars, detectionVars>>

Cli == INSTANCE CommandLine
Doc == INSTANCE RuntimePolicy
Det == INSTANCE Detection

\* A document has a version and everything that `config` edits; arguments are
\* strings, and no question is asked twice.
IsDocument(d) == {"version"} \cup Range(Cli!FieldOf) \subseteq DOMAIN d
ASSUME CommandAssumption ==
  /\ Nothing \notin Cli!Valued
  /\ CommandLines \subseteq Seq(STRING)
  /\ \A d \in {Saved} \cup ((FirstDocuments \cup ForeignDocuments) \ {Nothing, Broken}) : IsDocument(d)
  /\ Questions \in Seq(Range(Cli!FieldOf))
  /\ \A m, n \in DOMAIN Questions : Questions[m] = Questions[n] => m = n

\* The parts that a behaviour is not about stand still.
NoLifecycle ==
  /\ config = Absent /\ backups = [d \in Documents |-> Absent] /\ edits = 0
  /\ pc = [p \in Procs |-> "done"] /\ op = [p \in Procs |-> "none"]
  /\ source = [p \in Procs |-> Absent] /\ output = [p \in Procs |-> Absent]
NoCommand ==
  /\ args = <<>> /\ phase = "ended" /\ exit = Nothing /\ file = Nothing
  /\ artifacts = Nothing /\ shown = Nothing /\ answers = <<>> /\ foreign = 0
NoDocument ==
  document = (CHOOSE d \in Drafts : TRUE) /\ defects = {} /\ report = None
NoDetection ==
  /\ tree = <<>> /\ listing = {} /\ turn = 0 /\ reading = {} /\ verdicts = <<>>
  /\ held = <<>> /\ kept = <<>> /\ changes = 0

ConfigurationInit ==
  /\ use \in Uses
  /\ \/ use = "lifecycle" /\ Init /\ NoCommand /\ NoDocument /\ NoDetection
     \/ use = "command" /\ Cli!Init /\ NoLifecycle /\ NoDocument /\ NoDetection
     \/ use = "document" /\ Doc!Init /\ NoLifecycle /\ NoCommand /\ NoDetection
     \/ use = "detection" /\ Det!Open /\ NoLifecycle /\ NoCommand /\ NoDocument

Operate == use = "lifecycle" /\ Next /\ UNCHANGED <<use, cliVars, documentVars, detectionVars>>
Execute == use = "command" /\ Cli!Next /\ UNCHANGED <<use, vars, documentVars, detectionVars>>
Validate == use = "document" /\ Doc!Next /\ UNCHANGED <<use, vars, cliVars, detectionVars>>
Detect == use = "detection" /\ Det!DetectionNext /\ UNCHANGED <<use, vars, cliVars, documentVars>>

ConfigurationNext == Operate \/ Execute \/ Validate \/ Detect

ConfigurationSpec == ConfigurationInit /\ [][ConfigurationNext]_configurationVars

-----------------------------------------------------------------------------

\* What was asked for is what is done: see CommandLine.
OnlyAskedIsDone == Cli!OnlyAskedIsDone

\* What was confirmed is what is written: see CommandLine.
ConfirmedIsWritten == Cli!ConfirmedIsWritten

\* What is wrong is reported, and what is not can be used: see RuntimePolicy.
DocumentInv == Doc!DocumentInv

\* What is selected for a project rests on what is in it: see Detection.
DetectionInv == Det!DetectionInv

\* docs/compatibility.md: "The resolved policy is also compiled into an importable
\* native policy.* options module".
NativeOptionsCompile == Doc!NativeOptionsCompile
=============================================================================
