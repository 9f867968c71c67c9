------------------------------ MODULE Compiler ------------------------------
(***************************************************************************)
(* HarnessCompiler (src/application/compiler.ts): planning the artifacts   *)
(* of a specification over the files of a workspace, merging the managed   *)
(* sections, applying the plan, checking the workspace and planning again, *)
(* while the developer edits files and the specification.                  *)
(*                                                                         *)
(* The text of a file is a sequence of tokens: line breaks, markers, the   *)
(* legacy marker, and words.  Extensions are abstracted to the modules and *)
(* the artifacts ("intents") they return for a specification.  Planning    *)
(* reads one file after the other; writing is the atomic batch of          *)
(* PlanTransaction.                                                        *)
(***************************************************************************)
EXTENDS Integers, FiniteSets, Sequences, TLC

CONSTANTS
  Paths,       \* the artifact paths, numbered in their order
  LockFile,    \* the one of them that is generation.lockFile
  Reserved,    \* those no extension may write (artifact-policy.ts)
  Specs,       \* the specifications: [languages, targets, modules, eol, digest,
               \* intents]
  Workspaces,  \* the contents the files may have at the start
  Edits,       \* the contents the developer may give to a file
  MaxEdits,    \* how often the developer edits a file or the specification
  Tokens,      \* what texts are made of: line breaks, markers and words
  Absent,      \* the "content" of a file that does not exist
  Blank        \* a string without a visible character

Newlines == {"lf", "crlf"}
Legacy == "aiyoke:generated"
Texts == Seq(Tokens)

\* An intent: [path, ownership, markers, content]; markers are <<start, end>>.
IsIntent(i) ==
  /\ i \in [path : Paths, ownership : {"generated", "managed-section", "user-owned"},
            markers : Seq(Tokens), content : Texts]
  /\ i.ownership = "managed-section" => Len(i.markers) = 2

\* A HarnessModule: the skills, subagents, hooks and servers it defines, each a
\* <<kind, name>>.
IsModule(m) ==
  \A i \in DOMAIN m.defines : m.defines[i][1] \in {"skill", "subagent", "hook", "mcp-server"}

-----------------------------------------------------------------------------
(* The built-in targets: the kind of target that each adapter supports,    *)
(* and what its verification finds wrong with a target of a configuration. *)
(* What they render is left to the specifications.                         *)

\* The surface of each extension.
Surface ==
  "codex" :> "coding-agent" @@ "claude-code" :> "coding-agent" @@ "grok-build" :> "coding-agent" @@
  "chatgpt" :> "chat-plugin" @@ "xai-api" :> "api-provider" @@ "openrouter" :> "inference-gateway"

Error(code) == [severity |-> "error", code |-> code]

\* verifyTarget.
VerifyTarget(target, adapter, kind) ==
  IF target.adapter # adapter THEN {Error("TARGET_ADAPTER_MISMATCH")}
  ELSE IF target.kind # kind THEN {Error("TARGET_KIND_MISMATCH")}
  ELSE {}

\* verify of openrouter: its protocol, and the routes that its routing needs.
VerifyOpenRouter(target) ==
  LET routing == target.routing
      Found(code, wrong) == IF wrong THEN {Error(code)} ELSE {}
      mismatch == VerifyTarget(target, "openrouter", "inference-gateway")
  IN  IF mismatch # {} THEN mismatch
      ELSE Found("INVALID_OPENROUTER_PROTOCOL",
                 target.protocol \notin {"default", "responses", "chat-completions"})
           \cup CASE routing.kind = "fallback" ->
                       Found("EMPTY_FALLBACK_ROUTE", routing.models = <<>>)
                       \cup Found("EMPTY_FALLBACK_MODEL",
                                  \E i \in DOMAIN routing.models : routing.models[i] = Blank)
                  [] routing.kind = "fixed" -> Found("EMPTY_FIXED_ROUTE", routing.model = Blank)
                  [] routing.kind = "capability" ->
                       Found("EMPTY_PROVIDER_ORDER", routing.providerOrder = <<>>)

Verify(target) ==
  IF target.adapter = "openrouter" THEN VerifyOpenRouter(target)
  ELSE VerifyTarget(target, target.adapter, Surface[target.adapter])

-----------------------------------------------------------------------------

ASSUME WorkspaceAssumption ==
  /\ LockFile \in Paths /\ Paths \subseteq Int
  /\ Newlines \cup {Legacy} \subseteq Tokens
  /\ Absent \notin Texts
  /\ Workspaces \subseteq [Paths -> Texts \cup {Absent}]
  /\ Edits \subseteq Texts \cup {Absent}
  /\ MaxEdits \in Nat

ASSUME SpecsAssumption ==
  /\ \A s \in Specs : \A m \in s.modules : IsModule(m)
  /\ \A s \in Specs : \A t \in s.targets : t.adapter \in DOMAIN Surface
  /\ \A s \in Specs :
       /\ s.eol \in Newlines /\ s.digest \in Tokens
       /\ IsFiniteSet(s.intents) /\ \A i \in s.intents : IsIntent(i)
  /\ \A s, t \in Specs : s.digest = t.digest => s = t

VARIABLES
  files,    \* files[p]: the content of p
  spec,     \* aiyoke.yaml, as it loads
  edits,    \* how many edits have been made
  phase,    \* what the process is doing
  planned,  \* the specification the plan is made for
  ops,      \* ops[p]: the operation planned for p
  todo,     \* the paths that planning has not reached
  findings, \* what `check` or `doctor` reports: [severity, code]
  quiet     \* nobody has written to the workspace since planning began

plan == <<planned, ops, todo>>
vars == <<files, spec, edits, phase, plan, findings, quiet>>

-----------------------------------------------------------------------------
(* Text.                                                                   *)

Positions(c, t) == {i \in 1 .. Len(c) : c[i] = t}

\* The number of tokens up to the last one that is not a line break.
TextLength(c) ==
  CHOOSE n \in 0 .. Len(c) :
    /\ n > 0 => c[n] \notin Newlines
    /\ \A i \in n + 1 .. Len(c) : c[i] \in Newlines

\* normalizeContent: one kind of line break, and exactly one at the end.
Normalized(c, eol) ==
  [i \in 1 .. TextLength(c) + 1 |->
     IF i > TextLength(c) \/ c[i] \in Newlines THEN eol ELSE c[i]]

\* managedSection.
Section(i, eol) == <<i.markers[1], eol>> \o i.content \o <<i.markers[2], eol>>

Marked(c, m) == Positions(c, m[1]) \cup Positions(c, m[2]) # {}

\* Exactly one start marker, and after it exactly one end marker.
Delimited(c, m) ==
  \E s, e \in 1 .. Len(c) :
    s < e /\ Positions(c, m[1]) = {s} /\ Positions(c, m[2]) = {e}

Start(c, m) == CHOOSE i \in Positions(c, m[1]) : TRUE
End(c, m) == CHOOSE i \in Positions(c, m[2]) : TRUE
Before(c, m) == SubSeq(c, 1, Start(c, m) - 1)
After(c, m) == SubSeq(c, End(c, m) + 1, Len(c))

\* Seeded fault: the line break after the end marker is kept.
Suffix_KeepsBreak(c, m) == After(c, m)

\* Seeded fault: a section is taken to reach to the end of the file.
Suffix_Dropped(c, m) == <<>>

\* What follows the section: it brings its own line break.
Suffix(c, m) ==
  LET rest == After(c, m)
  IN  IF rest # <<>> /\ Head(rest) \in Newlines THEN Tail(rest) ELSE rest

\* What stands between the developer's text and a section appended to it.
Separator(c, eol) ==
  LET n == Len(c)
  IN  IF \/ n = 0
         \/ n > 1 /\ c[n] = "lf" /\ c[n - 1] \in Newlines
         \/ n > 1 /\ c[n] = "crlf" /\ c[n - 1] = "crlf"
      THEN <<>>
      ELSE IF c[n] \in Newlines THEN <<eol>> ELSE <<eol, eol>>

Conflict == [kind |-> "conflict"]

\* mergeManagedSection refuses: the markers, the content or the text are unclear.
Unmergeable(c, i, eol) ==
  \/ i.markers[1] = i.markers[2] \/ {i.markers[1], i.markers[2]} \cap Newlines # {}
  \/ Marked(i.content, i.markers)
  \/ Marked(c, i.markers) /\ ~Delimited(c, i.markers)
  \/ /\ ~Marked(c, i.markers)
     /\ Normalized(c, eol) # i.content
     /\ Positions(c, Legacy) # {}

\* mergeManagedSection: the section replaces the one that is there, or a file
\* that is the same text without markers, or it is appended.
Merged(c, i, eol) ==
  IF Marked(c, i.markers) THEN Before(c, i.markers) \o Section(i, eol) \o Suffix(c, i.markers)
  ELSE IF Normalized(c, eol) = i.content THEN Section(i, eol)
  ELSE c \o Separator(c, eol) \o Section(i, eol)

-----------------------------------------------------------------------------
(* Planning.                                                               *)

\* moduleDefinitionConflicts: what modules define more than once.
ModuleConflicts(s) ==
  LET definitions == {<<m, i>> : m \in s.modules, i \in 1 .. 2}
      Definers(d) == {x \in definitions : x[2] \in DOMAIN x[1].defines /\ x[1].defines[x[2]] = d}
  IN  {d \in UNION {{m.defines[i] : i \in DOMAIN m.defines} : m \in s.modules} :
         Cardinality(Definers(d)) > 1}

\* plan() throws: the modules define something twice, an adapter is not for the
\* kind of its target, or a renderer asks for a reserved path.
Refused(s) ==
  \/ ModuleConflicts(s) # {}
  \/ \E t \in s.targets : Surface[t.adapter] # t.kind
  \/ \E i \in s.intents : i.path \in Reserved \cup {LockFile}

\* The lock file names the specification and everything generated from it.
Candidates(s) ==
  s.intents \cup {[path |-> LockFile, ownership |-> "generated",
                   markers |-> <<>>, content |-> <<s.digest>>]}

PathsOf(s) == {i.path : i \in Candidates(s)}

\* What the renderers want in p, once their line breaks are normalized.
Wanted(s, p) ==
  {[i EXCEPT !.content = Normalized(@, s.eol)] :
     i \in {j \in Candidates(s) : j.path = p}}

\* Seeded fault: one of the artifacts that claim a path wins.
Incompatible_Never(s, p) == FALSE

Incompatible(s, p) == Cardinality(Wanted(s, p)) > 1

\* #operations, for the path p and the content c read from it.
Operation(s, p, c) ==
  LET i == CHOOSE j \in Wanted(s, p) : TRUE
      managed == i.ownership = "managed-section"
      text == IF c = Absent THEN <<>> ELSE c
      new == IF managed THEN Merged(text, i, s.eol) ELSE i.content
      same == c # Absent /\ IF managed THEN c = new ELSE Normalized(c, s.eol) = new
  IN  IF \/ Incompatible(s, p)
         \/ managed /\ Unmergeable(text, i, s.eol)
         \/ i.ownership = "user-owned" /\ c # Absent /\ ~same
      THEN Conflict
      ELSE [kind |-> IF c = Absent THEN "create" ELSE IF same THEN "unchanged" ELSE "update",
            previous |-> c, content |-> new]

Unplanned == [kind |-> "none"]

Init ==
  /\ files \in Workspaces
  /\ spec \in Specs
  /\ edits = 0
  /\ phase = "idle"
  /\ planned = spec
  /\ ops = [p \in Paths |-> Unplanned]
  /\ todo = {}
  /\ findings = {}
  /\ quiet = TRUE

\* Nothing is under way.
Resting == {"idle", "applied", "checked"}

\* Seeded fault: the operations of the plan before are not forgotten.
StartPlan_Accumulates ==
  /\ phase \in Resting
  /\ planned' = spec
  /\ quiet' = TRUE
  /\ findings' = {}
  /\ IF Refused(spec)
     THEN phase' = "idle" /\ todo' = {}
     ELSE phase' = "planning" /\ todo' = PathsOf(spec)
  /\ UNCHANGED <<files, spec, edits, ops>>

\* plan() starts: the specification is loaded and rendered.
StartPlan ==
  /\ phase \in Resting
  /\ planned' = spec
  /\ ops' = [p \in Paths |-> Unplanned]
  /\ findings' = {}
  /\ quiet' = TRUE
  /\ IF Refused(spec)
     THEN phase' = "idle" /\ todo' = {}
     ELSE phase' = "planning" /\ todo' = PathsOf(spec)
  /\ UNCHANGED <<files, spec, edits>>

\* The next path, in their order, is read and its operation decided.
PlanPath(p) ==
  /\ phase = "planning"
  /\ p \in todo /\ \A q \in todo : p <= q
  /\ ops' = [ops EXCEPT ![p] = Operation(planned, p, files[p])]
  /\ todo' = todo \ {p}
  /\ phase' = IF todo = {p} THEN "planned" ELSE "planning"
  /\ UNCHANGED <<files, spec, edits, planned, findings, quiet>>

Written == {p \in Paths : ops[p].kind \in {"create", "update"}}

\* Seeded fault: the files are not read again before they are written.
Apply_Stale ==
  /\ phase = "planned"
  /\ \A p \in Paths : ops[p].kind # "conflict"
  /\ files' = [p \in Paths |-> IF p \in Written THEN ops[p].content ELSE files[p]]
  /\ phase' = "applied"
  /\ UNCHANGED <<spec, edits, plan, findings, quiet>>

\* apply() goes through: no conflict, and no file to be written has changed.
Apply ==
  /\ phase = "planned"
  /\ \A p \in Paths : ops[p].kind # "conflict"
  /\ \A p \in Written : files[p] = ops[p].previous
  /\ files' = [p \in Paths |-> IF p \in Written THEN ops[p].content ELSE files[p]]
  /\ phase' = "applied"
  /\ UNCHANGED <<spec, edits, plan, findings, quiet>>

\* The plan is only shown, or refused by apply().
Drop ==
  /\ phase = "planned"
  /\ phase' = "idle"
  /\ UNCHANGED <<files, spec, edits, plan, findings, quiet>>

\* Seeded fault: only what is not there is called a drift.
Drift_OnlyMissing == {"create"}

\* The operations by which a workspace differs from its specification.
Drift == {"create", "update"}

\* verify(): what is planned would change something, or the targets object.
Differences ==
  {Error("GENERATED_DRIFT") : p \in {q \in Paths : ops[q].kind \in Drift}}
  \cup {Error("ARTIFACT_CONFLICT") : p \in {q \in Paths : ops[q].kind = "conflict"}}
  \cup UNION {Verify(t) : t \in planned.targets}

Failed(found) == \E f \in found : f.severity = "error"

\* doctor(): what verify() has found, and what the specification lacks.
Diagnosis(s, found) ==
  LET missing == (IF s.languages = {} THEN {[severity |-> "warning", code |-> "NO_LANGUAGES"]} ELSE {})
                 \cup (IF s.targets = {} THEN {Error("NO_TARGETS")} ELSE {})
      all == found \cup missing
  IN  IF Failed(all) THEN all ELSE all \cup {[severity |-> "info", code |-> "READY"]}

Report(s, found) ==
  /\ phase' = "checked"
  /\ findings' \in {found, Diagnosis(s, found)}

\* `check` and `doctor` go on from a plan...
Check ==
  /\ phase = "planned"
  /\ Report(planned, Differences)
  /\ UNCHANGED <<files, spec, edits, plan, quiet>>

\* ... or report what would have kept plan() from making one.
CheckModules ==
  /\ phase \in Resting
  /\ ModuleConflicts(spec) # {}
  /\ planned' = spec
  /\ ops' = [p \in Paths |-> Unplanned]
  /\ quiet' = TRUE
  /\ Report(spec, {Error("MODULE_DEFINITION_CONFLICT")})
  /\ UNCHANGED <<files, spec, edits, todo>>

\* The developer edits a file, deletes it, or edits the specification.
EditFile(p) ==
  /\ edits < MaxEdits
  /\ \E c \in Edits \ {files[p]} : files' = [files EXCEPT ![p] = c]
  /\ edits' = edits + 1
  /\ quiet' = FALSE
  /\ UNCHANGED <<spec, phase, plan, findings>>

EditSpec ==
  /\ edits < MaxEdits
  /\ spec' \in Specs \ {spec}
  /\ edits' = edits + 1
  /\ UNCHANGED <<files, phase, plan, findings, quiet>>

Next ==
  \/ StartPlan
  \/ \E p \in Paths : PlanPath(p) \/ EditFile(p)
  \/ Apply
  \/ Drop
  \/ Check
  \/ CheckModules
  \/ EditSpec

Spec == Init /\ [][Next]_vars

-----------------------------------------------------------------------------
(* Properties.                                                             *)

\* What may be planned for a path.
Operations ==
  {Unplanned, Conflict}
  \cup [kind : {"create", "update", "unchanged"}, previous : Texts \cup {Absent}, content : Texts]

\* The type invariant.  Planning covers the paths of its specification in order.
TypeOK ==
  /\ files \in [Paths -> Texts \cup {Absent}]
  /\ spec \in Specs /\ planned \in Specs
  /\ ops \in [Paths -> Operations]
  /\ edits \in 0 .. MaxEdits
  /\ phase \in {"planning", "planned"} \cup Resting
  /\ findings # {} => phase = "checked"
  /\ quiet \in BOOLEAN
  /\ todo \subseteq PathsOf(planned)
  /\ phase = "planning" <=> todo # {}
  /\ \A p \in Paths :
       /\ ops[p] # Unplanned =>
            p \in PathsOf(planned) /\ \A q \in todo : p < q
       /\ ops[p].kind = "create" => ops[p].previous = Absent

\* A plan is complete down to where planning has come, it is the one that the
\* specification asks for over what was read, and nobody is planning what would
\* be refused.
PlanFollowsFiles ==
  phase \in {"planning", "planned"} =>
    /\ ~Refused(planned)
    /\ \A p \in PathsOf(planned) \ todo :
         /\ ops[p] # Unplanned
         /\ ops[p] # Conflict => ops[p] = Operation(planned, p, ops[p].previous)
         /\ quiet => ops[p] = Operation(planned, p, files[p])

\* The intents of the plan for p.
IntentsFor(p) == {i \in Candidates(planned) : i.path = p}

\* c is what the intent i asks for: the whole file, or its managed section.
Holds(c, i, eol) ==
  LET want == Normalized(i.content, eol)
  IN  IF i.ownership = "managed-section"
      THEN /\ Delimited(c, i.markers)
           /\ SubSeq(c, Start(c, i.markers), End(c, i.markers)) =
                <<i.markers[1], eol>> \o want \o <<i.markers[2]>>
      ELSE Normalized(c, eol) = want

\* After an undisturbed apply every renderer finds its artifact in the files:
\* none was overridden by another one or left half merged.
AppliedMeansGenerated ==
  phase = "applied" /\ quiet =>
    \A i \in Candidates(planned) :
      files[i.path] # Absent /\ Holds(files[i.path], i, planned.eol)

\* The same holds of a workspace in which an undisturbed check finds no error:
\* docs/cli.md, "`check` verifies generated lock/artifact digests"; and where
\* planning would fail, so does the check.
CheckedMeansGenerated ==
  phase = "checked" /\ quiet /\ ~Failed(findings) =>
    /\ ~Refused(planned)
    /\ \A i \in Candidates(planned) :
         files[i.path] # Absent /\ Holds(files[i.path], i, planned.eol)

\* ... and a second apply has nothing to write, whatever the files contained:
\* cli.md, "Repeating an unchanged apply performs no writes".
ApplyIsIdempotent ==
  phase = "applied" /\ quiet =>
    \A p \in PathsOf(planned) :
      Operation(planned, p, files[p]).kind = "unchanged"

\* What the developer wrote after the line of the end marker.
Below(c, m) ==
  LET rest == After(c, m)
      first == IF Len(rest) > 0 /\ rest[1] \in Newlines THEN 2 ELSE 1
  IN  SubSeq(rest, first, Len(rest))

\* Applying a plan takes nothing of what the developer wrote outside the
\* generated files: the text above and below a managed section stays, token by
\* token; a section is appended to all that was there, unless that was the
\* section's own text; and a file the plan calls user-owned stays as it is.
DeveloperTextStays ==
  [][Apply => \A p \in Paths : \A i \in IntentsFor(p) : files[p] # Absent =>
       /\ i.ownership = "user-owned" => files'[p] = files[p]
       /\ i.ownership = "managed-section" /\ files'[p] # files[p] =>
            IF Marked(files[p], i.markers)
            THEN /\ Delimited(files[p], i.markers) /\ Delimited(files'[p], i.markers)
                 /\ Before(files'[p], i.markers) = Before(files[p], i.markers)
                 /\ Below(files'[p], i.markers) = Below(files[p], i.markers)
            ELSE \/ Normalized(files[p], planned.eol) = Normalized(i.content, planned.eol)
                 \/ SubSeq(files'[p], 1, Len(files[p])) = files[p]]_vars

\* The invariant of the compiler: a plan, applied, leaves what its specification
\* generates, and a check that finds nothing has found just that.
CompilerInv == TypeOK /\ PlanFollowsFiles /\ AppliedMeansGenerated /\ CheckedMeansGenerated
=============================================================================
