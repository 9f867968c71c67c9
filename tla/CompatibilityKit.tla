--------------------------- MODULE CompatibilityKit ---------------------------
(***************************************************************************)
(* runExtensionCompatibility (src/extension-sdk/compatibility.ts): the     *)
(* checks of an extension, each of which may throw, and the report that is *)
(* made of them.                                                           *)
(***************************************************************************)
EXTENDS FiniteSets

VARIABLES
  fixture,   \* what is true of the extension
  phase,     \* the block of the code that is next, or "reported"
  checks,    \* the status of each check, "none" if it has none yet
  findings,  \* the checks with a finding
  loaded,    \* extension # undefined
  outputs    \* of the executions that have completed: "first", "second"

kitVars == <<fixture, phase, checks, findings, loaded, outputs>>

Checks ==
  {"descriptor", "dependencies", "loader-identity", "execution", "determinism", "artifact-safety", "secret-safety"}

\* What the loader and the two executions are like.  What may be wrong with an
\* execution or its output, some of it for some kinds of extensions only, is fault:
\* that the files of the fixture make no snapshot, the detection is out of bounds,
\* the fixture lacks what the kind needs, the output has no canonical JSON or is too
\* large, a module is incomplete, an artifact is invalid or at the path of another
\* one, or a finding of the verification is invalid.
Fixtures ==
  [kind : {"language", "pack", "target", "runtime"},
   descriptor : BOOLEAN, graph : BOOLEAN, load : {"good", "fails", "lies"},
   throws : {"never", "first", "second"}, equal : BOOLEAN, leaks : BOOLEAN,
   fault : {"none", "files", "detection", "fixture", "encoding", "size", "module", "artifact", "duplicate",
            "verification"}]

BeginKit ==
  /\ fixture \in Fixtures
  /\ phase = "descriptor"
  /\ checks = [c \in Checks |-> "none"]
  /\ findings = {}
  /\ loaded = FALSE
  /\ outputs = {}

\* pass: what has failed stays so.
Pass(S) == checks' = [c \in Checks |-> IF c \in S /\ checks[c] # "failed" THEN "passed" ELSE checks[c]]

Failing(S) ==
  /\ checks' = [c \in Checks |-> IF c \in S THEN "failed" ELSE checks[c]]
  /\ findings' = findings \cup S

CheckDescriptor ==
  /\ phase = "descriptor"
  /\ phase' = "registry"
  /\ IF fixture.descriptor THEN Pass({"descriptor"}) /\ UNCHANGED findings ELSE Failing({"descriptor"})
  /\ UNCHANGED <<fixture, loaded, outputs>>

\* A fresh registry is frozen, which validates the graph, and loads the extension.
CheckLoader ==
  /\ phase = "registry"
  /\ phase' = "execution"
  /\ loaded' = (fixture.graph /\ fixture.load = "good")
  /\ IF ~fixture.graph THEN Failing({"dependencies"})
     ELSE IF fixture.load = "good" THEN Pass({"dependencies", "loader-identity"}) /\ UNCHANGED findings
     ELSE /\ checks' = [checks EXCEPT !["dependencies"] = "passed", !["loader-identity"] = "failed"]
          /\ findings' = findings \cup {"loader-identity"}
  /\ UNCHANGED <<fixture, outputs>>

\* snapshot throws: a path is not normalized, or given twice.
NoSnapshot == fixture.fault = "files"

\* snapshot or execute throws, before the extension can.
Unexecutable ==
  \/ NoSnapshot
  \/ fixture.fault = "detection" /\ fixture.kind = "language"
  \/ fixture.fault = "fixture" /\ fixture.kind \in {"target", "runtime"}

\* artifacts(output): a module has none.
HasArtifacts == fixture.kind \in {"target", "runtime"}

\* validateOutput, with validateArtifact and validateVerification.
Valid ==
  /\ fixture.fault \notin {"encoding", "size"}
  /\ ~HasArtifacts => fixture.fault # "module"
  /\ HasArtifacts => fixture.fault \notin {"artifact", "duplicate"}
  /\ fixture.kind = "target" => fixture.fault # "verification"

\* The executions that complete.
Completed ==
  IF ~loaded \/ Unexecutable \/ fixture.throws = "first" THEN {}
  ELSE IF fixture.throws = "second" THEN {"first"} ELSE {"first", "second"}

\* Seeded fault: no output is validated.
Execute_Unvalidated ==
  /\ phase = "execution"
  /\ phase' = "comparison"
  /\ outputs' = Completed
  /\ IF outputs' = {"first", "second"}
     THEN Pass({"execution", "artifact-safety"}) /\ UNCHANGED findings
     ELSE Failing({"execution", "artifact-safety"})
  /\ UNCHANGED <<fixture, loaded>>

\* It is executed twice over one snapshot, and both outputs are validated.
ExecuteTwice ==
  /\ phase = "execution"
  /\ phase' = "comparison"
  /\ outputs' = Completed
  /\ IF outputs' = {"first", "second"} /\ Valid
     THEN Pass({"execution", "artifact-safety"}) /\ UNCHANGED findings
     ELSE Failing({"execution", "artifact-safety"})
  /\ UNCHANGED <<fixture, loaded>>

\* The outputs are compared and the first is searched for the canaries, both as
\* their canonical JSON.
Compare ==
  /\ phase = "comparison"
  /\ phase' = "reported"
  /\ LET failed == IF outputs # {"first", "second"} \/ fixture.fault = "encoding"
                   THEN {"determinism", "secret-safety"}
                   ELSE (IF fixture.equal THEN {} ELSE {"determinism"})
                        \cup (IF fixture.leaks THEN {"secret-safety"} ELSE {})
     IN /\ checks' = [c \in Checks |-> IF c \in failed THEN "failed"
                                       ELSE IF c \in {"determinism", "secret-safety"} THEN "passed" ELSE checks[c]]
        /\ findings' = findings \cup failed
  /\ UNCHANGED <<fixture, loaded, outputs>>

\* The report: a check without a status has failed.
Reported(c) == IF checks[c] = "none" THEN "failed" ELSE checks[c]

KitNext == CheckDescriptor \/ CheckLoader \/ ExecuteTwice \/ Compare
=============================================================================
