---------------------------- MODULE SpecDocument ----------------------------
(***************************************************************************)
(* Loading aiyoke.yaml: parseHarnessSpec of                                *)
(* src/infrastructure/config/yaml-spec.ts.  Somebody edits a configuration *)
(* that loads and damages it in several places; the program loads it and   *)
(* reports where it is wrong.                                              *)
(*                                                                         *)
(* A document is a record of records.  An array of objects is a function   *)
(* over the names of its indices.  Fractions are in millionths.  What is   *)
(* wrong with a value is told apart as far as the validation does:         *)
(*   Missing  it is not there;                                             *)
(*   Bad      it has another type than the one asked for;                  *)
(*   Blank    a string without a visible character;                        *)
(*   Unsafe   a string that is neither an identifier nor a relative path   *)
(*            (and holds no word that reads like a path of the document).  *)
(* A path is the sequence of the names that lead to a value.               *)
(***************************************************************************)
EXTENDS Integers, Sequences, FiniteSets

LOCAL INSTANCE SequencesExt

CONSTANTS
  Drafts,      \* the configurations that are there at the start
  MaxDefects,  \* how many edits there are
  Missing, Bad, Blank, Unsafe,
  Unlimited,   \* a bound that is switched off
  None,        \* no issue, or no report yet
  NoPath       \* an issue whose message names no path

VARIABLES
  document,  \* what aiyoke.yaml holds
  defects,   \* the paths at which it is damaged
  report     \* None, or the paths of the issues of the last load

documentVars == <<document, defects, report>>

CurrentVersion == 3
Million == 1000000
MaxCost == 2000 * Million  \* stands for 100,000 dollars
Indices == <<"[0]", "[1]">>
Architectures == {"layered", "hexagonal", "clean", "custom"}
Features == {"instructions", "skills", "subagents", "hooks", "mcp", "permissions", "headless"}

-----------------------------------------------------------------------------
(* The validators.  Each gives the path of the first issue, or None.       *)

IsRecord(v) == v \notin {Missing, Bad}
Field(v, k) == IF IsRecord(v) /\ k \in DOMAIN v THEN v[k] ELSE Missing
Or(v, default) == IF v = Missing THEN default ELSE v
Items(v) == SelectSeq(Indices, LAMBDA i : i \in DOMAIN v)
Demand(ok, p) == IF ok THEN None ELSE p
FirstOf(issues) == LET found == SelectSeq(issues, LAMBDA i : i # None)
                   IN  IF found = <<>> THEN None ELSE Head(found)

\* The check of a field: its name and the issue.
Check(k, issue) == <<k, issue>>

\* Seeded fault: the upper limit is left out.
Number_Unbounded(v, p, k, low, high) ==
  Check(k, Demand(Field(v, k) \in Nat /\ Field(v, k) >= low, Append(p, k)))

Number(v, p, k, low, high) == Check(k, Demand(Field(v, k) \in low .. high, Append(p, k)))
Choice(v, p, k, choices) == Check(k, Demand(Field(v, k) \in choices, Append(p, k)))
NonEmpty(v, p, k) == Check(k, Demand(Field(v, k) \notin {Missing, Bad, Blank}, Append(p, k)))

\* extensionId and safeRelativePath of a string: the message has no path in it.
Safe(v, p, k) ==
  Check(k, IF Field(v, k) = Unsafe THEN NoPath ELSE NonEmpty(v, p, k)[2])

\* allowedKeys, and then the fields in turn.
Fields(v, p, checks) ==
  FirstOf(<<Demand(DOMAIN v \subseteq {c[1] : c \in Range(checks)}, p)>>
          \o [i \in DOMAIN checks |-> checks[i][2]])

Record(v, p, checks) == IF IsRecord(v) THEN Fields(v, p, checks) ELSE p

\* An object whose fields depend on its kind.
Variant(v, p, alternatives) ==
  IF ~IsRecord(v) THEN p
  ELSE IF Field(v, "kind") \notin DOMAIN alternatives THEN Append(p, "kind")
  ELSE Fields(v, p, <<Check("kind", None)>> \o alternatives[v.kind])

Strings(v) == IF IsRecord(v) THEN Range(v) ELSE {Bad}
Repeats(v) == IsRecord(v) /\ Cardinality(Range(v)) # Len(v)

\* idArray, where an element that is no identifier is reported without a path.
Identifiers(v, p) ==
  FirstOf(<<Demand(Bad \notin Strings(v), p), Demand(Strings(v) \cap {Unsafe, Blank} = {}, NoPath),
            Demand(~Repeats(v), p)>>)

\* uniqueNonEmptyStringArray.
Words(v, p) == Demand(Strings(v) \cap {Bad, Blank} = {} /\ ~Repeats(v), p)

-----------------------------------------------------------------------------
(* The runtime.                                                            *)

Retry(v, p) ==
  LET base == Field(v, "baseDelayMs")
      most == Field(v, "maxDelayMs")
  IN  Variant(v, p,
        [disabled |-> <<>>,
         bounded |->
           <<Number(v, p, "baseDelayMs", 0, 60000), Number(v, p, "maxDelayMs", 0, 300000),
             Check("maxDelayMs", Demand({base, most} \subseteq Nat => base <= most, Append(p, "maxDelayMs"))),
             Number(v, p, "maxAttempts", 1, 10), Number(v, p, "jitterRatio", 0, Million)>>])

\* Seeded fault: a circuit may be reset at once.
Circuit_ResetsAtOnce(v, p) ==
  Variant(v, p,
    [disabled |-> <<>>] @@
    ("failure-threshold" :>
       <<Number(v, p, "failureThreshold", 1, 100), Number(v, p, "resetAfterMs", 0, 3600000),
         Number(v, p, "halfOpenMaxAttempts", 1, 10)>>))

CircuitBreaker(v, p) ==
  Variant(v, p,
    [disabled |-> <<>>] @@
    ("failure-threshold" :>
       <<Number(v, p, "failureThreshold", 1, 100), Number(v, p, "resetAfterMs", 1, 3600000),
         Number(v, p, "halfOpenMaxAttempts", 1, 10)>>))

Fallback(v, p) ==
  LET routes == Field(v, "routes")
      q == Append(p, "routes")
  IN  Variant(v, p, [disabled |-> <<>>,
                     ordered |-> <<Check("routes", FirstOf(<<Words(routes, q), Demand(routes # <<>>, q)>>))>>])

Reliability(v, p) ==
  Record(v, p,
    <<Number(v, p, "timeoutMs", 1, 600000),
      Check("retry", Retry(Field(v, "retry"), Append(p, "retry"))),
      Check("circuitBreaker", CircuitBreaker(Field(v, "circuitBreaker"), Append(p, "circuitBreaker"))),
      Check("fallback", Fallback(Field(v, "fallback"), Append(p, "fallback"))),
      Number(v, p, "maxRepairAttempts", 0, 5)>>)

Observability(v, p) ==
  Record(v, p,
    <<Choice(v, p, "kind", {"events"}), Choice(v, p, "contentCapture", {"metadata-only", "redacted"}),
      Choice(v, p, "emitTokenUsage", BOOLEAN), Choice(v, p, "emitEstimatedCost", BOOLEAN)>>)

Evaluation(v, p) ==
  Variant(v, p, [offline |-> <<>>] @@ ("sampled-online" :> <<Number(v, p, "sampleRate", 1, Million)>>))

Safety(v, p) ==
  Record(v, p,
    <<Choice(v, p, "kind", {"guarded"}), Choice(v, p, "humanApproval", {"disabled", "high-impact"}),
      Choice(v, p, "audit", {"redacted"})>>)

Cache(v, p) == Variant(v, p, [disabled |-> <<>>, registered |-> <<NonEmpty(v, p, "namespace")>>])

TokenBudget(v, p) ==
  Variant(v, p, [disabled |-> <<>>,
                 limited |-> <<Number(v, p, "maxInputTokens", 1, 10 * Million),
                               Number(v, p, "maxOutputTokens", 1, 10 * Million)>>])

CostBudget(v, p) ==
  Variant(v, p, [disabled |-> <<>>, limited |-> <<Number(v, p, "maxEstimatedCostUsd", 1, MaxCost)>>])

Performance(v, p) ==
  Record(v, p,
    <<Check("cache", Cache(Field(v, "cache"), Append(p, "cache"))),
      Check("tokenBudget", TokenBudget(Field(v, "tokenBudget"), Append(p, "tokenBudget"))),
      Check("costBudget", CostBudget(Field(v, "costBudget"), Append(p, "costBudget"))),
      Number(v, p, "maxConcurrency", 1, 1024), Number(v, p, "maxBatchSize", 1, 10000)>>)

RuntimeProfile(v, p) ==
  Variant(v, p,
    [production |-> <<>>,
     custom |->
       <<Check("reliability", Reliability(Field(v, "reliability"), Append(p, "reliability"))),
         Check("observability", Observability(Field(v, "observability"), Append(p, "observability"))),
         Check("evaluation", Evaluation(Field(v, "evaluation"), Append(p, "evaluation"))),
         Check("safety", Safety(Field(v, "safety"), Append(p, "safety"))),
         Check("performance", Performance(Field(v, "performance"), Append(p, "performance")))>>])

Runtime(v, p) ==
  Variant(v, p,
    [disabled |-> <<>>,
     enabled |-> <<Safe(v, p, "outputDirectory"),
                   Check("profile", RuntimeProfile(Field(v, "profile"), Append(p, "profile")))>>])

-----------------------------------------------------------------------------
(* The other sections.                                                     *)

Stack(v, p) ==
  Record(v, p,
    <<Check("languages", Identifiers(Or(Field(v, "languages"), <<>>), Append(p, "languages"))),
      Check("frameworks", Identifiers(Or(Field(v, "frameworks"), <<>>), Append(p, "frameworks")))>>)

Workspace(v, p) ==
  Record(v, p, <<Safe(v, p, "id"), Safe(v, p, "path"),
                 Check("stack", Stack(Field(v, "stack"), Append(p, "stack")))>>)

\* Each workspace, and then that no two share an id or a path.
Workspaces(v, p) ==
  IF ~IsRecord(v) \/ DOMAIN v = {} THEN p
  ELSE FirstOf([n \in DOMAIN Items(v) |-> Workspace(v[Items(v)[n]], Append(p, Items(v)[n]))]
               \o <<Demand(\A k \in {"id", "path"} : \A i, j \in DOMAIN v :
                             i # j => Field(v[i], k) # Field(v[j], k), NoPath)>>)

Composition(v, p) ==
  Variant(v, p,
    [single |-> <<Check("stack", Stack(Field(v, "stack"), Append(p, "stack")))>>,
     monorepo |-> <<Check("workspaces", Workspaces(Field(v, "workspaces"), Append(p, "workspaces"))),
                    Check("root", Stack(Field(v, "root"), Append(p, "root")))>>])

\* What is wrong with the models of a route is reported without a path.
Routing(v, p) ==
  LET listed(k) == Words(Or(Field(v, k), <<>>), NoPath)
  IN  Variant(v, p,
        [fixed |-> <<Check("model", Demand(Field(v, "model") \notin {Missing, Bad, Blank}, NoPath))>>,
         fallback |-> <<Check("models", Demand(Words(Field(v, "models"), p) = None /\ v.models # <<>>, NoPath))>>,
         capability |-> <<Check("requiredParameters", listed("requiredParameters")),
                          Check("providerOrder", listed("providerOrder"))>>])

\* The fields that all kinds of targets have are looked at first.
Target(v, p) ==
  LET features == Or(Field(v, "features"), <<>>)
      common == <<Check("adapter", Safe(v, p, "adapter")[2]),
                  Check("settings", Demand(Field(v, "settings") # Bad, Append(p, "settings")))>>
  IN  IF ~IsRecord(v) THEN p
      ELSE FirstOf(
        <<NonEmpty(v, p, "kind")[2], common[1][2], common[2][2],
          Variant(v, p,
            ("coding-agent" :>
               common \o <<Check("features", Demand(Words(features, p) = None /\ Strings(features) \subseteq Features,
                                                   Append(p, "features")))>>) @@
            ("chat-plugin" :> common) @@
            ("api-provider" :> common \o <<Choice(v, p, "protocol", {"responses", "chat-completions"})>>) @@
            ("inference-gateway" :>
               common \o <<Check("routing", Routing(Field(v, "routing"), Append(p, "routing")))>>))>>)

-----------------------------------------------------------------------------
(* The document as a whole.                                                *)

RootKeys == {"schemaVersion", "project", "composition", "runtime", "targets", "packs", "generation"}

\* directValidationIssues: all of them, where other sections stop at the first.
DirectIssues(d) ==
  LET project == Field(d, "project")
      generation == Field(d, "generation")
      faults(v, name, keys, checks) ==
        IF ~IsRecord(v) THEN {<<name>>}
        ELSE {<<name, k>> : k \in DOMAIN v \ keys} \cup ({c[2] : c \in checks} \ {None})
  IN  {<<k>> : k \in DOMAIN d \ RootKeys}
      \cup faults(project, "project", {"name", "architecture"},
                  {NonEmpty(project, <<"project">>, "name"),
                   Choice(project, <<"project">>, "architecture", Architectures)})
      \cup faults(generation, "generation", {"sourceDirectory", "lockFile", "lineEndings"},
                  {NonEmpty(generation, <<"generation">>, "sourceDirectory"),
                   NonEmpty(generation, <<"generation">>, "lockFile"),
                   Choice(generation, <<"generation">>, "lineEndings", {"lf", "crlf"})})
      \cup {<<k>> : k \in {l \in {"targets", "packs"} : ~IsRecord(Field(d, l))}}

Capture(p, issue) == IF issue = None THEN {} ELSE IF issue = NoPath THEN {p} ELSE {issue}

\* Seeded fault: the runtime is looked at only if the composition is in order.
SemanticIssues_InTurn(d) ==
  LET composition == Capture(<<"composition">>, Composition(Field(d, "composition"), <<"composition">>))
  IN  IF composition # {} THEN composition
      ELSE Capture(<<"runtime">>, Runtime(Field(d, "runtime"), <<"runtime">>))

\* One issue at most for each section, and the sections independently.
SemanticIssues(d) ==
  LET targets == d.targets
      ofTargets == UNION {Capture(<<"targets", i>>, Target(targets[i], <<"targets", i>>)) : i \in DOMAIN targets}
      same(i, j) == \A k \in {"kind", "adapter"} : targets[i][k] = targets[j][k]
      ofPath(k) == Capture(<<"generation", k>>, Safe(d.generation, <<"generation">>, k)[2])
  IN  Capture(<<"composition">>, Composition(Field(d, "composition"), <<"composition">>))
      \cup Capture(<<"runtime">>, Runtime(Field(d, "runtime"), <<"runtime">>))
      \cup ofTargets
      \cup (IF ofTargets = {} /\ \E i, j \in DOMAIN targets : i # j /\ same(i, j) THEN {<<"targets">>} ELSE {})
      \cup Capture(<<"packs">>, Identifiers(d.packs, <<"packs">>))
      \cup ofPath("sourceDirectory") \cup ofPath("lockFile")

\* parseHarnessSpec; a document without an issue is loaded.
Issues(d) ==
  IF Field(d, "schemaVersion") # CurrentVersion THEN {<<"schemaVersion">>}
  ELSE IF DirectIssues(d) # {} THEN DirectIssues(d)
  ELSE SemanticIssues(d)

-----------------------------------------------------------------------------
(* What docs/configuration.md allows, told by the names of the fields.     *)

Limits ==
  [timeoutMs |-> <<1, 600000>>, baseDelayMs |-> <<0, 60000>>, maxDelayMs |-> <<0, 300000>>,
   maxAttempts |-> <<1, 10>>, jitterRatio |-> <<0, Million>>, failureThreshold |-> <<1, 100>>,
   resetAfterMs |-> <<1, 3600000>>, halfOpenMaxAttempts |-> <<1, 10>>, maxRepairAttempts |-> <<0, 5>>,
   sampleRate |-> <<1, Million>>, maxInputTokens |-> <<1, 10 * Million>>,
   maxOutputTokens |-> <<1, 10 * Million>>, maxEstimatedCostUsd |-> <<1, MaxCost>>,
   maxConcurrency |-> <<1, 1024>>, maxBatchSize |-> <<1, 10000>>, schemaVersion |-> <<3, 3>>]
Lists == {"languages", "frameworks", "packs", "routes", "features", "models", "requiredParameters", "providerOrder"}
IdentifierLists == {"languages", "frameworks", "packs"}
FilledLists == {"routes", "models"}
Optional == {"languages", "frameworks", "features", "settings", "requiredParameters", "providerOrder"}
Identifying == {"id", "path", "adapter", "outputDirectory", "sourceDirectory", "lockFile"}
Texts == Identifying \cup {"name", "namespace", "model", "kind"}
Arrays == {"targets", "workspaces"}
Objects ==
  {"project", "composition", "stack", "root", "runtime", "profile", "reliability", "retry",
   "circuitBreaker", "fallback", "observability", "evaluation", "safety", "performance", "cache",
   "tokenBudget", "costBudget", "routing", "generation"} \cup Range(Indices)

ValueAt(d, p) == FoldLeft(LAMBDA v, k : v[k], d, p)

\* The paths of the objects and arrays of d, and of all that is in d.
Paths(d) ==
  LET inner(p) == p = <<>> \/ (Last(p) \in Objects \cup Arrays /\ IsRecord(ValueAt(d, p)))
      upTo[n \in 0 .. 5] ==
        IF n = 0 THEN {<<>>}
        ELSE upTo[n - 1] \cup UNION {{Append(p, k) : k \in DOMAIN ValueAt(d, p)} : p \in {q \in upTo[n - 1] : inner(q)}}
  IN  upTo[5] \ {<<>>}

\* d with v at p: from the inside out, the value at each n names of the path.
Put(d, p, v) ==
  LET put[n \in 0 .. Len(p)] ==
        IF n = Len(p) THEN v
        ELSE LET old == ValueAt(d, SubSeq(p, 1, n))
                 k == p[n + 1]
             IN  IF v = Missing /\ n = Len(p) - 1 THEN [l \in DOMAIN old \ {k} |-> old[l]]
                 ELSE [l \in DOMAIN old \cup {k} |-> IF l = k THEN put[n + 1] ELSE old[l]]
  IN  put[0]

\* The values that are wrong at p.
Wrong(d, p) ==
  LET k == Last(p)
      least == IF k = "maxDelayMs" THEN Field(ValueAt(d, Front(p)), "baseDelayMs") ELSE Missing
      twin == IF k \in Arrays /\ IsRecord(ValueAt(d, p)) THEN [i \in Range(Indices) |-> ValueAt(d, p)["[0]"]] ELSE Bad
  IN  {Bad, twin}
      \cup (IF k \in Optional \cup Range(Indices) THEN {} ELSE {Missing})
      \cup (IF k \in DOMAIN Limits THEN {Limits[k][1] - 1, Limits[k][2] + 1} ELSE {})
      \cup (IF least \in Nat \ {0} THEN {least - 1} ELSE {})
      \cup (IF k \in Texts THEN {Blank} ELSE {})
      \cup (IF k \in Identifying \cup {"kind"} THEN {Unsafe} ELSE {})
      \cup (IF k \in Lists THEN {<<"a", "a">>, <<Blank>>, <<Bad>>} ELSE {})
      \cup (IF k \in IdentifierLists THEN {<<Unsafe>>} ELSE {})
      \cup (IF k \in FilledLists THEN {<<>>} ELSE {})

\* A field that nobody knows.
Unknown(d) == {Append(p, "extra") : p \in {<<>>} \cup {q \in Paths(d) : Last(q) \in Objects /\ IsRecord(ValueAt(d, q))}}

Init ==
  /\ document \in Drafts
  /\ defects = {}
  /\ report = None

\* An edit leaves a value, or a new field, that is wrong.
Damage ==
  /\ Cardinality(defects) < MaxDefects
  /\ \E p \in Paths(document) \cup Unknown(document) :
       /\ \E v \in IF Last(p) = "extra" THEN {Bad} ELSE Wrong(document, p) : document' = Put(document, p, v)
       /\ defects' = {q \in defects : ~IsPrefix(p, q)} \cup {p}
  /\ report' = None

Load ==
  /\ report = None
  /\ report' = Issues(document)
  /\ UNCHANGED <<document, defects>>

Next == Damage \/ Load

Spec == Init /\ [][Next]_documentVars

-----------------------------------------------------------------------------
(* Properties.                                                             *)

\* The defects that are looked for before the sections are read.
Structural ==
  {q \in defects :
     \/ Len(q) = 1 /\ q[1] \notin RootKeys
     \/ q[1] \in {"project", "generation"} /\ Field(Field(document, q[1]), Last(q)) # Unsafe
     \/ q \in {<<"targets">>, <<"packs">>} /\ ~IsRecord(Field(document, q[1]))}

\* The section to which a path belongs; each reports one issue.
Section(q) == SubSeq(q, 1, IF q[1] \in {"targets", "generation"} /\ Len(q) > 1 THEN 2 ELSE 1)
Meet(p, q) == IsPrefix(p, q) \/ IsPrefix(q, p)

\* A configuration loads exactly if nothing is wrong with it; every issue points
\* to something that is wrong; and whoever repairs what is reported learns of all
\* "independent top-level, project, generation, target-list, and pack-list
\* defects in one pass" (docs/cli.md), and of one in each section after that.
ReportTellsTheDefects ==
  report # None =>
    /\ report = {} <=> defects = {}
    /\ \A i \in report : \E q \in defects : Meet(i, q)
    /\ <<"schemaVersion">> \notin defects =>
         IF Structural # {} THEN report = Structural
         ELSE \A q \in defects : \E i \in report : Meet(i, Section(q))
=============================================================================
