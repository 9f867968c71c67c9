--------------------------- MODULE MCConfiguration ---------------------------
(* Small instances of Configuration for TLC.                               *)
EXTENDS Configuration, Sequences, TLC

-----------------------------------------------------------------------------
(* ConfigLifecycle. *)

Kind(v, m, r, s, c) ==
  [version |-> v, monorepo |-> m, runtime |-> r, sound |-> s, canonical |-> c,
   name |-> CHOOSE n \in Names : TRUE]

\* One configuration of every kind the migrations treat differently.
Representatives ==
  {Absent, Kind(1, FALSE, "none", TRUE, FALSE), Kind(1, FALSE, "none", FALSE, FALSE),
   Kind(2, TRUE, "none", TRUE, FALSE), Kind(3, FALSE, "default", TRUE, FALSE),
   Kind(3, FALSE, "custom", TRUE, TRUE), Kind(3, TRUE, "default", TRUE, TRUE)}

\* What others write: a text that is no document, one that loads, or nothing.
Others ==
  {Absent, Kind(0, FALSE, "none", FALSE, FALSE),
   Kind(3, FALSE, "default", TRUE, FALSE)}

Symmetry == Permutations(Procs)

-----------------------------------------------------------------------------
(* CommandLine. *)

\* The items of which command lines are made.
Words ==
  {"help", "init", "plan", "apply", "check", "doctor", "detect", "list", "config", "migrate", "rollback",
   "nonsense", "--help", "-h", "--json", "--force", "--dry-run", "--allow-downgrade", "--interactive"}
Items ==
  {<<w>> : w \in Words}
  \cup {<<o, "second">> : o \in {"--name", "--targets", "--architecture", "--root", "--to"}}
  \cup {<<"--targets", "malformed">>, <<"--architecture", "unregistered">>, <<"--to", "1">>, <<"--to", "2">>, <<"--to", "3">>,
        <<"--backup", "saved">>, <<"--name", "apply">>, <<"--targets">>, <<"--preset", "simple">>, <<"--preset", "malformed">>,
        <<"--preset", "second">>, <<"--unknown">>}

\* All of two items, and the commands that write with two of the options that
\* change what they do.
Changing ==
  {<<"--interactive">>, <<"--dry-run">>, <<"--help">>, <<"--force">>, <<"--allow-downgrade">>, <<"--to", "2">>,
   <<"--name", "second">>, <<"--backup", "saved">>, <<"--preset", "simple">>, <<"--targets", "third">>}
SomeLines ==
  {<<>>} \cup Items \cup {a \o b : a, b \in Items}
  \cup {<<c>> \o a \o b : c \in {"config", "init", "apply", "migrate", "rollback"}, a, b \in Changing}

File(version, value, rest) ==
  [version |-> version, rest |-> rest, name |-> value, architecture |-> value, languages |-> value,
   frameworks |-> value, targets |-> value, packs |-> value]
SomeFiles == {Nothing, Broken, File(2, "first", 1), File(3, "first", 1)}
OtherFiles == {File(3, "third", 2), Nothing}
Asked == <<"name", "architecture", "targets">>
Old == File(2, "second", 2)

-----------------------------------------------------------------------------
(* Detection. *)

Extension(kind, id, markers, words, sources) ==
  [kind |-> kind, id |-> id, markers |-> markers, words |-> words, sources |-> sources]
Pattern(text, distinctive) == [text |-> text, distinctive |-> distinctive]

\* Some of the built-in extensions.
SomeExtensions ==
  <<Extension("framework", "django", {"manage.py", "requirements.txt"}, {"django"},
              <<Pattern("manage.py", FALSE)>>),
    Extension("framework", "nestjs", {"package.json", "nest-cli.json"}, {"nestjs"},
              <<Pattern(".controller.ts", TRUE)>>),
    Extension("framework", "nextjs", {"package.json", "next.config.js"}, {"next"}, <<Pattern("/page.tsx", TRUE)>>),
    Extension("language", "python", {"requirements.txt"}, {}, {".py"}),
    Extension("language", "typescript", {"tsconfig.json"}, {"typescript"}, {".ts", ".tsx"})>>

At(path, spelling, name, atRoot, endings) ==
  [path |-> path, spelling |-> spelling, name |-> name, atRoot |-> atRoot, endings |-> endings,
   regular |-> TRUE, shareable |-> TRUE]
Package == At(1, 2, "package.json", TRUE, {})
Twin == At(1, 1, "package.json", TRUE, {})
Nested == At(2, 1, "package.json", FALSE, {})
Requirements == At(3, 1, "requirements.txt", TRUE, {})
Named ==
  {At(4, 1, "manage.py", TRUE, {".py", "manage.py"}), At(5, 1, "next.config.js", TRUE, {}),
   At(6, 1, "user.controller.ts", FALSE, {".ts", ".controller.ts"})}
Unlisted ==
  {[At(7, 1, "nest-cli.json", FALSE, {}) EXCEPT !.regular = FALSE],
   [At(8, 1, "tsconfig.json", FALSE, {}) EXCEPT !.shareable = FALSE]}

\* Projects of these files with a word or two in their manifests.
SomeContents == {Missing, {}, {"next"}, {"nestjs", "typescript"}}
SomeTrees ==
  {[f \in {Package, Twin, Nested, Requirements} \cup Named \cup Unlisted |->
      CASE f = Package -> p [] f = Nested -> n [] f = Requirements -> r [] f = Twin -> t
        [] f \in Named \ rest -> Missing [] OTHER -> {}] :
     p \in SomeContents, n \in {Missing, {"next"}}, r \in {Missing, {"django"}}, t \in {Missing, {}},
     rest \in {S \in SUBSET Named : Cardinality(S) # 2}}

-----------------------------------------------------------------------------
(* RuntimePolicy. *)

Draft(composition, runtime, targets) ==
  [schemaVersion |-> 3, project |-> [name |-> "name", architecture |-> "clean"],
   composition |-> composition, runtime |-> runtime, targets |-> targets, packs |-> <<"pack">>,
   generation |-> [sourceDirectory |-> "source", lockFile |-> "lock", lineEndings |-> "lf"]]
StackOf(languages) == [languages |-> languages, frameworks |-> <<"framework">>]
Single == [kind |-> "single", stack |-> StackOf(<<"language">>)]
Monorepo ==
  [kind |-> "monorepo", root |-> StackOf(<<>>),
   workspaces |-> [i \in {"[0]", "[1]"} |->
                     [id |-> i, path |-> i, stack |-> StackOf(<<"language">>)]]]
Enabled(profile) == [kind |-> "enabled", outputDirectory |-> "runtime", profile |-> profile]

Custom(reliability, evaluation, performance) ==
  [kind |-> "custom", reliability |-> reliability,
   observability |-> [kind |-> "events", contentCapture |-> "redacted", emitTokenUsage |-> TRUE,
                      emitEstimatedCost |-> FALSE],
   evaluation |-> evaluation,
   safety |-> [kind |-> "guarded", humanApproval |-> "disabled", audit |-> "redacted"],
   performance |-> performance]

Disabled == [kind |-> "disabled"]

\* Everything that can be switched off is, and all limits are as low as they may be.
Lowest ==
  Custom([timeoutMs |-> 1, retry |-> Disabled, circuitBreaker |-> Disabled, fallback |-> Disabled,
          maxRepairAttempts |-> 0],
         [kind |-> "offline"],
         [cache |-> Disabled, tokenBudget |-> Disabled, costBudget |-> Disabled,
          maxConcurrency |-> 1, maxBatchSize |-> 1])

\* Everything is switched on, each limit as low or as high as it may be.
Limited ==
  Custom([timeoutMs |-> 600000,
          retry |-> [kind |-> "bounded", maxAttempts |-> 10, baseDelayMs |-> 60000, maxDelayMs |-> 300000,
                     jitterRatio |-> 200000],
          circuitBreaker |-> [kind |-> "failure-threshold", failureThreshold |-> 1, resetAfterMs |-> 1,
                              halfOpenMaxAttempts |-> 10],
          fallback |-> [kind |-> "ordered", routes |-> <<"first", "second">>],
          maxRepairAttempts |-> 5],
         [kind |-> "sampled-online", sampleRate |-> 1],
         [cache |-> [kind |-> "registered", namespace |-> "cache"],
          tokenBudget |-> [kind |-> "limited", maxInputTokens |-> 1, maxOutputTokens |-> 10000000],
          costBudget |-> [kind |-> "limited", maxEstimatedCostUsd |-> 1500000],
          maxConcurrency |-> 1024, maxBatchSize |-> 1])

Plain == "plain"
Agent == [kind |-> "coding-agent", adapter |-> "agent", features |-> <<"skills">>, settings |-> Plain]
Chat == [kind |-> "chat-plugin", adapter |-> "chat", settings |-> Plain]
Provider == [kind |-> "api-provider", adapter |-> "provider", protocol |-> "responses", settings |-> Plain]
Gateway(routing) == [kind |-> "inference-gateway", adapter |-> "gateway", routing |-> routing, settings |-> Plain]
One(target) == "[0]" :> target
Two(first, second) == ("[0]" :> first) @@ ("[1]" :> second)

SomeDrafts ==
  {Draft(Single, Disabled, Two(Agent, Chat)),
   Draft(Monorepo, Enabled([kind |-> "production"]), Two(Provider, Gateway([kind |-> "fixed", model |-> "model"]))),
   Draft(Single, Enabled(Lowest), One(Gateway([kind |-> "fallback", models |-> <<"model">>]))),
   Draft(Single, Enabled(Limited),
         One(Gateway([kind |-> "capability", requiredParameters |-> <<"tools">>, providerOrder |-> <<"x">>])))}
=============================================================================
