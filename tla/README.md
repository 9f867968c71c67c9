# Verification of aiyoke

TLA+ specifications of [aiyoke](../README.md), the configurations with which TLC
checks them on small instances, and proofs of their most important properties
for instances of any size. Paths below are relative to the repository.

1. [The system](#1-the-system)
2. [The modules and the code](#2-the-modules-and-the-code)
3. [The runs](#3-the-runs)
4. [Fairness](#4-fairness)
5. [What is proved](#5-what-is-proved)
6. [Where the code and its documentation differ](#6-where-the-code-and-its-documentation-differ)
7. [What is not modelled](#7-what-is-not-modelled)
8. [Plan](#8-plan)

## 1. The system

Aiyoke compiles one file, `aiyoke.yaml`, into the configuration files of AI
tools and into source templates of an application runtime. It consists of two
programs: the *engine*, which reads a workspace and writes to it, and the
*generated runtime*, which the engine writes out as text in five languages and
which then runs in somebody's application.

### The engine

| Component | Where | State | Operations |
| --- | --- | --- | --- |
| Command line | `src/interfaces/cli/` | the arguments; the answers of a dialogue | `parseArguments`, `runCli`, `collectInteractiveConfig` |
| Configuration lifecycle | `src/engine/engine.ts`, `src/application/migration-registry.ts`, `src/infrastructure/config/migrations.ts` | `aiyoke.yaml`, `.aiyoke/backups/` | `initialize`, `configure`, `migrate`, `rollbackMigration` |
| Detection | `AiyokeEngine.detect`, `src/extensions/shared/detection.ts`, `src/extensions/frameworks/shared.ts` | the listing of the workspace, the answers so far | `detect` |
| Configuration parsing and policy | `src/infrastructure/config/yaml-spec.ts`, `src/core/model.ts`, `src/extensions/runtimes/policy.ts` | none | `parseHarnessSpec`, `resolveRuntimePolicy`, the `policy.*` artifacts |
| Compiler | `src/application/compiler.ts`, `artifact-policy.ts`, `src/core/module-conflicts.ts`, `src/extensions/targets/` | none between calls: a plan holds what was read and what to write | `plan`, `apply`, `check`, `doctor` |
| Workspace transactions | `src/infrastructure/filesystem/node-workspace.ts`, `HarnessCompiler.apply` | the files; `.tmp` and `.rollback` files beside them; the records of a running batch | `readText`, `writeAtomic`, `writeBatchAtomic` |
| Extension registry | `src/extension-sdk/registry.ts`, `src/engine/registry.ts` | the loaders, the memoised loads, `frozen` | `register*`, `freeze`, `get`, `resolve` |
| Signed discovery | `src/infrastructure/discovery/node-signed-discovery.ts`, `src/extension-sdk/signed-manifest.ts` | a package directory, read twice; what the module loader keeps | `verifySignedExtensionPackage`, `discoverSignedExtension` |
| Renderer isolation | `src/infrastructure/isolation/node-renderer-isolation.ts` | a child process, its channel, four timers, an abort signal | `renderSignedExtensionIsolated` |
| Compatibility kit | `src/extension-sdk/compatibility.ts` | the findings of a report | `runExtensionCompatibility` |
| Targets, languages, frameworks, packs | `src/extensions/` | none | render text, verify a target, detect a stack |

The command line calls `AiyokeEngine`. A command that generates files loads the
specification, has the extensions of the registry render their artifacts, hands
them to the compiler for a plan, and the compiler hands the plan to
`writeBatchAtomic`. The four lifecycle operations write `aiyoke.yaml` with
`writeAtomic`. Nothing coordinates two aiyoke processes, or a process and an
editor, except the files: the engine reads, decides, reads again and renames.
That is where it is hard. Every `await` is a point at which somebody else may
write, at which an I/O call may fail, and at which the process may die.

What makes each component correct:

* *Command line*: only what was asked for, and confirmed, is done; a command that
  fails or is a preview changes nothing.
* *Lifecycle*: what an operation replaces can be had back, what it writes can be
  used, and migrations neither lose nor invent meaning.
* *Detection*: what `init` selects rests on evidence that was found and read.
* *Parsing and policy*: a configuration loads exactly if nothing is wrong with
  it, every issue is one, and one that loads yields runtimes that can be
  constructed and that behave alike.
* *Compiler*: applying a plan gives every renderer what it asked for, takes
  nothing from the developer, and is a fixed point, whatever text the developer
  has left in a managed file; a check that passes has found just that.
* *Transactions*: a batch is a compare-and-swap of several files. A plan made
  over contents that are gone writes nothing; a batch that fails undoes what it
  has done; no content that was in a file is lost on the way.
* *Registry*: an extension is loaded once, in an order that respects `requires`,
  and a frozen registry is sound.
* *Signed discovery and isolation*: what runs is what was verified and trusted,
  also while the package is being replaced; whatever a renderer does, its caller
  gets one answer, and no renderer outlives its rendering.
* *Compatibility kit*: the report passes if and only if every check has.

### The generated runtime

`src/extensions/runtimes/typescript.ts` holds the text of the TypeScript runtime
(the JavaScript one is produced from it by
`scripts/generate-javascript-runtime-templates.mjs`), and `python.ts`, `go.ts`
and `rust.ts` hold the others; `modules/` has the tool and evaluation modules,
`providers/` the HTTP adapters and `integrations/` the handlers for web
frameworks, in every language.

| Component | State | Operations |
| --- | --- | --- |
| `HarnessRuntime` | the gate, a breaker per route, a cache | `execute`, `executeBatch` |
| `ConcurrencyGate`, semaphore, channel or condition variable | the slots in use, the waiting requests | acquire, release, cancellation |
| `CircuitBreaker` | state, failures, time of opening, half-open probes | `state`, `allow`, `success`, `failure` |
| `ToolRunner` | the tools; a deadline per call | `execute` |
| `EvaluationRunner` | the cursor over the cases, the results | `run` |
| `ResponsesApiAdapter` | a connection, the bytes read so far | `invoke` |
| Framework handlers | a client that may go away | one handler per framework |

A request takes a slot of the gate, is screened by budget, guards and approval,
may be answered by the cache, and then tries its routes in order: the breaker of
the route must admit it, the adapter is called under a deadline and an abort
signal, retryable failures are counted and retried after a backoff, and an
answer is validated before it is accepted. All of this runs for many requests at
once, over one gate, one cache and shared breakers. What is hard is that a
decision is made before a point of waiting and acted on after it: an abort, a
deadline and an answer race, other requests open and close the circuit meanwhile,
and `execute` has a dozen ways to return, each of which must give its slot back.
And it is written four times, over an event loop, asyncio, goroutines and
threads, which have nothing in common where it matters: what a waiting request
is, how a cancellation reaches it, and who still runs when its caller has its
answer. `docs/runtime-harness-contract.md` states the contract once for all.

## 2. The modules and the code

| Module | Models | Composed with |
| --- | --- | --- |
| `AtomicBatch` | the promise of `WorkspacePort.writeBatchAtomic`: a multi-file compare-and-swap | refined by `PlanTransaction` |
| `PlanTransaction` | `HarnessCompiler.apply` and `NodeWorkspace.writeBatchAtomic`, await by await | |
| `ConfigLifecycle` | the four operations of `AiyokeEngine` on `aiyoke.yaml`, with the migration registry | extended by `Configuration` |
| `CommandLine` | `parseArguments`, `runCli` and the dialogue of `config --interactive` | instantiated by `Configuration` |
| `Detection` | the listing of a workspace, `AiyokeEngine.detect` and what `init` selects | instantiated by `Configuration` |
| `SpecDocument` | `parseHarnessSpec`: the validation of a configuration, field by field | extended by `RuntimePolicy` |
| `RuntimePolicy` | from the `runtime` section to the options of the runtimes, and the backoff as each of the five counts and rounds it | instantiated by `Configuration` |
| `Configuration` | a behaviour is one use of `aiyoke.yaml`: operations on it, a command, a detection, or a document being loaded | the root of three runs |
| `Compiler` | the built-in targets and their verification, `HarnessCompiler.plan`, the merge of managed sections, `apply` as one step, `check` and `doctor` | takes the batch as atomic, which `PlanTransaction` shows |
| `ExtensionRegistry` | registration, validation, freezing, memoised loading, resolution | extended by `Extensions` |
| `SignedDiscovery` | two snapshots of a package, the trust decisions, the import | extended by `Extensions` |
| `RendererIsolation` | `runWorker` of the host and everything its child may do | extended by `Extensions` |
| `CompatibilityKit` | `runExtensionCompatibility` | extended by `Extensions` |
| `Extensions` | the SDK at work: a package is loaded, or rendered with in a child; a registry is composed; an extension is checked | the root of a run |
| `BoundedSlots` | what a concurrency limit promises | refined by `ConcurrencyGate` and by the gates of Python, Go and Rust |
| `ConcurrencyGate` | `ConcurrencyGate` of the TypeScript runtime | instantiated by `HarnessRuntime` |
| `RuntimeRequests` | options, requests, routes, failure kinds and the `CircuitBreaker` as values, which all languages share | extended by the runtimes |
| `HarnessRuntime` | `execute` of the TypeScript runtime for several requests | |
| `PortableRuntime` | the state that the models of the next three share | |
| `PythonRuntime`, `GoRuntime`, `RustRuntime` | `execute` of each | extend `PortableRuntime` |
| `RuntimeContract` | the properties of the three, stated once | instantiates them |
| `ModuleCalls` | what a tool call, an evaluation and a provider call are in every language | |
| `TypeScriptModules`, `PythonModules`, `GoModules`, `RustModules` | the tool runner, the evaluation runner and the provider adapter of each | extend `ModuleCalls` |
| `FrameworkHandlers` | one HTTP request at a handler of any of the twelve frameworks | |
| `RuntimeModules` | the properties of modules, providers and handlers, stated once | instantiates and extends them |
| `MC*` | the values TLC uses for the constants | |
| `*_proofs` | theorems and proofs | extend the module they are about |

An operator whose comment says *Seeded fault* is not part of the model. It is a
variant of the definition below it with a plausible bug, and `PROJECT.json` says
which property finds it: a property that holds whatever the code does would be
worth nothing.

Where several components share a run (`Configuration`, `Extensions`,
`RuntimeModules`), a behaviour is about one of them, chosen in its first state,
and the others stand still; the composition adds no interaction that the code
does not have, and saves a configuration per component. Properties that are
invariants of one component are conjunctions of named parts (`LifecycleInv`,
`DocumentInv`, `CompilerInv`, `HarnessInv`, `OutcomesAgree`, `ToolContract`,
`ProviderContract`, `DiscoveryInv`, `RegistryInv`, `NothingIsLeftBehind`,
`EveryUseEnds`), each of which has a comment of its own and a seeded fault.


### PlanTransaction

Each batch (`Txns`) has a `phase`, the loop of the code it is in, and `todo`,
the files that loop has not reached; loops run in path order, as the code sorts
them, and the rollback in the reverse order. An `await` ends a step, so that
batches and editors interleave at every I/O call.

| Action | Code |
| --- | --- |
| `Plan` | the plan, with `previousContent` of every operation |
| `Preflight`, `PreflightFails` | the freshness loop of `apply` |
| `Stage`, `StageFails` | `#stageWrite` to a `.tmp` file |
| `Revalidate`, `RevalidateFails` | the re-read of every target, after all are staged |
| `BackUp`, `Install`, `CommitFails` | the two renames per file, and the `catch` |
| `RollbackRemove`, `RollbackRestore`, `RollbackFails`, `RollbackDone` | the reverse loop over the commit records |
| `Cleanup`, `Sweep` | deletion of backups and of `.tmp` files, with errors ignored |
| `Edit`, `Crash` | other programs, and the death of the process |

A content is a model value: the original one, one per batch and one per edit.
That is enough for what the properties ask (whose content is in which file), and
a batch that writes the same content twice is not interesting. `Interference`
says whether others may write between the first re-read of a batch and its end.
With it some of the properties do not hold (section 6 says what happens), and the
code makes no attempt at it; without it the model is about everything else.

### Configuration

*ConfigLifecycle.* A document is a record of what the operations look at: its
schema version, whether it uses what an older schema cannot say (`monorepo`, a
customized `runtime`), whether the rest passes validation (`sound`), whether the
text is what the program would print (`canonical`), and a name that `configure`
edits. `pc` goes through reading, looking for the backup, saving it, comparing
(`#assertConfigUnchanged`) and renaming. `Migrated` runs the two registered
migrations one after the other; `Down` refuses what version 1 or 2 cannot
represent, as the migrations do. `Stop` is a preview, an error or a crash: none
of them changes anything on disk, and they may come between any two steps.

*CommandLine.* A command line is a sequence of words and options. `Options` is
the result of `parseArguments`, `Refuse` every way in which a command ends
before it does anything, `Run` the engine operation of a command as one step,
and the dialogue asks, shows, takes answers and a confirmation while somebody
else may write the file (`ForeignEdit`).

*Detection.* A file is a record of what detection asks of its path (its name,
its endings, whether it is at the root, whether it differs from another in case
only). `NodeWorkspace.open` lists the tree once; then each registered language
and framework, in their order, reads the files it knows, one at a time, and adds
up its confidence, while files appear, vanish and change their content; and
`initialize` selects those above its thresholds. `held` and `kept` are history:
every word a file has held, and what it has held all the time.

*SpecDocument and RuntimePolicy.* A document is a record of records. `Drafts`
are configurations that load; `Damage` replaces any value in any place of one,
or adds a field, and `Issues` is `parseHarnessSpec` in the order of the code:
what is wrong with the top level ends it, then every section reports its first
issue, then the references between sections are looked at. `Resolved` is
`resolveRuntimePolicy`, `OptionValues` what the `policy.*` artifacts pass on,
`Constructs` what the constructors of the runtimes accept, and `Compiles` whether
the literals printed for it are literals of the type that is declared.
Every delay is computed in units of 1/400 ms, in which a jitter of whole percents
is exact, so that the different rounding of the languages is in the model; the
error of floating-point numbers is not.

### Compiler

Texts are sequences of tokens, so that the offsets at which
`mergeManagedSection` slices are real: markers, line breaks of both kinds, the
legacy marker and words. `Merged`, `Unmergeable`, `Separator` and `Suffix` are
the branches of the merge, `Operation` the decision for one path, `Incompatible`
what happens when several renderers claim it. `Refused` is why planning fails
before any file is looked at (no language, no target, targets that do not verify,
two modules that define the same). Planning and checking read one path per step
while the developer edits. `Drift` is what a check reports of one path.
Renderers are abstracted to the artifacts they return for a specification
(`intents`), and the digest in the lock file to a token that differs for
different specifications.

### The extension SDK

*ExtensionRegistry.* Calls of `get` and `resolve` are interleaved at the point at
which a loader is awaited. `Fetch` keeps the promise before it is settled;
`LoadEnds` settles it, also with a failure, which stays. Where the code recurses over the
graph of `requires` (`#validateDependencyGraph`, `resolve`), the model has recursive
functions of an extension and of the sets the code keeps (`Validate`, `Visit`), whose
steps are `ValidateOne` and `VisitOne`; `Through` is the loop over what an extension
requires. `Ids` has the extensions that nobody registers, too.

*SignedDiscovery.* A package is a sequence of files, each at some version, and a
manifest of some version; `PublishFile` and `PublishManifest` replace one of them at
any moment by that of any other version, back and forth. The host
hashes file by file, judges the manifest with the first snapshot (`Verdict`, in
the order of the code), hashes again, compares, looks at the entrypoint, and
imports. Only the URL of the entrypoint names the content: a module of the same
content is there already if the process has imported one (`modules`, `Reuse`),
and the other files come from the cache of the module loader whatever version
they are of (`imports`). A second discovery may follow in the same process. `late`
are files replaced between their last reading and their import, which no reader
can notice; they are kept with the module, because a later discovery gets it though
the file has been restored.

*RendererIsolation.* The host is an event loop: each handler is an action, and so
is each timer. The child may do anything: answer, write what is not in the
protocol, write too much, hang, ignore SIGTERM, end at any time; and the host may
learn of its end before or after its last message, or never. `Extensions` puts
the verification of the package before it, in the host, and another hashing and
importing of the same files inside the child.

*CompatibilityKit.* A fixture says what the extension is like, and which one of the
things is wrong at which its checks throw; each block has its `try` and writes its
findings; the report is made of them.

### The TypeScript runtime

JavaScript runs a method without interruption, so `acquire`, `release` and all
listeners of one abort are a step each. `place` is where a request is; the code
has it in the promise of its caller. The breaker keeps its clock relative
(`openFor`), and `Tick` lets time pass. In `HarnessRuntime`, `pc` is the
`await` a request stands at; what happens up to the next one at which another
request can interfere is one action, including the release of the slot, which
the `finally` clause does before the failure has been reported. The adapter, the
deadline and the abort race in `calling`.

### Python, Go and Rust

`PortableRuntime` keeps, beside the state of the requests, the set `calls` of the
adapter calls that are under way, also those nobody waits for any more, and
whether each was told to stop. The three differ as the code does:

* Python: requests are tasks. `Semaphore` hands a slot to a waiter (`granted`),
  which may be cancelled before it runs again. A cancellation is an exception at
  the `await` at which the task stands, and what happens then depends on where
  that is. The adapter is awaited by the task itself, so a deadline waits until
  the adapter has stopped.
* Go: the gate is a buffered channel; `select` takes any ready branch, so a
  request with an ended context may still enter. The adapter is a goroutine
  under a derived context; the end of the caller's context and the deadline of
  the attempt are told apart afterwards.
* Rust: the gate is a counter with a condition variable that is polled, the token
  of the caller is looked at by the waiter, and the adapter is a thread with a
  token of its own, which the request sets when it gives up.

### Modules, providers and handlers

A tool call, an evaluation, a provider call and an HTTP request have no state in
common with others of their kind, so one of each is enough. In each, who is
first is a choice: the handler, the deadline or the caller of a tool; the worker
that takes the next case or the cancellation; the next chunk, the end of the body
or the loss of the connection; the runtime or the client that goes away. An
answer of a provider is a status, a body and its length, so that what is judged
first (length, status, JSON, an error in the body) can be told. A call may end
before there is a connection: the checks of the adapter refuse it, a resolver of
secrets throws, or the request cannot be serialised, of which each language makes
something else (`Checking` and `Check`). `linked` says whether the runtime is to hear
of its client's going. The signal of Express and Fastify is set when the *request* is
closed: `Consume` does that when its body has been read, and a request that was closed
before anybody listened is one of the initial states. A case of an evaluation is at a worker
(`active`) before it is taken to its subject (`begun`): in Rust a cancellation may
come between the two.

## 3. The runs

`tlc -config <cfg> <module>`. Numbers are distinct states.

| Run | Module, configuration | Checks | States |
| --- | --- | --- | --- |
| `batch_faults` | `MCPlanTransaction`, `PlanTransactionFaults` | `TypeOK`, `StalePlanNeverWrites`, `FailureIsClean`, `ContentSurvives` | 405,694 |
| `batch_refines` | `MCPlanTransaction`, `PlanTransactionRefines` | `ImplementsAtomicBatch`, `Terminates` | 169,495 |
| `config` | `MCConfiguration`, `Configuration` | `LifecycleInv`, `DocumentInv`, `DetectionInv`, `ReplacedCanBeRestored`, `OnlyAskedIsDone`, `ConfirmedIsWritten` | 533,761 |
| `compiler` | `MCCompiler`, `Compiler` | `CompilerInv`, `ApplyIsIdempotent`, `DeveloperTextStays` | 1,277,338 |
| `extensions` | `MCExtensions`, `Extensions` | `TypeOK`, `ResolvedMeansStopped`, `DiscoveryInv`, `RegistryInv`, `PassedMeansCompatible`, `FirstResultStays`, `EveryUseEnds` | 680,362 |
| `harness` | `MCHarnessRuntime`, `HarnessRuntime` | `HarnessInv`, `AbortedIsNotCalled`, `ProbesAreDecided`, `ImplementsGate`, `ImplementsBoundedSlots`, `FirstComeFirstServed` | 125,482 |
| `runtimes` | `MCRuntimeContract`, `RuntimeContract` | `OutcomesAgree`, `CallsAreAccountedFor`, `ImplementsBoundedSlots`, `ExecutionEnds` | 164,504 |
| `modules` | `MCRuntimeModules`, `RuntimeModules` | `ToolContract`, `ReportIsTrue`, `ProviderContract`, `ReplyTellsOutcome`, `CancelStartsNothing`, `NothingIsLeftBehind` | 9,914 |

Four more runs end in a counterexample; see section 6.

**`batch_faults`**: two batches over two files that may or may not exist, one
edit of another program, every kind of I/O call failing anywhere, and either
process dying anywhere. Two files are what it takes for "one done, one not", in
either direction, and for the reverse order of the rollback; two batches are
what it takes for a stale plan; more of either only repeats this. No stale plan
writes, a failed batch leaves nothing of itself, and no content disappears.
Batches and edits are interchangeable (`SYMMETRY`), which is sound here because
the run checks no liveness.

**`batch_refines`**: the same without crashes and failed rollbacks (every other
I/O call may fail), and with fairness. With the backups read as the files they will be again,
`PlanTransaction` is a compare-and-swap of all files in one step, and every
batch is decided.

**`config`**: four uses of `aiyoke.yaml`. (1) Three processes, each with any one
of the operations, over a configuration of any kind the migrations distinguish,
while another program replaces the configuration, or spoils a backup, once. Three
processes allow a backup that is made by one, found by the second, and restored
by the third. (2) Every command line of two words or options, and those commands
that write with two of the options that change what they do; and a dialogue of
three questions during which somebody else writes the file once. (3) Projects of
ten possible files, two of which differ in case only, with five of the built-in
extensions, one file changing at any moment of the listing or the reading. Two
changes would be an earlier project and one change for all that one extension
reads. (4) Four configurations that between them use every alternative of the
schema, each limit at its lowest or at its highest, damaged in up to two places;
the second defect is what hides, or is hidden by, the first. (The processes are
interchangeable; no liveness is checked.)

**`compiler`**: every text of up to three tokens from an alphabet of seven
(with both markers: up to four), as the managed file, and combinations of texts
of two files; eight specifications, among them both kinds of line break, a
user-owned file, two renderers that agree and two that do not, an artifact that
contains a marker, one at the path of the lock file, two modules that define the
same, targets that do not verify; and one edit at any time of a plan, an
application or a check. Offsets go wrong at the ends and next to the markers, and
three or four tokens put every token there.

**`extensions`**: packages of two files in two versions, of which any file may be
replaced by the other version, and that be taken back, at any moment of two
discoveries in one process; trust stores and manifests that depart from the
good ones in one point each; a child that sends one message too many; four extensions in a diamond, or with a cycle and a
conflict, registered in any order, and two overlapping calls; and every fixture
of the kit.

**`harness`**: three requests, two of them a batch with a common signal that may
fire, over one slot, three routes (one without an adapter), two attempts, a
breaker that opens after two failures. One slot makes requests wait for each
other, and two waiters are what it takes for an order and for an abort that takes
one out of the queue. `ImplementsGate` and `ImplementsBoundedSlots` are the
interesting ones: `execute` returns in a dozen places, and on each of them the
gate sees exactly what its own specification asks of its users, and keeps, in
turn, what a concurrency limit promises.

**`runtimes`**: two requests with two callers, one of whom may cancel or expire,
over one slot, with a fallback, two attempts, a breaker that opens after one
failure, a cache, and an adapter that answers, is rate-limited, refuses or never
comes back. The three runtimes are three sets of initial states of one run, and
every property is stated of all of them.

**`modules`**: a tool call; an evaluation of four cases, three of which are
sampled, two at a time; a provider call with bodies of up to one byte over a limit
of two; a request at each of the twelve frameworks; in five languages. Where a
language departs from the others, the property names the language and the case:
section 6 has the lines.

## 4. Fairness

* `PlanTransaction.FairSpec`: a process that has not died goes on running
  (`WF_vars(Run(t))`): the code awaits nothing but I/O calls, and each returns
  or fails. Nothing is assumed about editors, new plans or crashes.
* `ConcurrencyGate.FairSpec`: whoever is inside leaves (`WF_vars(Release(r))`).
  This is an assumption about the user of the gate, and `harness` shows that
  `execute` keeps it (`ImplementsGate` is `Gate!FairSpec`).
* `HarnessRuntime.FairSpec`: `WF_vars(Proceed(r))`, that is, what `execute` does
  on its own goes on. In `calling` this holds by the deadline, not by the
  adapter: `Reply` is not in `Proceed`. The guards, the approval, the cache, the
  sinks of events and records and the validators are assumed to answer, because
  `execute` awaits them without a deadline. If one of them never does, the slot
  is kept forever; that is how the code is.
* `RuntimeContract.FairSpec`: the same for Python, Go and Rust. Adapters need not
  answer, except that one in Python, which is awaited by its request, stops when
  it is cancelled (`python.ts` has no other way to enforce a deadline). In Rust
  the poll of the gate (10 ms) is part of what goes on.
* `RuntimeModules.FairSpec`: calls, runs and handlers go on; approval ports, event
  sinks and the subjects of an evaluation answer (none of them has a deadline).
  Handlers of tools, providers and a runtime that was not told to stop need not.
* `Extensions.ExtensionFairSpec`: the host reads and decides, its timers fire, and
  the operating system ends a process that was sent SIGKILL; loaders settle. The
  child need do nothing and need not follow SIGTERM.
* `Configuration` and `Compiler` have safety properties only.

## 5. What is proved

The theorems hold for every value of the constants that the named assumptions
(`ASSUME`) allow: any number of files, batches, processes, requests, callers,
routes, texts and messages. TLC evaluates every assumption on the runs of its
module, and every property below that a run checks is the one the theorem names.

**`PlanTransaction_proofs`**

* `TypeCorrect`: `Spec => []TypeOK`. `TypeOK` is inductive; it includes that a
  batch deals with nothing but the files it writes.
* `StalePlansNeverWrite`: `Spec => []StalePlanNeverWrites`, with any interference
  by editors and other batches, any failures and any crash. The inductive
  invariant is `UnwrittenInv`: a batch that is still before its commit phase, or
  has reported a conflict, has its content in no file and no backup; a conflict
  can be reported only from before that phase. It needs no assumption about the
  environment because it is about what the batch has done, not about what the
  files hold.
* `WindowCorrect`: `Spec => []WindowInv`. While nobody else writes to the files
  in a commit window, every file of the batch is in one of three states
  (`Pristine`, `Moved`, `InPlace`), and which one is said by the commit records
  that the rollback reads. This is the reason why the rollback is right. The
  proof needs one lemma per direction: what a batch does to itself
  (`SecuredStep`) and what another one's steps outside any window cannot do
  (`SecuredFrame`), with `ExclusiveStep` for the window.
* `FailuresAreClean`: `~Interference => (Spec => []FailureIsClean)`. Not
  inductive: the invariant is `TracelessInv`. While a batch can still be rolled
  back, its content is only at the paths its commit records name and nobody holds
  it as a backup; once it has ended in failure nothing of it is left, neither at
  a target nor in a backup. It rests on `UnwrittenInv` and `WindowInv`.
* `ContentsSurvive`: `~Interference => (Spec => ContentSurvives)`: an action
  property, from `WindowInv`: a step destroys the last copy of a content only if
  it is that of an editor, the cleanup of a batch planned over that content and
  installed everywhere, or the rollback of the batch that wrote it. Crashes are
  included: a dead process loses nothing, it only leaves it in a `.rollback`
  file.
* `BatchesAreAtomic`: `Undisturbed => (Spec => Abstract!Atomic)`, the safety part of
  `ImplementsAtomicBatch`, where `Undisturbed` is the closed window, no death of a
  process and no failed rollback step; any other call may fail. `Restored` is what
  recovery would make of one file of the batch in the window, and each step of the
  batch leaves it as it is (`SameFiles`, `OpeningTheWindow`, `WithinTheWindow`,
  `ClosingTheWindow`) but the last rename, which replaces all of them at once
  (`InstallMaps`). Beside the invariants above it needs `DecidedInv`: the outcome
  of a batch agrees with its phase, and a rollback has no installed file without a
  record.

**`Configuration_proofs`**, for `ConfigurationSpec`, of which each behaviour is one of
the uses of `aiyoke.yaml`:

* `ConfigurationIsSound` (and `LifecycleIsSound` of the lifecycle alone):
  `LifecycleInv`, which is inductive as it stands because `WindowIsClosed` and
  `SavedBeforeReplaced` are parts of it. The lemmas on migrations (`MigratedUp`,
  `MigrationComposes`, `UpUndoesDown`, `PrintedMigrates`) say that a migration in
  several steps is the composition of them and that what a step down accepts comes
  back unchanged.
* `ConfigurationReplaces`: `ReplacedCanBeRestored` under `~Interference`, from that
  invariant. `Interference` is about the window between the comparison of the
  configuration and its replacement, which `init` does not have: nothing is kept
  from replacing the configuration while `init` detects.
* `OnlyWhatIsAskedIsDone`, `WhatIsConfirmedIsWritten`: the action properties of the
  command line, for arguments of any length and any questions. `parseArguments` is a
  loop that keeps the command, the options so far and whether it still expects a
  value; `Describes` says what these tell of the arguments read, and is kept by each
  argument, so that by induction what `Parsed` accepts is what a reader sees in the
  line. `CommandFacts` then relates each place in the program to it: the dialogue
  writes what it has shown or was told, and the file it compares with is the one it
  has shown.
* `DetectionIsSound`: `DetectionInv`, for any languages, frameworks and files, however
  these change. `DetectionFacts` relates what has been read to `held` and `kept`;
  `SelectedHasEvidence` and `EvidenceIsSelected` say that the sum of confidences that
  exceeds a threshold is made of evidence, and that evidence makes such a sum.

**`Compiler_proofs`**, for texts of any length and any number of files and
renderers:

* `CompilerIsSound` and `ApplySettles`: `CompilerInv` and `ApplyIsIdempotent`. The
  inductive invariant is their conjunction (`PlanInv`).
* `DeveloperTextIsKept`: the action property `DeveloperTextStays`.

What carries them is about single texts: `NormalizedTwice` (a normalized text is
normalized), `Frames`, `FrameFound` and `SameFrame` (the first marker of a text
with one section is where `indexOf` looks for it, before and after the merge),
`MergedTwice` (merging the same section again changes nothing) and `MergeKeeps`
(what is above and below stays, token by token). These are the offsets of
`mergeManagedSection`, where a slice that is off by one would show.

**`ConcurrencyGate_proofs`**. `GateIsSound` (`GateInv`), `ArrivalOrder`
(`FirstComeFirstServed`) and `GateBoundsSlots` (every step is one of `BoundedSlots`).
`GateInv` is inductive: the queue has whoever waits, once each, `active` counts who
is inside, and nobody waits before an idle slot. Taking an aborted request out of
the queue is a recursion over a sequence; `WithoutEffect` says what it does, by the
least position at which it would not. The requirements on the constants are the
hypothesis `GateParameters`, so that a module that instantiates the gate with its
own constants can use the theorems.

**`HarnessRuntime_proofs`** instantiates them (`GateFits`):

* `HarnessIsSound`: `HarnessInv`, which is inductive. Every path through `execute`
  is first shown to be one of a few kinds of move (`Moves`), and the invariant is
  preserved once by each kind.
* `AbortStopsCalls`, `ProbesDecide`: the action properties `AbortedIsNotCalled` and
  `ProbesAreDecided`.
* `UsesTheGate`: every step of `execute` is a step of the gate or leaves it alone;
  hence `ServedInOrder` (`FirstComeFirstServed`) and `LimitsConcurrency`
  (`BoundedSlots`), by the theorems of the gate.

**`RuntimeContract_proofs`**, for Python, Go and Rust:

* `RuntimesAgree`: `OutcomesAgree`; `CallsAreTold`: `CallsAreAccountedFor`;
  `SlotsAreBounded`: every step is one of `BoundedSlots`, the safety part of
  `ImplementsBoundedSlots`.
* The inductive invariant `ContractInv` (`ContractIsKept`) adds to these how far a
  request is on its routes (`Placed`), what its result says about its past
  (`Meant`), and which calls are under way (`CallsFit`): one that its request awaits
  may not have been told to stop, one that nobody awaits has been (`UntoldIsAwaited`),
  and a request in `calling` has one (`CallIsUnderWay`). In Python none is abandoned
  and each request has one at most, from which the bound on calls follows.
* The actions of the three runtimes are cases of a few steps stated in the terms of
  `PortableRuntime` (`Elsewhere`, `GoesOn`, `Ends`, `Passes`), each of which preserves
  the invariant: what the three have in common is proved once.

**`Extensions_proofs`**

* `TypeCorrect`, `StoppedWhenResolved`, `FirstResultDecides`: the isolation of a
  renderer, for any number of messages. The inductive invariant adds to the type
  invariant why the host may answer (`Shutdown`): the fallback timer is armed alone
  only after the kill, and the linger timer only after an exit.
* `RenderingIsIsolation`: composed with the verification of the package and with a
  publisher who replaces its files, a rendering still behaves as `RendererIsolation`
  does, so that the three hold there too (`RenderingIsSafe`).
* `PackagesAreSound`: `DiscoveryInv`, for packages of any number of files and
  versions, any number of discoveries and a publisher who replaces and restores what
  he likes. It has two exceptions, which are what the code does: files that were
  written between their last reading and their import, by this discovery or by the
  one that imported the module of this content; and files other than the entrypoint
  that the process has from a module of another content. A child has imported nothing
  before, so for it only the first remains. The inductive invariant `PackageInv` says
  at each stage what has been read and is still so or was replaced since
  (`ReadIsFresh`), where each imported file is from (`ImportIsFresh`), and the same of
  every module in the process (`ModulesAreFresh`).
* `LoadsOnce`: each extension is loaded once at most, however calls overlap.
* `RegistryIsSound`: `RegistryInv`, for any extensions, whatever they require and
  conflict with, and any overlapping calls. The two traversals of the graph carry it.
  That they have an end is an induction over the number of extensions that have not
  been met (`ValidateUnfolds`, `VisitUnfolds`; two traversals that agree as long as
  fewer than n are left agree for n, `ValidateAgrees`), from which the recursive
  functions are known to satisfy their equations. By the same induction
  `ValidateIsRight`: if nothing is thrown, what is visited requires only what is
  visited, and in any group of it is one that requires none of the group; hence a
  frozen registry has no cycle. And `VisitIsRight`: what is selected but not placed
  yet is waiting, each for another one that waits or for the one that is visited
  (`Straight`). Were something that an extension requires still waiting when the
  extension is placed, those that wait would be a group of which each requires another,
  which a sound graph has not (`RequiredIsPlaced`). So what is returned is in order;
  without the freezing it need not be, and then the property claims nothing.
  `Composed`, the inductive invariant, keeps this for every call from `resolve` on,
  while others register, load and fail.
* `KitIsSound`: `PassedMeansCompatible`.

**`RuntimeModules_proofs`**, for the modules of all five languages and every handler,
with suites of any number of cases and any limits:

* `EveryToolCallIsContracted` (`ToolContract`), `EveryReportIsTrue` (`ReportIsTrue`),
  `EveryProviderCallIsContracted` (`ProviderContract`), `EveryReplyTellsItsOutcome`
  (`ReplyTellsOutcome`), and the action property `CancellationStartsNothing`
  (`CancelStartsNothing`).
* `ModulesInv`, the inductive invariant (`ModulesAreInvariant`), has one part per kind
  of call. `ToolInv` says at each place of a call what the sink has been told, whether
  the approval was asked for and whether the handler may run; `EvaluationInv` that the
  cases are in the queue, at a worker, or in the results, once each; `ProviderInv` that
  what is judged is what was received within the limit.
* The actions of each language are shown to be cases of a few steps that do not name a
  language, and the invariant is preserved once by each of these.

What is not proved, and why:

* Liveness (`Terminates`, `ImplementsGate`, `ExecutionEnds`, `NothingIsLeftBehind`,
  `EveryUseEnds`, and the fairness of the three abstract specifications): the prover
  has no support for fairness.
* `DocumentInv`. It says that a document from which a defect was made is refused, and
  compares, over the alternatives of the schema, the delays that five languages compute:
  it is a statement about the documents in `Drafts`, which are given, and about powers
  and roundings of numbers from a range, for which the provers have no decision
  procedure. TLC evaluates it on every draft, every damage and every limit.
* Properties of the four runs that end in a counterexample (section 6): they are false.

## 6. Where the code and its documentation differ

Four of these have a run that ends in a counterexample.

* **`batch_crash`** (`CrashLeavesNoPartialPlan`). "Writes are safe, atomic, and
  idempotent" (`docs/adr/0002-canonical-source-and-deterministic-artifacts.md:17`).
  `writeBatchAtomic` replaces one file after the other, and each by two renames.
  If the process dies in between, some files are new and some old, one may be
  missing with its content in a `.rollback` file, and no later run repairs this.
  `ContentSurvives` shows that nothing is lost for good.
* **`config_lost_change`** (`ChangedMeanwhileIsKept`). "The safety check
  intentionally prevents replacement" of a configuration that another process
  edited (`docs/troubleshooting.md:49`). `#assertConfigUnchanged` and the rename
  are two steps, and a write between them is replaced and saved nowhere.
* **`policy_options`** (`NativeOptionsCompile`). The policy is "compiled into an
  importable native `policy.*` options module" (`docs/compatibility.md:50`).
  `policy.rs` and `policy.go` print a number that is whole without a decimal
  point where a floating-point number is declared (`policy.ts:154`, `:205`), so
  that a jitter of 0, which is what disabled retries have, or a budget of 2
  dollars is not accepted by the compiler of either language.
* **`harness_lost_probe`** (`NoLostProbe`). A half-open breaker admits
  `halfOpenMaxAttempts` probes (`docs/configuration.md:137`), and a probe reports
  back only by `success()` or by a *retryable* failure. One that is cancelled,
  fails for good, cannot be repaired, or is refused by a guard or the cost
  budget does not. The breaker stays half-open with its probes used up, and since
  only an open breaker looks at the clock, the route answers `circuit-open` until
  the process ends. All languages do the same. `ProbesAreDecided` states which
  probes do report back.

The rest was met while modelling and has no run of its own.

Files and configuration:

* An edit between the re-read of a file in `writeBatchAtomic` (`:187`) and its
  rename is moved to the backup, which the cleanup deletes: it is lost although
  `apply` "rejects conflicts/stale state" (`docs/cli.md:68`). This is
  `Interference`.
* Two processes that apply plans at the same time may both re-read before either
  renames. Both succeed, and the files are a mixture.
* `initialize` looks whether there is a configuration (`engine.ts:151`), detects
  languages and frameworks, and then writes (`:194`): a configuration that appears
  meanwhile is replaced, and saved nowhere, although "if a configuration exists, the
  command makes no change unless `--force`" (`docs/cli.md:32`). `Initialize` of
  `ConfigLifecycle` looks and writes in steps of their own, in every run.
* A merge drops the line break after the end marker and writes its own, although
  "replacing a bounded managed section changes only bytes between its markers"
  (`docs/release-readiness.md:56`). `DeveloperTextStays` states what does hold.
* A generated file that differs from what would be generated in its line breaks
  only is planned `unchanged` (`compiler.ts:446`), so changing
  `generation.lineEndings` does not change existing files, although "fully
  generated text uses the selected separator" (`docs/configuration.md:369`).
* Generation paths outside the project and packs or targets given twice are
  reported only when everything else is right, although "generation [...] and
  pack-list defects" are said to be reported "in one pass" (`docs/cli.md:6`);
  `ReportTellsTheDefects` leaves these out. An issue in a project with a space in
  its id points to the section, not to the id.
* Detection reads, of two paths that differ in case only, the one that sorts
  first, and of a language only the `package.json` at the root; of several
  patterns of a framework that match, the first one counts.

Command line:

* `aiyoke --help apply` and `init --help apply` run the last word, although
  `--help` "prints usage" (`docs/cli.md:18`); `AskedFor` says so.
* `config --interactive` asks for confirmation before the result is validated as a
  whole; `docs/cli.md:50` has it the other way round. Nothing invalid is written
  either way.
* At the end of its input the dialogue leaves an `await` unsettled; the process
  exits with another code than a cancelled one. Nothing is written either way.

Extensions:

* `resolve` of a registry that is not frozen visits a cycle once and returns an
  order in which an extension precedes what it requires; `docs/api.md` says that
  cycles are rejected, which `freeze` does. Additional loaders of
  `createDefaultRegistry` are registered without the check that a language has one
  owner.
* `manifestDigest` does not cover `signature.keyId`, although a change of
  "publisher invalidates prior approval" (`docs/extensions.md`).
* A discovered module is kept by the process under a URL that names the digest that was
  verified (`node-signed-discovery.ts:233`). If a file was replaced between its last
  reading and its import, and then restored, every later discovery verifies the
  restored package and gets the other code. The files that the entrypoint imports have
  URLs without a digest, so that a later version of a package gets those of the
  earlier one. `docs/extensions.md` does not mention either; `LoadedIsVerified` does.
* The kit looks for canaries in the output of the first execution only.
* A child that has not received its whole request when its host dies waits for the
  rest (`node-renderer-isolation.ts:310`).

The TypeScript runtime:

* "An aborted request" is not to be "reported as provider failure"
  (`docs/runtime-harness-contract.md:62`). An abort that fires while
  `fallback-selected` is emitted ends as `provider` or `circuit-open` if the
  remaining routes have no adapter or an open circuit (`typescript.ts:474`), and one
  that makes a repair fail as `invalid-output`. `AbortedIsNotCalled` states what
  does hold.
* Whether the circuit is open is asked once per route, before its attempts
  (`typescript.ts:483`). Retries go on when the circuit has opened meanwhile, by
  their own failures or those of others.
* An answer to a call from before the circuit opened closes it without a probe
  (`typescript.ts:544`).
* A call that lost the race against its deadline goes on in the adapter while its
  slot is given away (`typescript.ts:666`): adapters that ignore their signal run
  more calls than `maxConcurrency`. So it is in Go and Rust; in Python, which waits
  for the adapter, the deadline is not kept instead.
* An adapter that reports a refusal (`guard-rejected`, `approval-required`,
  `budget-exhausted`) as retryable is called again on its own route, in every
  language: whether to retry is read from the failure, whether to fall back from its
  kind. `PolicyIsTerminal` says so.

The other runtimes:

* Python: a `CancelledError` at the emission of an event or at the approval leaves
  `execute` as an exception, without a record; one while an adapter is awaited
  becomes `cancelled` without `finish_failure`. `RecordAgrees` says what holds.
* Go: an expired deadline of the caller ends an attempt as a retryable timeout and
  counts against the circuit; `invoke` calls it `timeout`, the tool runner
  `cancelled`.
* Rust: requests that arrive later may overtake one that is polling the gate; a
  request whose token is set while a slot is free goes on and may be served from
  the cache.
* Jitter may take a delay over `maxDelayMs` in every language. TypeScript and
  JavaScript round half up, Python half to even, Go and Rust keep fractions of a
  millisecond; `BacksOff` allows for these.
* Go refuses an adapter for the empty route only, the others for any blank one.

Modules, providers and handlers:

* The handler of a tool is started, except in Python, even if its caller has
  already ended. What is returned on success is the value of the handler, not the
  validated one, in TypeScript, Python and Go. In Python a handler that cancels
  itself escapes without a last event.
* `RunEvaluation` of Go takes every case to its subject after a cancellation;
  `CancelStartsNothing` leaves it out. In Python a cancellation leaves the run
  without a report.
* An abort while the body of an answer is read is reported as a retryable failure
  of the provider (`providers/typescript.ts:229`, `go.ts:189`); a status that may
  pass is not tried again if its body is no JSON (`typescript.ts:246`); a body whose
  declared length is too large is neither read nor cancelled (`typescript.ts:111`);
  the thread of a cancelled call of Python goes on (`python.ts:36`). A JSON array is
  an empty success in TypeScript, JavaScript and Python and an invalid response in
  Go. The properties of `RuntimeModules` name each of these as an exception.
* A request that cannot be serialised (one with a cycle, for example) is a
  retryable `network_error` of the provider in TypeScript, JavaScript
  (`providers/typescript.ts:201`) and Python (`python.ts:183`), because that is done
  inside the `try` of the transport; Go refuses the same input for good
  (`go.ts:158`). A resolver of secrets that throws leaves `invoke` as an exception
  (`typescript.ts:183`). A body `null` is an empty success in Go, and Python leaves the
  answer with an error in its status open for the garbage collector (`python.ts:50`).
* The handlers of Express and Fastify abort the runtime on `close` of the request
  (`integrations/typescript.ts:54`, `:94`). In the versions of Node that the project
  asks for, that tells that the request was consumed. If its body is read after the
  handler listens, the call of a client who waits is cancelled; if it was read before,
  the going of the client is never heard. `ReplyTellsOutcome` and `GoneIsTold` name
  both as exceptions.
* The server of Go watches a connection only when the body of the request was read, so
  that a handler whose request factory leaves it does not hear of its client.
* A worker of Rust looks at the token (`modules/rust.ts:836`) and then calls its
  subject (`:852`): a cancellation in between does not stop that case.
* A probe of Python that raises leaves the task running, with its client perhaps
  still there (`integrations/python.ts:44`).
* `_execute` of Python reports `cancelled` whatever its task ended with once the
  client has gone, and leaves the task running if the handler is itself cancelled
  between two probes (`integrations/python.ts:55`). The handlers of Rust and Fiber
  do not link the runtime to the client.

## 7. What is not modelled

About half of every file under `runtimes/`, `modules/` and `providers/` is the text
of the tests that are generated beside the program, which no model stands for.

* *Path confinement and file modes* of `NodeWorkspace` (`safePath`,
  `assertInsideRoot`, `realpath` checks, `chmod`): checks of one path at a time,
  without interplay with the batch.
* *YAML syntax, spelling of names, wording of messages*: the parser is a library,
  and whether a name is well-formed is a pure function of its characters. A value
  is good, bad, blank or unsafe, as far as the validation distinguishes.
* *Rendering*: targets, languages, frameworks and packs return text. The compiler
  is checked for all kinds of artifacts they may return, and not for what they say.
* *`verifyArtifacts` of `shared/target.ts`*: no built-in target uses it.
* *Composition of several projects, runtime selection, runtime capabilities*: pure
  functions over the specification.
* *Requests and responses of providers* beyond status, length and the kind of body;
  headers and identifiers of the framework handlers; endpoint checks.
* *Token counting, cost, the number of repair attempts, what events and records
  contain*: in the runtimes an `await` of a sink is a point of interleaving where it
  matters; that the sink hears the outcome is a property of `ModuleCalls` and of
  `RuntimeContract`.
* *Schemas and scores* of tools and evaluations: a value is valid or not, a case
  passes or does not.
* *The JavaScript runtime* is generated from the TypeScript one, so that
  `HarnessRuntime` stands for both.
* *The death of the host* of an isolated renderer: see section 6.
* *Digests, canonical JSON, ordering of strings*: taken for injective, and total.
* *Scripts*: release and validation tooling.

## 8. Plan

Done, in the order of their importance: `AtomicBatch` and `PlanTransaction`;
`ConfigLifecycle`; `Compiler`; the gate, the breaker and `HarnessRuntime`;
`RendererIsolation`; then the Python, Go and Rust runtimes under one contract, their
modules, providers and handlers under another; the registry, signed discovery and the
compatibility kit with the isolation; the command line, detection, the validation of
configurations and the policy compiled from them; targets, `check` and `doctor`. The
invariants and action properties of all of these but one (`DocumentInv`) have proofs
(section 5), as have the safety parts of the refinements of `AtomicBatch` and
`BoundedSlots`.

Next, models: an abstract breaker that says which calls may open and close a
circuit, refined by the four runtimes; events of `execute` and their order.
