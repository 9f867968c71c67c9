----------------------------- MODULE Extensions -----------------------------
(***************************************************************************)
(* The extension SDK at work.  A behaviour is one of its uses: a process   *)
(* discovers a signed package and loads it, or has its renderer run in a   *)
(* child process, while the publisher replaces the package; an application *)
(* composes a registry; or an extension is put to the compatibility kit.   *)
(***************************************************************************)
EXTENDS RendererIsolation, SignedDiscovery, ExtensionRegistry, CompatibilityKit

VARIABLE use  \* "load", "render", "compose" or "check"

isolationVars == vars
extensionVars == <<use, isolationVars, discoveryVars, registryVars, kitVars>>

\* The parts that a behaviour is not about stand still.
NoRendering ==
  /\ host = "before" /\ result = "none" /\ timers = {} /\ aborted = FALSE
  /\ child = "none" /\ signals = {} /\ channel = <<>> /\ exited = FALSE
NoDiscovery ==
  /\ package = Content(1) /\ manifest = 1 /\ edition = [v \in Versions |-> Good[1]]
  /\ renamed = FALSE /\ trust = Good[2] /\ consent = Pending
  /\ stage = "idle" /\ attempt = 1 /\ claimed = 0 /\ snapshot = <<>> /\ hashed = <<>> /\ verdict = "none"
  /\ live = <<>> /\ modules = {} /\ imports = [i \in Files |-> 0] /\ late = {}
NoRegistry ==
  /\ catalog = (CHOOSE c \in Catalogs : TRUE) /\ registered = {} /\ frozen = FALSE
  /\ memo = [e \in Ids |-> "none"] /\ loads = [e \in Ids |-> 0] /\ calls = [c \in Callers |-> NoCall]
NoKit ==
  /\ fixture = (CHOOSE f \in Fixtures : TRUE) /\ phase = "descriptor" /\ checks = [c \in Checks |-> "none"]
  /\ findings = {} /\ loaded = FALSE /\ outputs = {}

ExtensionInit ==
  \/ use = "load" /\ BeginDiscovery /\ NoRendering /\ NoRegistry /\ NoKit
  \/ use = "render" /\ BeginDiscovery /\ edition = [v \in Versions |-> Good[1]] /\ trust = Good[2]
     /\ Init /\ NoRegistry /\ NoKit
  \/ use = "compose" /\ BeginRegistry /\ NoRendering /\ NoDiscovery /\ NoKit
  \/ use = "check" /\ BeginKit /\ NoRendering /\ NoDiscovery /\ NoRegistry

-----------------------------------------------------------------------------
(* discoverSignedExtension. *)

\* A bound: after the last discovery of the process nothing is replaced any more,
\* and the manifest not during it.
PublishForLoading ==
  \/ PublishFile /\ (attempt < MaxDiscoveries \/ stage # "done")
  \/ PublishManifest /\ (attempt < MaxDiscoveries \/ stage = "idle")

Load ==
  /\ use = "load"
  /\ Verifying \/ Loading \/ Again \/ PublishForLoading
  /\ UNCHANGED <<use, isolationVars, registryVars, kitVars>>

-----------------------------------------------------------------------------
(* renderSignedExtensionIsolated. *)

others == <<use, registryVars, kitVars>>

VerifyForRendering ==
  /\ use = "render"
  /\ host = "before"
  /\ Verifying
  /\ UNCHANGED <<others, isolationVars>>

\* A bound: what is not read again is not replaced any more.
PublishForRendering ==
  /\ use = "render"
  /\ host \in {"before", "waiting"}
  /\ PublishFile \/ (stage = "idle" /\ PublishManifest)
  /\ UNCHANGED <<others, isolationVars>>

\* A rejection is returned as it is, and a verified package may still be of
\* another kind or its input too large.
RuleOut ==
  /\ use = "render"
  /\ stage \in {"done", "verified"}
  /\ Rule
  /\ UNCHANGED <<others, discoveryVars>>

SpawnVerified ==
  /\ use = "render"
  /\ stage = "verified"
  /\ Spawn
  /\ UNCHANGED <<others, discoveryVars>>

\* The child has the request and begins to hash the package again.
ReceiveRequest ==
  /\ use = "render"
  /\ Receive
  /\ stage' = "rehashing"
  /\ snapshot' = <<>>
  /\ late' = {}
  /\ UNCHANGED <<others, packageVars, verifyVars, verdict, live, moduleVars>>

Rehash ==
  /\ use = "render"
  /\ child = "rendering"
  /\ stage = "rehashing"
  /\ Len(snapshot) < FileCount
  /\ snapshot' = Append(snapshot, package[Len(snapshot) + 1])
  /\ UNCHANGED <<others, isolationVars, packageVars, verifyVars, stage, verdict, live, moduleVars, late>>

\* Seeded fault: the child trusts the digest of the host.
ImportInChild_Unhashed ==
  /\ use = "render"
  /\ child = "rendering"
  /\ stage = "rehashing"
  /\ stage' = "importing"
  /\ UNCHANGED <<others, isolationVars, packageVars, verifyVars, snapshot, verdict, live, moduleVars, late>>

\* The digest is that of the request, and the import begins.
ImportInChild ==
  /\ use = "render"
  /\ child = "rendering"
  /\ stage = "rehashing"
  /\ snapshot = hashed
  /\ stage' = "importing"
  /\ UNCHANGED <<others, isolationVars, packageVars, verifyVars, snapshot, verdict, live, moduleVars, late>>

\* A new process has imported nothing before.
ImportFileInChild ==
  /\ use = "render"
  /\ child = "rendering"
  /\ ImportFile
  /\ UNCHANGED <<others, isolationVars>>

\* The loader has the descriptor of the request, and its artifacts are valid; or
\* anything of this fails.
Render ==
  /\ use = "render"
  /\ Answer
  /\ channel' = Append(channel, "rendered") => Len(live) = FileCount /\ Descriptor(live[1]) = Descriptor(claimed)
  /\ UNCHANGED <<others, discoveryVars>>

\* What the child does besides, and the events of the host.
Isolate ==
  /\ use = "render"
  /\ Babble \/ Exit \/ OnMessage \/ OnDiagnostics \/ OnError \/ OnExit \/ Abort \/ Host
  /\ UNCHANGED <<others, discoveryVars>>

Rendering ==
  \/ VerifyForRendering \/ PublishForRendering \/ RuleOut \/ SpawnVerified \/ ReceiveRequest
  \/ Rehash \/ ImportInChild \/ ImportFileInChild \/ Render \/ Isolate

-----------------------------------------------------------------------------

Compose ==
  /\ use = "compose"
  /\ RegistryNext
  /\ UNCHANGED <<use, isolationVars, discoveryVars, kitVars>>

Check ==
  /\ use = "check"
  /\ KitNext
  /\ UNCHANGED <<use, isolationVars, discoveryVars, registryVars>>

ExtensionNext == Load \/ Rendering \/ Compose \/ Check

ExtensionSpec == ExtensionInit /\ [][ExtensionNext]_extensionVars

\* The host reads, decides and starts its child; its timers fire; the operating
\* system ends a process that was sent SIGKILL.  The renderer may hang, and need
\* not follow SIGTERM.
RenderingGoesOn ==
  \/ VerifyForRendering \/ RuleOut \/ SpawnVerified
  \/ /\ use = "render"
     /\ Host \/ ("SIGKILL" \in signals /\ Exit)
     /\ UNCHANGED <<others, discoveryVars>>

\* Loaders settle their promises, and a call hears of those it waits for.
Settling ==
  /\ use = "compose"
  /\ LoadEnds
  /\ UNCHANGED <<use, isolationVars, discoveryVars, kitVars>>
Answering(c) ==
  /\ use = "compose"
  /\ ResolveEnds(c)
  /\ UNCHANGED <<use, isolationVars, discoveryVars, kitVars>>

\* What is fair can happen only finitely often in one rendering.
ExtensionFairSpec ==
  /\ ExtensionSpec
  /\ WF_extensionVars(RenderingGoesOn)
  /\ WF_extensionVars(Settling)
  /\ \A c \in Callers : WF_extensionVars(Answering(c))

-----------------------------------------------------------------------------

\* The type invariant, of what is not in that of RendererIsolation.
ExtensionTypeOK ==
  /\ use \in {"load", "render", "compose", "check"}
  /\ package \in [Files -> Versions] /\ manifest \in Versions
  /\ stage \in {"idle", "first", "second", "verified", "rehashing", "importing", "imported", "done"}
  /\ attempt \in 1 .. MaxDiscoveries
  /\ Len(snapshot) <= FileCount /\ Len(live) <= FileCount
  /\ \A m \in modules : Len(m.files) = FileCount
  /\ registered \subseteq Ids
  /\ memo \in [Ids -> {"none", "loading", "loaded", "failed"}]
  /\ \A c \in Callers : calls[c].state \in {"idle", "loading", "resolved"}
  /\ phase \in {"descriptor", "registry", "execution", "comparison", "reported"}
  /\ checks \in [Checks -> {"none", "passed", "failed"}]

\* Nothing of a package is imported, in this process or in a child, and no child
\* is started for it, before its manifest was signed with the one key that is
\* trusted under its name, nothing of it is revoked, this very version was
\* consented to, and the whole package was read as that version.
ImportedIsTrusted ==
  live # <<>> \/ child # "none" \/ verdict \in {"verified", "loaded"} =>
    /\ hashed = Content(claimed)
    /\ consent = claimed
    /\ edition[claimed].parses /\ edition[claimed].signed
    /\ trust.roots[edition[claimed].key] = 1 /\ edition[claimed].key \notin trust.revokedKeys
    /\ claimed \notin trust.revokedContents \cup trust.revokedManifests

\* What is loaded is what was verified, file by file: but for files that were
\* replaced after their last reading, by this discovery or by the one that has
\* imported a module of the same content; and for files other than the entrypoint
\* that this process has, as they are, from a module of another content.
LoadedIsVerified ==
  use = "load" /\ verdict = "loaded" =>
    \A i \in Files :
      \/ live[i] = hashed[i]
      \/ i \in late
      \/ i # 1 /\ \E m \in modules : m.content # hashed /\ m.files[i] = live[i]

\* What a child renders with is what the host has verified, but for files that
\* were replaced after the child has hashed them.
RenderedIsVerified ==
  use = "render" /\ result = "rendered" => \A i \in Files : live[i] = hashed[i] \/ i \in late

\* A frozen registry has every extension that one in it requires, and none that
\* requires itself over others: in any group of them is one that requires none
\* of the group.
FrozenIsSound ==
  frozen =>
    /\ \A e \in registered : Range(catalog[e].requires) \subseteq registered
    /\ \A S \in SUBSET registered : S = {} \/ \E e \in S : Range(catalog[e].requires) \cap S = {}

\* "Lazy-load once": however many calls overlap, one promise is kept of each
\* extension.
LoadedOnce == \A e \in Ids : loads[e] <= 1

\* No call has an extension loaded that was not registered, whatever it requires.
OnlyRegisteredIsLoaded == \A e \in Ids : memo[e] # "none" => e \in registered

\* "deterministic dependency-first traversal; conflicts are rejected": what
\* resolve returns is what was asked for and all that it requires, once each, all
\* of it loaded, no two in conflict, and nothing before what it requires.
ResolvedInOrder ==
  \A c \in Callers : calls[c].state = "resolved" /\ calls[c].frozen =>
    LET order == calls[c].order
    IN /\ calls[c].roots \subseteq Range(order)
       /\ Cardinality(Range(order)) = Len(order)
       /\ ~Conflicting(Range(order))
       /\ \A i \in DOMAIN order :
            /\ memo[order[i]] = "loaded"
            /\ Range(catalog[order[i]].requires) \subseteq {order[j] : j \in 1 .. i - 1}

\* What matters to each kind of extension.
FaultsOf ==
  LET ofAll == {"files", "encoding", "size"}
  IN [language |-> ofAll \cup {"detection", "module"}, pack |-> ofAll \cup {"module"},
      target |-> ofAll \cup {"fixture", "artifact", "duplicate", "verification"},
      runtime |-> ofAll \cup {"fixture", "artifact", "duplicate"}]

\* An extension passes the kit if and only if everything the kit looks for in an
\* extension of its kind is so, and then no check of the report has failed.
PassedMeansCompatible ==
  phase = "reported" =>
    /\ findings = {} <=> /\ fixture.descriptor /\ fixture.graph /\ fixture.load = "good"
                         /\ fixture.throws = "never" /\ fixture.fault \notin FaultsOf[fixture.kind]
                         /\ fixture.equal /\ ~fixture.leaks
    /\ findings = {} <=> \A c \in Checks : Reported(c) = "passed"

\* Whatever the renderer does, the caller of renderSignedExtensionIsolated gets a
\* result, and its process ends.
RenderingIsAnswered == use = "render" ~> host = "resolved"
RendererEnds == child # "none" ~> child = "dead"

\* A call of get or resolve comes to its end.
ResolveIsAnswered == \A c \in Callers : calls[c].state = "loading" ~> calls[c].state # "loading"

\* The invariant of signed packages: what was verified is what is imported, loaded
\* and rendered with.
DiscoveryInv == ExtensionTypeOK /\ ImportedIsTrusted /\ LoadedIsVerified /\ RenderedIsVerified

\* The invariant of the registry.
RegistryInv == FrozenIsSound /\ LoadedOnce /\ OnlyRegisteredIsLoaded /\ ResolvedInOrder

\* Whatever a renderer or a loader does, its caller is answered and it is ended.
EveryUseEnds == RenderingIsAnswered /\ RendererEnds /\ ResolveIsAnswered
=============================================================================
