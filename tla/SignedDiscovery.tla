--------------------------- MODULE SignedDiscovery ---------------------------
(***************************************************************************)
(* verifySignedExtensionPackage and discoverSignedExtension                *)
(* (src/infrastructure/discovery/node-signed-discovery.ts) with            *)
(* verifySignedExtensionManifest                                           *)
(* (src/extension-sdk/signed-manifest.ts).  A package is a sequence of     *)
(* files, the first of which is its entrypoint.  While a host reads it,    *)
(* its publisher may replace it by another version, a file at a time, and  *)
(* take that back.  A host may discover a package again, in the same       *)
(* process, in which the module loader keeps what it has imported.         *)
(***************************************************************************)
EXTENDS Naturals, Sequences, FiniteSets

CONSTANTS
  FileCount,       \* the files of a package
  LastVersion,     \* a bound: the versions that are published
  Editions,        \* the manifests a publisher may sign for a version
  Trusts,          \* the trust stores, ExtensionTrustStore
  Good,            \* one of each that leads to trust, as <<edition, trust store>>; a
                   \* bound: no two versions depart from it
  MaxDiscoveries   \* a bound: the discoveries of a process

ASSUME DiscoveryAssumption == FileCount \in Nat \ {0} /\ LastVersion \in Nat \ {0} /\ MaxDiscoveries \in Nat \ {0}

VARIABLES
  package,   \* the version of each file on disk
  manifest,  \* the version of the manifest on disk
  edition,   \* of each version, its manifest but for the version
  renamed,   \* is the descriptor of every version another one?
  trust,     \* options.trust
  consent,   \* options.consent: Pending, Denied or the version that was granted
  stage,     \* where the discovery is
  attempt,   \* which one it is of this process
  claimed,   \* the manifest that was read
  snapshot,  \* the files of packageEntries so far
  hashed,    \* what contentDigest was computed of
  verdict,   \* "none", "verified", "loaded", "consent-required" or a rejection
  live,      \* the files of the module so far that is imported
  modules,   \* the modules of this process: the content in their URL, the files
             \* that were imported, and those that were late
  imports,   \* the other files of a package this process has imported, 0 if none
  late       \* the files of the module that were written between their last reading
             \* and their import

packageVars == <<package, manifest, edition, renamed>>
verifyVars == <<trust, consent, attempt, claimed, hashed>>
moduleVars == <<modules, imports>>
discoveryVars == <<packageVars, verifyVars, stage, snapshot, verdict, live, moduleVars, late>>

Pending == 0
Denied == LastVersion + 1
Files == 1 .. FileCount
Versions == 1 .. LastVersion
Content(v) == [i \in Files |-> v]
Descriptor(v) == IF renamed THEN v ELSE 1

BeginDiscovery ==
  /\ package = Content(1)
  /\ manifest = 1
  /\ edition \in [Versions -> Editions]
  /\ Cardinality({v \in Versions : edition[v] # Good[1]}) <= 1
  /\ renamed \in BOOLEAN
  /\ trust \in Trusts
  /\ consent \in 0 .. LastVersion + 1
  /\ stage = "idle"
  /\ attempt = 1
  /\ claimed = 0
  /\ snapshot = <<>>
  /\ hashed = <<>>
  /\ verdict = "none"
  /\ live = <<>>
  /\ modules = {}
  /\ imports = [i \in Files |-> 0]
  /\ late = {}

Conclude(v) ==
  /\ stage' = "done"
  /\ verdict' = v

\* The manifest is read and parsed.
ReadManifest ==
  /\ stage = "idle"
  /\ claimed' = manifest
  /\ IF edition[manifest].parses
     THEN stage' = "first" /\ UNCHANGED verdict
     ELSE Conclude("manifest-invalid")
  /\ UNCHANGED <<packageVars, trust, consent, attempt, hashed, snapshot, live, moduleVars, late>>

\* packageEntries: the next file; an unreadable, special or too large one, or a
\* tree with too many, ends it.
ReadFile ==
  /\ stage \in {"first", "second"}
  /\ Len(snapshot) < FileCount
  /\ \/ /\ snapshot' = Append(snapshot, package[Len(snapshot) + 1])
        /\ UNCHANGED <<stage, verdict>>
     \/ /\ Conclude("package-invalid")
        /\ UNCHANGED snapshot
  /\ UNCHANGED <<packageVars, verifyVars, live, moduleVars, late>>

\* Seeded fault: any root with the key will do, and a revoked key is no matter.
Verdict_AnyRoot(v, digest) ==
  IF digest # Content(v) THEN "content-digest-mismatch"
  ELSE IF v \in trust.revokedContents THEN "content-revoked"
  ELSE IF v \in trust.revokedManifests THEN "manifest-revoked"
  ELSE IF trust.roots[edition[v].key] = 0 THEN "key-untrusted"
  ELSE IF ~edition[v].signed THEN "signature-invalid"
  ELSE IF consent = Pending THEN "consent-required"
  ELSE IF consent = Denied THEN "consent-denied"
  ELSE IF consent # v THEN "consent-mismatch"
  ELSE "trusted"

\* verifySignedExtensionManifest.
Verdict(v, digest) ==
  IF digest # Content(v) THEN "content-digest-mismatch"
  ELSE IF v \in trust.revokedContents THEN "content-revoked"
  ELSE IF v \in trust.revokedManifests THEN "manifest-revoked"
  ELSE IF edition[v].key \in trust.revokedKeys THEN "key-revoked"
  ELSE IF trust.roots[edition[v].key] # 1 THEN "key-untrusted"
  ELSE IF ~edition[v].signed THEN "signature-invalid"
  ELSE IF consent = Pending THEN "consent-required"
  ELSE IF consent = Denied THEN "consent-denied"
  ELSE IF consent # v THEN "consent-mismatch"
  ELSE "trusted"

\* The manifest is judged with the digest of the first snapshot.
Verify ==
  /\ stage = "first"
  /\ Len(snapshot) = FileCount
  /\ hashed' = snapshot
  /\ IF Verdict(claimed, snapshot) = "trusted"
     THEN stage' = "second" /\ UNCHANGED verdict
     ELSE Conclude(Verdict(claimed, snapshot))
  /\ snapshot' = <<>>
  /\ UNCHANGED <<packageVars, trust, consent, attempt, claimed, live, moduleVars, late>>

\* The second snapshot must be the first; then the entrypoint is looked at, which
\* may fail.
Recheck ==
  /\ stage = "second"
  /\ Len(snapshot) = FileCount
  /\ \/ /\ snapshot = hashed
        /\ stage' = "verified"
        /\ verdict' = "verified"
     \/ Conclude("package-invalid")
  /\ UNCHANGED <<packageVars, verifyVars, snapshot, live, moduleVars, late>>

\* The module m is there already, whatever has been imported as it.
Reuse(m) ==
  /\ live' = m.files
  /\ late' = m.late
  /\ stage' = "imported"

\* Seeded fault: the URL of the module says nothing of its content.
Import_ByPath ==
  /\ stage = "verified"
  /\ IF modules # {}
     THEN Reuse(CHOOSE m \in modules : TRUE)
     ELSE stage' = "importing" /\ UNCHANGED <<live, late>>
  /\ UNCHANGED <<packageVars, verifyVars, snapshot, verdict, moduleVars>>

\* discoverSignedExtension imports the entrypoint; a module of the same URL, which
\* names the content, is there already.
Import ==
  /\ stage = "verified"
  /\ IF \E m \in modules : m.content = hashed
     THEN Reuse(CHOOSE m \in modules : m.content = hashed)
     ELSE stage' = "importing" /\ UNCHANGED <<live, late>>
  /\ UNCHANGED <<packageVars, verifyVars, snapshot, verdict, moduleVars>>

\* The module loader reads the entrypoint, and of the files that it imports, whose
\* URLs do not name the content, those it has not read yet.
ImportFile ==
  /\ stage = "importing"
  /\ Len(live) < FileCount
  /\ LET i == Len(live) + 1
         v == IF i = 1 \/ imports[i] = 0 THEN package[i] ELSE imports[i]
     IN /\ live' = Append(live, v)
        /\ imports' = IF i = 1 THEN imports ELSE [imports EXCEPT ![i] = v]
  /\ UNCHANGED <<packageVars, verifyVars, stage, snapshot, verdict, modules, late>>

\* The import is complete.
Evaluate ==
  /\ stage = "importing"
  /\ Len(live) = FileCount
  /\ modules' = modules \cup {[content |-> hashed, files |-> live, late |-> late]}
  /\ stage' = "imported"
  /\ UNCHANGED <<packageVars, verifyVars, snapshot, verdict, live, imports, late>>

\* The export must be a loader with the descriptor of the manifest.  An import
\* may also have failed.
Accept ==
  /\ stage = "imported"
  /\ \/ /\ Descriptor(live[1]) = Descriptor(claimed)
        /\ Conclude("loaded")
     \/ Conclude("module-invalid")
  /\ UNCHANGED <<packageVars, verifyVars, snapshot, live, moduleVars, late>>

\* The host discovers again, perhaps with the consent it was asked for or one to
\* the version that is published now.
Again ==
  /\ stage = "done"
  /\ attempt < MaxDiscoveries
  /\ attempt' = attempt + 1
  /\ stage' = "idle"
  /\ consent' \in {consent, manifest} \cup (IF verdict = "consent-required" THEN {claimed, Denied} ELSE {})
  /\ verdict' = "none"
  /\ snapshot' = <<>>
  /\ live' = <<>>
  /\ late' = {}
  /\ UNCHANGED <<packageVars, trust, claimed, hashed, moduleVars>>

\* Has the reading of file i that counts been, and its import not?
Settled(i) ==
  \/ stage \in {"second", "rehashing"} /\ i <= Len(snapshot)
  \/ stage \in {"verified", "importing"} /\ i > Len(live)

\* The publisher replaces a file, or the manifest, by that of another version.
PublishFile ==
  /\ \E i \in Files : \E v \in Versions \ {package[i]} :
       /\ package' = [package EXCEPT ![i] = v]
       /\ late' = IF Settled(i) THEN late \cup {i} ELSE late
  /\ UNCHANGED <<manifest, edition, renamed, verifyVars, stage, snapshot, verdict, live, moduleVars>>

PublishManifest ==
  /\ manifest' \in Versions \ {manifest}
  /\ UNCHANGED <<package, edition, renamed, verifyVars, stage, snapshot, verdict, live, moduleVars, late>>

Verifying == ReadManifest \/ ReadFile \/ Verify \/ Recheck
Loading == Import \/ ImportFile \/ Evaluate \/ Accept
=============================================================================
