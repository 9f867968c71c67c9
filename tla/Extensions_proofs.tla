--------------------------- MODULE Extensions_proofs ---------------------------
(***************************************************************************)
(* Proofs about Extensions, for packages of any number of files and        *)
(* versions, any trust store, any registry, and any renderer.  The steps   *)
(* of a rendering are those of RendererIsolation, whose invariant comes    *)
(* first; what a discovery and its child know about the files on the disk  *)
(* while these are replaced is PackageInv; then come the traversals of the *)
(* graph of a registry, by induction over what they have not met, and its  *)
(* overlapping calls; what the kit keeps needs little.                     *)
(***************************************************************************)
EXTENDS Extensions, TLAPS, FiniteSetTheorems, SequenceTheorems, WellFoundedInduction

-----------------------------------------------------------------------------
(* Rendering: whatever the renderer does and in whatever order the host    *)
(* notices it, the result is settled once and the child is stopped before  *)
(* it is handed out.                                                       *)

\* How the shutdown gets to the end of ResolvedMeansStopped: the fallback timer
\* is alone only after the kill, and the linger timer comes only from an exit.
Shutdown ==
  /\ host = "before" => child = "none"
  /\ host = "settled" /\ timers = {"fallback"} => child = "dead" \/ "SIGKILL" \in signals
  /\ "linger" \in timers => child = "dead"

\* The inductive invariant.
IInv == TypeOK /\ Shutdown /\ ResolvedMeansStopped

\* What a child may write, and what finish may be called with.
Messages == {"rendered", "failed", "foreign"}
Results == {"none", "rejected", "rendered", "failed", "cancelled", "timeout", "protocol"}

\* It holds at the start.
LEMMA IInvInit == Init => IInv
<1> SUFFICES ASSUME Init PROVE IInv OBVIOUS
<1>1. channel \in Seq(Messages) /\ aborted \in BOOLEAN BY DEF Init
<1>2. exited \in BOOLEAN /\ ~exited BY Zenon DEF Init
<1>3. TypeOK BY <1>1, <1>2 DEF Init, TypeOK, Messages
<1>4. Shutdown /\ ResolvedMeansStopped BY DEF Init, Shutdown, ResolvedMeansStopped
<1> QED BY <1>3, <1>4 DEF IInv

\* Every handler that calls finish, the heart of the host, preserves it: the
\* result it passes is one of the protocol and it leaves the child alone unless
\* it has just seen it die.
LEMMA FinishPreserves ==
  ASSUME NEW r \in Results \ {"none"}, IInv, Finish(r),
         aborted' \in BOOLEAN, channel' \in Seq(Messages), exited' \in BOOLEAN, host # "before",
         \/ child' = child /\ exited' = exited
         \/ child' = "dead" /\ exited' = TRUE /\ host = "waiting"
  PROVE  IInv'
<1> USE DEF Messages, Results
<1>1. CASE host # "waiting"
  BY <1>1 DEF IInv, TypeOK, Shutdown, ResolvedMeansStopped, Finish
<1>2. CASE host = "waiting" /\ exited'
  <2>1. exited => child = "dead" BY DEF IInv, TypeOK
  <2>2. child' = "dead" BY <1>2, <2>1, Zenon
  <2>3. host' = "resolved" /\ result' = r /\ timers' = timers \ {"deadline"} /\ signals' = signals
    BY <1>2, Zenon DEF Finish
  <2>4. timers' = {} BY <1>2, <2>3 DEF IInv, TypeOK
  <2>5. /\ host' \in {"before", "waiting", "settled", "resolved"}
        /\ result' \in Results /\ signals' \subseteq {"SIGTERM", "SIGKILL"}
        /\ child' \in {"none", "starting", "rendering", "answered", "dead"}
        /\ result' = "none" <=> host' \in {"before", "waiting"}
        /\ timers' \in {{}, {"linger"}}
    BY <2>2, <2>3, <2>4 DEF IInv, TypeOK
  <2>6. host' # "before" /\ host' # "waiting" /\ host' # "settled" BY <2>3
  <2>7. TypeOK' BY <2>2, <2>5, <2>6, Zenon DEF TypeOK
  <2>8. Shutdown' /\ ResolvedMeansStopped' BY <2>2, <2>3, <2>4 DEF Shutdown, ResolvedMeansStopped
  <2> QED BY <2>7, <2>8 DEF IInv
<1>3. CASE host = "waiting" /\ ~exited'
  <2>1. child' = child BY <1>3, Zenon
  <2>2. /\ host' = "settled" /\ result' = r
        /\ timers' = (timers \ {"deadline"}) \cup {"fallback", "forceKill"}
        /\ signals' = signals \cup {"SIGTERM"}
    BY <1>3, Zenon DEF Finish
  <2>3. timers' = {"fallback", "forceKill"} BY <1>3, <2>2 DEF IInv, TypeOK
  <2>4. /\ result' \in Results /\ signals' \subseteq {"SIGTERM", "SIGKILL"}
        /\ child' \in {"none", "starting", "rendering", "answered", "dead"}
        /\ result' = "none" <=> host' \in {"before", "waiting"}
        /\ timers' \in {{"fallback", "forceKill"}, {"fallback"}, {"linger"}}
    BY <2>1, <2>2, <2>3 DEF IInv, TypeOK
  <2>5. host' \in {"before", "waiting", "settled", "resolved"}
        /\ host' # "before" /\ host' # "waiting" /\ host' # "resolved"
    BY <2>2
  <2>6. TypeOK' BY <1>3, <2>4, <2>5, Zenon DEF TypeOK
  <2>7. Shutdown' /\ ResolvedMeansStopped' BY <2>2, <2>3 DEF Shutdown, ResolvedMeansStopped
  <2> QED BY <2>6, <2>7 DEF IInv
<1> QED BY <1>1, <1>2, <1>3

\* Every step preserves it.
LEMMA IInvNext == IInv /\ [Next]_vars => IInv'
<1> SUFFICES ASSUME IInv, [Next]_vars PROVE IInv' OBVIOUS
<1> USE DEF IInv, TypeOK, Shutdown, ResolvedMeansStopped
<1>1. CASE Rule BY <1>1 DEF Rule
<1>2. CASE Spawn BY <1>2 DEF Spawn
<1>3. CASE Receive BY <1>3 DEF Receive
<1>4. CASE Answer BY <1>4 DEF Answer
<1>5. CASE Babble BY <1>5 DEF Babble
<1>6. CASE Exit BY <1>6 DEF Exit, Alive
<1>7. CASE OnMessage
  <2>1. channel' \in Seq(Messages) BY <1>7 DEF OnMessage, Messages
  <2>2. PICK r \in Results \ {"none"} : Finish(r)
    BY <1>7 DEF OnMessage, Results
  <2> QED BY <1>7, <2>1, <2>2, FinishPreserves DEF OnMessage
<1>8. CASE OnDiagnostics
  <2>1. Finish("protocol") /\ host # "before" BY <1>8 DEF OnDiagnostics, Alive
  <2> QED BY <1>8, <2>1, FinishPreserves DEF OnDiagnostics, Results, Messages
<1>9. CASE OnError
  <2>1. Finish("protocol") /\ host = "waiting" BY <1>9 DEF OnError
  <2> QED BY <1>9, <2>1, FinishPreserves DEF OnError, Results, Messages
<1>10. CASE OnExit
  <2>1. CASE host = "waiting"
    BY <1>10, <2>1, FinishPreserves DEF OnExit, Results, Messages
  <2>2. CASE host # "waiting"
    BY <1>10, <2>2 DEF OnExit
  <2> QED BY <2>1, <2>2
<1>11. CASE Abort
  <2>1. CASE host = "waiting"
    BY <1>11, <2>1, FinishPreserves DEF Abort, Results, Messages
  <2>2. CASE host # "waiting"
    BY <1>11, <2>2 DEF Abort
  <2> QED BY <2>1, <2>2
<1>12. CASE OnDeadline
  BY <1>12, FinishPreserves DEF OnDeadline, Results, Messages
<1>13. CASE OnForceKill BY <1>13 DEF OnForceKill
<1>14. CASE OnFallback BY <1>14 DEF OnFallback
<1>15. CASE OnLinger BY <1>15 DEF OnLinger
<1>16. CASE UNCHANGED vars BY <1>16 DEF vars
<1> QED
  BY <1>1, <1>2, <1>3, <1>4, <1>5, <1>6, <1>7, <1>8, <1>9, <1>10, <1>11, <1>12, <1>13, <1>14,
     <1>15, <1>16 DEF Next, Host

\* The invariant holds throughout.
LEMMA IInvAlways == Spec => []IInv
  BY IInvInit, IInvNext, PTL DEF Spec

\* The types and timers of every phase of runWorker, for any number of messages
\* the renderer writes to the channel.
THEOREM TypeCorrect == Spec => []TypeOK
<1>1. IInv => TypeOK BY DEF IInv
<1> QED BY <1>1, IInvAlways, PTL

\* When renderSignedExtensionIsolated returns, its child is gone or killed.
THEOREM StoppedWhenResolved == Spec => []ResolvedMeansStopped
<1>1. IInv => ResolvedMeansStopped BY DEF IInv
<1> QED BY <1>1, IInvAlways, PTL

\* The first call of finish decides: no later handler replaces the result.
THEOREM FirstResultDecides == Spec => FirstResultStays
<1>1. IInv /\ [Next]_vars => [result # "none" => result' = result]_vars
  <2> SUFFICES ASSUME IInv, Next, result # "none" PROVE result' = result BY DEF vars
  <2>1. host \in {"settled", "resolved"} BY DEF IInv, TypeOK
  <2>2. ASSUME NEW r, Finish(r) PROVE result' = result BY <2>1, <2>2 DEF Finish
  <2>3. CASE Rule \/ Spawn \/ Receive \/ Answer \/ Babble \/ Exit
    BY <2>1, <2>3 DEF Rule, Spawn, Receive, Answer, Babble, Exit
  <2>4. CASE OnMessage \/ OnDiagnostics \/ OnError \/ OnDeadline
    BY <2>2, <2>4 DEF OnMessage, OnDiagnostics, OnError, OnDeadline
  <2>5. CASE OnExit \/ Abort BY <2>1, <2>5 DEF OnExit, Abort
  <2>6. CASE OnForceKill \/ OnFallback \/ OnLinger BY <2>6 DEF OnForceKill, OnFallback, OnLinger
  <2> QED BY <2>3, <2>4, <2>5, <2>6 DEF Next, Host
<1> QED BY <1>1, IInvAlways, PTL DEF Spec, FirstResultStays

-----------------------------------------------------------------------------
(* Signed packages.                                                        *)

\* What ImportedIsTrusted asks for.
TrustedNow ==
  /\ hashed = Content(claimed)
  /\ consent = claimed
  /\ edition[claimed].parses /\ edition[claimed].signed
  /\ trust.roots[edition[claimed].key] = 1 /\ edition[claimed].key \notin trust.revokedKeys
  /\ claimed \notin trust.revokedContents \cup trust.revokedManifests

\* The types of a discovery.
DiscoveryTypes ==
  /\ use \in {"load", "render", "compose", "check"}
  /\ package \in [Files -> Versions] /\ manifest \in Versions
  /\ stage \in {"idle", "first", "second", "verified", "rehashing", "importing", "imported", "done"}
  /\ attempt \in 1 .. MaxDiscoveries
  /\ stage # "idle" => claimed \in Versions
  /\ snapshot \in Seq(Versions) /\ Len(snapshot) <= FileCount
  /\ hashed \in Seq(Versions)
  /\ live \in Seq(Versions) /\ Len(live) <= FileCount
  /\ imports \in [Files -> 0 .. LastVersion]
  /\ IsFiniteSet(modules)
  /\ \A m \in modules :
       m.content \in Seq(Versions) /\ Len(m.content) = FileCount
       /\ m.files \in Seq(Versions) /\ Len(m.files) = FileCount

\* What a discovery has at each of its stages, and where a child can be.
StageTells ==
  /\ stage = "idle" => snapshot = <<>>
  /\ stage = "first" => edition[claimed].parses
  /\ stage \in {"idle", "first", "second", "verified", "rehashing"} => live = <<>>
  /\ stage \in {"idle", "first", "second"} => verdict = "none"
  /\ stage \in {"verified", "rehashing", "importing", "imported"} => verdict = "verified"
  /\ stage = "done" => verdict # "verified"
  /\ stage = "imported" \/ verdict = "loaded" => Len(live) = FileCount
  /\ \/ stage \in {"second", "verified", "rehashing", "importing", "imported"}
     \/ stage = "done" /\ (live # <<>> \/ verdict = "loaded")
     => TrustedNow
  /\ use \notin {"load", "render"} => stage = "idle"
  /\ use = "load" => stage # "rehashing"
  /\ use # "load" => modules = {} /\ stage # "imported" /\ verdict # "loaded"
  /\ child # "none" => use = "render" /\ stage \in {"verified", "rehashing", "importing"}
  /\ child = "starting" => stage = "verified"

\* What has been read is still on the disk, or its replacement was noted.
ReadIsFresh ==
  /\ stage \in {"second", "rehashing"} =>
       \A i \in 1 .. Len(snapshot) : snapshot[i] = package[i] \/ i \in late
  /\ stage \in {"verified", "importing"} =>
       \A i \in Files : i > Len(live) => hashed[i] = package[i] \/ i \in late

\* The file i of a module of this process is v.
Kept(i, v) == \E m \in modules : m.files[i] = v

\* A module of another content has v for the file i, which is not the entrypoint.
KeptByOther(i, v, content) == i # 1 /\ \E m \in modules : m.content # content /\ m.files[i] = v

\* What an import has read so far is what was hashed, or it was replaced since,
\* or this process has it from another module.
ImportIsFresh ==
  /\ stage = "importing" =>
       /\ \A i \in 1 .. Len(live) : live[i] = hashed[i] \/ i \in late \/ (i # 1 /\ Kept(i, live[i]))
       /\ \A m \in modules : m.content # hashed
  /\ stage = "imported" \/ verdict = "loaded" =>
       \A i \in Files : live[i] = hashed[i] \/ i \in late \/ KeptByOther(i, live[i], hashed)
  /\ \A i \in Files :
       imports[i] # 0 => Kept(i, imports[i]) \/ (stage = "importing" /\ i <= Len(live) /\ live[i] = imports[i])

\* A module of this process is what its URL says, but for what was late when it was
\* imported and what there was from another one.
ModulesAreFresh ==
  \A m \in modules : \A i \in Files :
    m.files[i] = m.content[i] \/ i \in m.late \/ KeptByOther(i, m.files[i], m.content)

\* The host hears of a rendering from a child that has imported the package.
AnswersAreTrue ==
  /\ child \in {"none", "starting"} => channel = <<>> /\ result # "rendered"
  /\ result = "rendered" \/ (\E j \in 1 .. Len(channel) : channel[j] = "rendered") =>
       stage = "importing" /\ Len(live) = FileCount

\* The inductive invariant.
PackageInv ==
  DiscoveryTypes /\ StageTells /\ ReadIsFresh /\ ImportIsFresh /\ ModulesAreFresh /\ AnswersAreTrue

\* One more version has been read.
LEMMA OneMore ==
  ASSUME NEW s \in Seq(Versions), NEW v \in Versions
  PROVE  /\ Append(s, v) \in Seq(Versions) /\ Len(Append(s, v)) = Len(s) + 1 /\ Len(s) \in Nat
         /\ Append(s, v)[Len(s) + 1] = v
         /\ \A i \in 1 .. Len(s) : Append(s, v)[i] = s[i]
  BY AppendProperties

\* The files of a version.
LEMMA Contents ==
  ASSUME NEW v \in Versions
  PROVE  Content(v) \in Seq(Versions) /\ Len(Content(v)) = FileCount /\ \A i \in Files : Content(v)[i] = v
  BY DiscoveryAssumption DEF Content, Files

\* The judgement of a manifest.
LEMMA VerdictTells ==
  ASSUME NEW v, NEW d
  PROVE  /\ Verdict(v, d) \notin {"verified", "loaded", "none"}
         /\ Verdict(v, d) = "trusted" =>
              /\ d = Content(v) /\ consent = v
              /\ edition[v].signed
              /\ trust.roots[edition[v].key] = 1 /\ edition[v].key \notin trust.revokedKeys
              /\ v \notin trust.revokedContents \cup trust.revokedManifests
  BY DEF Verdict

\* Each step of a discovery keeps the invariant.  The manifest is read.
LEMMA ReadManifestKeeps ==
  ASSUME PackageInv, use \in {"load", "render"}, child = "none", ReadManifest, UNCHANGED <<use, isolationVars>>
  PROVE  PackageInv'
<1> USE DEF PackageInv
<1>1. /\ stage = "idle" /\ stage' \in {"first", "done"} /\ claimed' = manifest
      /\ verdict' \in {"none", "manifest-invalid"} /\ (stage' = "first" => verdict' = "none")
      /\ verdict = "none" /\ live = <<>> /\ snapshot = <<>> /\ Len(snapshot) = 0
      /\ stage' = "first" => edition[manifest].parses
  BY DEF ReadManifest, Conclude, StageTells
<1>2. UNCHANGED <<package, manifest, edition, renamed, trust, consent, attempt, hashed, snapshot, live, modules, imports, late>>
  BY DEF ReadManifest, packageVars, moduleVars
<1>3. UNCHANGED <<use, child, channel, result>>
  BY DEF isolationVars, vars
<1>4. DiscoveryTypes'
  BY <1>1, <1>2, <1>3 DEF DiscoveryTypes
<1>5. StageTells'
  BY <1>1, <1>2, <1>3 DEF StageTells
<1>6. ReadIsFresh' /\ ModulesAreFresh'
  <2>1. Len(snapshot') = 0
    BY <1>1, <1>2
  <2> QED
    BY <1>1, <1>2, <2>1 DEF ReadIsFresh, ModulesAreFresh, Files, KeptByOther
<1>7. ImportIsFresh' /\ AnswersAreTrue'
  BY <1>1, <1>2, <1>3 DEF ImportIsFresh, AnswersAreTrue, Kept, KeptByOther
<1> QED
  BY <1>4, <1>5, <1>6, <1>7

\* A file is read, the first or the second time.
LEMMA ReadFileKeeps ==
  ASSUME PackageInv, use \in {"load", "render"}, child = "none", ReadFile, UNCHANGED <<use, isolationVars>>
  PROVE  PackageInv'
<1> USE DEF PackageInv
<1>1. UNCHANGED <<package, manifest, edition, renamed, trust, consent, attempt, claimed, hashed, live, modules, imports, late>>
  BY DEF ReadFile, packageVars, verifyVars, moduleVars
<1>2. UNCHANGED <<use, child, channel, result>>
  BY DEF isolationVars, vars
<1>3. stage \in {"first", "second"} /\ live = <<>> /\ verdict = "none" /\ Len(snapshot) < FileCount
  BY DEF ReadFile, StageTells
<1>4. CASE stage' = "done"
  <2>1. verdict' = "package-invalid" /\ snapshot' = snapshot
    BY <1>3, <1>4 DEF ReadFile, Conclude
  <2>2. DiscoveryTypes'
    BY <1>1, <1>2, <1>3, <1>4, <2>1 DEF DiscoveryTypes
  <2>3. StageTells'
    BY <1>1, <1>2, <1>3, <1>4, <2>1 DEF StageTells
  <2>4. ReadIsFresh' /\ ImportIsFresh' /\ ModulesAreFresh' /\ AnswersAreTrue'
    BY <1>1, <1>2, <1>3, <1>4, <2>1 DEF ReadIsFresh, ImportIsFresh, ModulesAreFresh, AnswersAreTrue, Kept, KeptByOther
  <2> QED
    BY <2>2, <2>3, <2>4
<1>5. CASE stage' # "done"
  <2> DEFINE n == Len(snapshot) + 1
             v == package[n]
  <2>1. stage' = stage /\ verdict' = verdict /\ snapshot' = Append(snapshot, v)
    BY <1>5 DEF ReadFile, Conclude
  <2>2. n \in Files /\ v \in Versions /\ snapshot \in Seq(Versions) /\ Len(snapshot) \in Nat
    BY <1>3, DiscoveryAssumption DEF DiscoveryTypes, Files
  <2> HIDE DEF v
  <2>3. /\ snapshot' \in Seq(Versions) /\ Len(snapshot') = n /\ snapshot'[n] = v
        /\ \A i \in 1 .. Len(snapshot) : snapshot'[i] = snapshot[i]
    BY <2>1, <2>2, OneMore
  <2>4. \A i \in 1 .. Len(snapshot') : i = n \/ i \in 1 .. Len(snapshot)
    BY <2>2, <2>3
  <2>5. DiscoveryTypes'
    <3>1. Len(snapshot') <= FileCount
      BY <1>3, <2>2, <2>3, DiscoveryAssumption
    <3> QED
      BY <1>1, <1>2, <2>1, <2>3, <3>1 DEF DiscoveryTypes
  <2>6. StageTells'
    BY <1>1, <1>2, <1>3, <2>1 DEF StageTells, TrustedNow
  <2>7. ReadIsFresh'
    <3>1. \A i \in 1 .. Len(snapshot') : stage = "second" => snapshot'[i] = package[i] \/ i \in late
      BY <2>2, <2>3, <2>4 DEF ReadIsFresh, v
    <3> QED
      BY <1>1, <1>3, <2>1, <3>1 DEF ReadIsFresh
  <2>8. ModulesAreFresh'
    BY <1>1 DEF ModulesAreFresh, KeptByOther
  <2>9. ImportIsFresh' /\ AnswersAreTrue'
    BY <1>1, <1>2, <1>3, <2>1 DEF ImportIsFresh, AnswersAreTrue, Kept, KeptByOther
  <2> QED
    BY <2>5, <2>6, <2>7, <2>8, <2>9
<1> QED
  BY <1>4, <1>5

\* The first reading is judged.
LEMMA VerifyKeeps ==
  ASSUME PackageInv, use \in {"load", "render"}, child = "none", Verify, UNCHANGED <<use, isolationVars>>
  PROVE  PackageInv'
<1> USE DEF PackageInv
<1>1. UNCHANGED <<package, manifest, edition, renamed, trust, consent, attempt, claimed, live, modules, imports, late>>
  BY DEF Verify, packageVars, moduleVars
<1>2. UNCHANGED <<use, child, channel, result>>
  BY DEF isolationVars, vars
<1>3. /\ stage = "first" /\ live = <<>> /\ verdict = "none" /\ Len(snapshot) = FileCount
      /\ hashed' = snapshot /\ snapshot' = <<>> /\ stage' \in {"second", "done"}
      /\ stage' = "second" => verdict' = "none" /\ Verdict(claimed, snapshot) = "trusted"
      /\ stage' = "done" => verdict' \notin {"none", "verified", "loaded"}
  BY VerdictTells DEF Verify, StageTells, Conclude
<1>4. <<>> \in Seq(Versions) /\ Len(<<>>) = 0
  OBVIOUS
<1>5. DiscoveryTypes'
  BY <1>1, <1>2, <1>3, <1>4, DiscoveryAssumption DEF DiscoveryTypes
<1>6. stage' = "second" => TrustedNow'
  <2> SUFFICES ASSUME stage' = "second" PROVE TrustedNow'
    OBVIOUS
  <2>1. edition[claimed].parses
    BY <1>3 DEF StageTells
  <2>2. /\ snapshot = Content(claimed) /\ consent = claimed /\ edition[claimed].signed
        /\ trust.roots[edition[claimed].key] = 1 /\ edition[claimed].key \notin trust.revokedKeys
        /\ claimed \notin trust.revokedContents \cup trust.revokedManifests
    BY <1>3, VerdictTells, Zenon
  <2>3. Content(claimed)' = Content(claimed)
    BY <1>1 DEF Content
  <2> QED
    BY <1>1, <1>3, <2>1, <2>2, <2>3, Zenon DEF TrustedNow
<1>7. StageTells'
  BY <1>1, <1>2, <1>3, <1>6 DEF StageTells
<1>8. ReadIsFresh'
  BY <1>1, <1>3, <1>4 DEF ReadIsFresh, Files
<1>9. ModulesAreFresh'
  BY <1>1, <1>3, <1>4, DiscoveryAssumption DEF ModulesAreFresh, Files, KeptByOther
<1>10. ImportIsFresh' /\ AnswersAreTrue'
  BY <1>1, <1>2, <1>3 DEF ImportIsFresh, AnswersAreTrue, Kept, KeptByOther
<1> QED
  BY <1>5, <1>7, <1>8, <1>9, <1>10

\* The second reading is compared with the first.
LEMMA RecheckKeeps ==
  ASSUME PackageInv, use \in {"load", "render"}, child = "none", Recheck, UNCHANGED <<use, isolationVars>>
  PROVE  PackageInv'
<1> USE DEF PackageInv
<1>1. UNCHANGED <<package, manifest, edition, renamed, trust, consent, attempt, claimed, hashed, snapshot, live, modules, imports, late>>
  BY DEF Recheck, packageVars, verifyVars, moduleVars
<1>2. UNCHANGED <<use, child, channel, result>>
  BY DEF isolationVars, vars
<1>3. /\ stage = "second" /\ live = <<>> /\ Len(live) = 0 /\ Len(snapshot) = FileCount /\ verdict = "none"
      /\ \/ snapshot = hashed /\ stage' = "verified" /\ verdict' = "verified"
         \/ stage' = "done" /\ verdict' = "package-invalid"
  BY DEF Recheck, StageTells, Conclude
<1>4. DiscoveryTypes'
  BY <1>1, <1>2, <1>3 DEF DiscoveryTypes
<1>5. TrustedNow'
  BY <1>1, <1>3 DEF TrustedNow, Content, StageTells
<1>6. StageTells'
  BY <1>1, <1>2, <1>3, <1>5 DEF StageTells
<1>7. ReadIsFresh'
  BY <1>1, <1>3 DEF ReadIsFresh, Files
<1>8. ModulesAreFresh'
  BY <1>1, <1>3 DEF ModulesAreFresh, KeptByOther
<1>9. ImportIsFresh' /\ AnswersAreTrue'
  BY <1>1, <1>2, <1>3 DEF ImportIsFresh, AnswersAreTrue, Kept, KeptByOther
<1> QED
  BY <1>4, <1>6, <1>7, <1>8, <1>9

\* The import begins: of a module that this process has, or of the files.
LEMMA ImportKeeps ==
  ASSUME PackageInv, use = "load", child = "none", Import, UNCHANGED <<use, isolationVars>>
  PROVE  PackageInv'
<1> USE DEF PackageInv
<1>1. UNCHANGED <<package, manifest, edition, renamed, trust, consent, attempt, claimed, hashed, snapshot, verdict, modules, imports>>
  BY DEF Import, packageVars, verifyVars, moduleVars
<1>2. UNCHANGED <<use, child, channel, result>>
  BY DEF isolationVars, vars
<1>3. stage = "verified" /\ live = <<>> /\ verdict = "verified" /\ TrustedNow
  BY DEF Import, StageTells
<1>4. TrustedNow'
  BY <1>1, <1>3 DEF TrustedNow, Content
<1>5. CASE \E m \in modules : m.content = hashed
  <2> DEFINE m == CHOOSE m \in modules : m.content = hashed
  <2>1. m \in modules /\ m.content = hashed /\ live' = m.files /\ late' = m.late /\ stage' = "imported"
    BY <1>5 DEF Import, Reuse
  <2> HIDE DEF m
  <2>2. live' \in Seq(Versions) /\ Len(live') = FileCount
    BY <2>1 DEF DiscoveryTypes
  <2>3. DiscoveryTypes'
    <3>1. Len(live') <= FileCount
      BY <2>2, DiscoveryAssumption
    <3>2. stage' \in {"imported"} /\ stage # "idle"
      BY <1>3, <2>1
    <3> QED
      BY <1>1, <1>2, <2>2, <3>1, <3>2 DEF DiscoveryTypes
  <2>4. StageTells'
    BY <1>1, <1>2, <1>3, <1>4, <2>1, <2>2 DEF StageTells
  <2>5. \A i \in Files : live'[i] = hashed[i] \/ i \in late' \/ KeptByOther(i, live'[i], hashed)
    BY <2>1 DEF ModulesAreFresh
  <2>6. ReadIsFresh' /\ ModulesAreFresh' /\ AnswersAreTrue'
    BY <1>1, <1>2, <1>3, <2>1 DEF ReadIsFresh, ModulesAreFresh, AnswersAreTrue, KeptByOther
  <2>7. ImportIsFresh'
    BY <1>1, <1>3, <2>1, <2>5 DEF ImportIsFresh, Kept, KeptByOther
  <2> QED
    BY <2>3, <2>4, <2>6, <2>7
<1>6. CASE ~\E m \in modules : m.content = hashed
  <2>1. live' = live /\ late' = late /\ stage' = "importing" /\ Len(live) = 0
    BY <1>3, <1>6 DEF Import
  <2>2. DiscoveryTypes'
    BY <1>1, <1>2, <1>3, <2>1 DEF DiscoveryTypes
  <2>3. StageTells'
    BY <1>1, <1>2, <1>3, <1>4, <2>1 DEF StageTells
  <2>4. ReadIsFresh' /\ ModulesAreFresh' /\ AnswersAreTrue'
    BY <1>1, <1>2, <1>3, <2>1 DEF ReadIsFresh, ModulesAreFresh, AnswersAreTrue, KeptByOther
  <2>5. ImportIsFresh'
    BY <1>1, <1>3, <1>6, <2>1 DEF ImportIsFresh, Kept, KeptByOther
  <2> QED
    BY <2>2, <2>3, <2>4, <2>5
<1> QED
  BY <1>5, <1>6

\* The module loader reads a file, or has read it before.
LEMMA ImportFileKeeps ==
  ASSUME PackageInv, ImportFile, UNCHANGED <<use, isolationVars>>
  PROVE  PackageInv'
<1> USE DEF PackageInv
<1>1. UNCHANGED <<package, manifest, edition, renamed, trust, consent, attempt, claimed, hashed, stage, snapshot, verdict, modules, late>>
  BY DEF ImportFile, packageVars, verifyVars
<1>2. UNCHANGED <<use, child, channel, result>>
  BY DEF isolationVars, vars
<1>3. stage = "importing" /\ Len(live) < FileCount /\ verdict = "verified" /\ TrustedNow
  BY DEF ImportFile, StageTells
<1> DEFINE n == Len(live) + 1
           fresh == n = 1 \/ imports[n] = 0
           v == IF fresh THEN package[n] ELSE imports[n]
<1>4. live' = Append(live, v) /\ imports' = IF n = 1 THEN imports ELSE [imports EXCEPT ![n] = v]
  BY DEF ImportFile
<1>5. n \in Files /\ live \in Seq(Versions) /\ Len(live) \in Nat
  BY <1>3, DiscoveryAssumption DEF DiscoveryTypes, Files
<1>6. package[n] \in Versions /\ v \in Versions
  BY <1>5 DEF DiscoveryTypes, Versions
<1>7. v = package[n] \/ (n # 1 /\ Kept(n, v))
  <2>1. CASE fresh
    BY <2>1
  <2>2. CASE ~fresh
    <3>1. v = imports[n] /\ n # 1 /\ imports[n] # 0 /\ ~(n <= Len(live))
      BY <1>5, <2>2
    <3> QED
      BY <1>5, <3>1 DEF ImportIsFresh
  <2> QED
    BY <2>1, <2>2
<1> HIDE DEF v, fresh
<1>8. /\ live' \in Seq(Versions) /\ Len(live') = n /\ live'[n] = v
      /\ \A i \in 1 .. Len(live) : live'[i] = live[i]
  BY <1>4, <1>5, <1>6, OneMore
<1>9. \A i \in 1 .. Len(live') : i = n \/ i \in 1 .. Len(live)
  BY <1>5, <1>8
<1>10. Len(live') <= FileCount /\ live' # <<>>
  BY <1>3, <1>5, <1>8, DiscoveryAssumption
<1>11. /\ imports' \in [Files -> 0 .. LastVersion]
       /\ \A i \in Files : imports'[i] # 0 => imports'[i] = imports[i] \/ (i = n /\ imports'[i] = v)
  BY <1>4, <1>5, <1>6 DEF DiscoveryTypes, Versions
<1>12. DiscoveryTypes'
  BY <1>1, <1>2, <1>8, <1>10, <1>11 DEF DiscoveryTypes
<1>13. TrustedNow'
  BY <1>1, <1>3 DEF TrustedNow, Content
<1>14. StageTells'
  BY <1>1, <1>2, <1>3, <1>13 DEF StageTells
<1>15. ReadIsFresh'
  <2>1. \A i \in Files : i > Len(live') => i > Len(live)
    BY <1>5, <1>8 DEF Files
  <2> QED
    BY <1>1, <1>3, <2>1 DEF ReadIsFresh
<1>16. ImportIsFresh'
  <2>1. ASSUME NEW i \in 1 .. Len(live')
        PROVE  live'[i] = hashed[i] \/ i \in late \/ (i # 1 /\ Kept(i, live'[i]))
    <3>1. CASE i = n
      <4>1. package[n] = hashed[n] \/ n \in late
        BY <1>3, <1>5 DEF ReadIsFresh
      <4> QED
        BY <1>7, <1>8, <3>1, <4>1
    <3>2. CASE i \in 1 .. Len(live)
      BY <1>3, <1>8, <3>2 DEF ImportIsFresh
    <3> QED
      BY <1>9, <2>1, <3>1, <3>2
  <2>2. ASSUME NEW i \in Files, imports'[i] # 0
        PROVE  Kept(i, imports'[i]) \/ (i <= Len(live') /\ live'[i] = imports'[i])
    <3>1. CASE i = n /\ imports'[i] = v
      BY <1>5, <1>8, <3>1
    <3>2. CASE imports'[i] = imports[i]
      <4>1. i <= Len(live) => i \in 1 .. Len(live) /\ i <= Len(live')
        BY <1>5, <1>8 DEF Files
      <4> QED
        BY <1>8, <2>2, <3>2, <4>1 DEF ImportIsFresh
    <3> QED
      BY <1>11, <2>2, <3>1, <3>2
  <2>3. \A i \in 1 .. Len(live') : (Kept(i, live'[i]) => Kept(i, live[i])')
    BY <1>1 DEF Kept
  <2>4. \A i \in Files : (Kept(i, imports'[i]) => Kept(i, imports[i])')
    BY <1>1 DEF Kept
  <2> QED
    BY <1>1, <1>3, <2>1, <2>2, <2>3, <2>4 DEF ImportIsFresh
<1>17. ModulesAreFresh'
  BY <1>1, <1>3 DEF ModulesAreFresh, KeptByOther
<1>18. AnswersAreTrue'
  BY <1>1, <1>2, <1>3 DEF AnswersAreTrue
<1> QED
  BY <1>12, <1>14, <1>15, <1>16, <1>17, <1>18

\* All files are imported, and their module is kept under its URL.
LEMMA EvaluateKeeps ==
  ASSUME PackageInv, use = "load", child = "none", Evaluate, UNCHANGED <<use, isolationVars>>
  PROVE  PackageInv'
<1> USE DEF PackageInv
<1>1. UNCHANGED <<package, manifest, edition, renamed, trust, consent, attempt, claimed, hashed, snapshot, verdict, live, imports, late>>
  BY DEF Evaluate, packageVars, verifyVars
<1>2. UNCHANGED <<use, child, channel, result>>
  BY DEF isolationVars, vars
<1> DEFINE x == [content |-> hashed, files |-> live, late |-> late]
<1>3. /\ stage = "importing" /\ Len(live) = FileCount /\ verdict = "verified" /\ TrustedNow
      /\ modules' = modules \cup {x} /\ stage' = "imported"
  BY DEF Evaluate, StageTells
<1>4. x.content = hashed /\ x.files = live /\ x.late = late
  OBVIOUS
<1> HIDE DEF x
<1>5. hashed = Content(claimed) /\ claimed \in Versions /\ hashed \in Seq(Versions) /\ Len(hashed) = FileCount
  BY <1>3, Contents DEF TrustedNow, DiscoveryTypes
<1>6. IsFiniteSet(modules')
  BY <1>3, FS_AddElement DEF DiscoveryTypes
<1>7. \A m \in modules : m.content # hashed
  BY <1>3 DEF ImportIsFresh
<1>8. \A i \in Files : live[i] = hashed[i] \/ i \in late \/ KeptByOther(i, live[i], hashed)
  BY <1>3, <1>7 DEF ImportIsFresh, Files, Kept, KeptByOther
<1>9. \A i \in Files : \A w, c : KeptByOther(i, w, c) => i # 1 /\ \E m \in modules' : m.content # c /\ m.files[i] = w
  BY <1>3 DEF KeptByOther
<1>10. DiscoveryTypes'
  BY <1>1, <1>2, <1>3, <1>4, <1>5, <1>6 DEF DiscoveryTypes
<1>11. TrustedNow'
  BY <1>1, <1>3 DEF TrustedNow, Content
<1>12. StageTells'
  BY <1>1, <1>2, <1>3, <1>11 DEF StageTells
<1>13. ReadIsFresh' /\ AnswersAreTrue'
  <2>1. \A i \in Files : ~(i > Len(live))
    BY <1>3, DiscoveryAssumption DEF Files
  <2>2. ~(result = "rendered" \/ \E j \in 1 .. Len(channel) : channel[j] = "rendered")
    BY DEF AnswersAreTrue, DiscoveryTypes
  <2> QED
    BY <1>1, <1>2, <1>3, <2>1, <2>2 DEF ReadIsFresh, AnswersAreTrue
<1>14. ImportIsFresh'
  <2>1. \A i \in Files : live'[i] = hashed'[i] \/ i \in late' \/ KeptByOther(i, live[i], hashed)'
    <3>1. \A i \in Files : KeptByOther(i, live[i], hashed) => KeptByOther(i, live[i], hashed)'
      BY <1>1, <1>9 DEF KeptByOther
    <3> QED
      BY <1>1, <1>8, <3>1
  <2>2. \A i \in Files : imports'[i] # 0 => Kept(i, imports[i])'
    BY <1>1, <1>3, <1>4 DEF ImportIsFresh, Kept
  <2> QED
    BY <1>3, <2>1, <2>2 DEF ImportIsFresh
<1>15. ModulesAreFresh'
  <2> SUFFICES ASSUME NEW m \in modules', NEW i \in Files
               PROVE  \/ m.files[i] = m.content[i]
                      \/ i \in m.late
                      \/ i # 1 /\ \E k \in modules' : k.content # m.content /\ k.files[i] = m.files[i]
    BY DEF ModulesAreFresh, KeptByOther
  <2>1. CASE m = x
    BY <1>4, <1>8, <1>9, <2>1
  <2>2. CASE m \in modules
    BY <1>9, <2>2 DEF ModulesAreFresh
  <2> QED
    BY <1>3, <2>1, <2>2
<1> QED
  BY <1>10, <1>12, <1>13, <1>14, <1>15

\* The descriptor of what was imported is compared with that of the manifest.
LEMMA AcceptKeeps ==
  ASSUME PackageInv, use = "load", child = "none", Accept, UNCHANGED <<use, isolationVars>>
  PROVE  PackageInv'
<1> USE DEF PackageInv
<1>1. UNCHANGED <<package, manifest, edition, renamed, trust, consent, attempt, claimed, hashed, snapshot, live, modules, imports, late>>
  BY DEF Accept, packageVars, verifyVars, moduleVars
<1>2. UNCHANGED <<use, child, channel, result>>
  BY DEF isolationVars, vars
<1>3. /\ stage = "imported" /\ Len(live) = FileCount /\ TrustedNow
      /\ stage' = "done" /\ verdict' \in {"loaded", "module-invalid"}
  BY DEF Accept, StageTells, Conclude
<1>4. TrustedNow'
  BY <1>1, <1>3 DEF TrustedNow, Content
<1>5. DiscoveryTypes'
  BY <1>1, <1>2, <1>3 DEF DiscoveryTypes
<1>6. StageTells'
  BY <1>1, <1>2, <1>3, <1>4 DEF StageTells
<1>7. ReadIsFresh' /\ ModulesAreFresh' /\ AnswersAreTrue'
  BY <1>1, <1>2, <1>3 DEF ReadIsFresh, ModulesAreFresh, AnswersAreTrue, KeptByOther
<1>8. ImportIsFresh'
  BY <1>1, <1>3 DEF ImportIsFresh, Kept, KeptByOther
<1> QED
  BY <1>5, <1>6, <1>7, <1>8

\* The host discovers the package again.
LEMMA AgainKeeps ==
  ASSUME PackageInv, use = "load", child = "none", Again, UNCHANGED <<use, isolationVars>>
  PROVE  PackageInv'
<1> USE DEF PackageInv
<1>1. UNCHANGED <<package, manifest, edition, renamed, trust, claimed, hashed, modules, imports>>
  BY DEF Again, packageVars, moduleVars
<1>2. UNCHANGED <<use, child, channel, result>>
  BY DEF isolationVars, vars
<1>3. /\ stage = "done" /\ attempt < MaxDiscoveries /\ attempt' = attempt + 1
      /\ stage' = "idle" /\ verdict' = "none" /\ snapshot' = <<>> /\ live' = <<>>
  BY DEF Again
<1>4. <<>> \in Seq(Versions) /\ Len(<<>>) = 0 /\ 0 <= FileCount
  BY DiscoveryAssumption
<1>5. attempt' \in 1 .. MaxDiscoveries
  BY <1>3, DiscoveryAssumption DEF DiscoveryTypes
<1>6. DiscoveryTypes'
  BY <1>1, <1>2, <1>3, <1>4, <1>5 DEF DiscoveryTypes
<1>7. StageTells'
  BY <1>1, <1>2, <1>3 DEF StageTells
<1>8. ReadIsFresh' /\ ModulesAreFresh' /\ AnswersAreTrue'
  BY <1>1, <1>2, <1>3 DEF ReadIsFresh, ModulesAreFresh, AnswersAreTrue, KeptByOther
<1>9. ImportIsFresh'
  BY <1>1, <1>3 DEF ImportIsFresh, Kept, KeptByOther
<1> QED
  BY <1>6, <1>7, <1>8, <1>9

\* The publisher replaces the manifest.
LEMMA PublishManifestKeeps ==
  ASSUME PackageInv, PublishManifest, UNCHANGED <<use, isolationVars>>
  PROVE  PackageInv'
<1> USE DEF PackageInv
<1>1. UNCHANGED <<package, edition, renamed, trust, consent, attempt, claimed, hashed, stage, snapshot, verdict, live, modules, imports, late>>
  BY DEF PublishManifest, verifyVars, moduleVars
<1>2. UNCHANGED <<use, child, channel, result>>
  BY DEF isolationVars, vars
<1>3. manifest' \in Versions
  BY DEF PublishManifest
<1>4. DiscoveryTypes'
  BY <1>1, <1>2, <1>3 DEF DiscoveryTypes
<1>5. TrustedNow => TrustedNow'
  BY <1>1 DEF TrustedNow, Content
<1>6. StageTells'
  BY <1>1, <1>2, <1>5 DEF StageTells
<1>7. ReadIsFresh' /\ ModulesAreFresh' /\ AnswersAreTrue' /\ ImportIsFresh'
  BY <1>1, <1>2 DEF ReadIsFresh, ModulesAreFresh, AnswersAreTrue, ImportIsFresh, Kept, KeptByOther
<1> QED
  BY <1>4, <1>6, <1>7

\* The publisher replaces a file.
LEMMA PublishFileKeeps ==
  ASSUME PackageInv, PublishFile, UNCHANGED <<use, isolationVars>>
  PROVE  PackageInv'
<1> USE DEF PackageInv
<1>1. UNCHANGED <<manifest, edition, renamed, trust, consent, attempt, claimed, hashed, stage, snapshot, verdict, live, modules, imports>>
  BY DEF PublishFile, verifyVars, moduleVars
<1>2. UNCHANGED <<use, child, channel, result>>
  BY DEF isolationVars, vars
<1>3. PICK k \in Files, v \in Versions :
        /\ package' = [package EXCEPT ![k] = v]
        /\ late' = IF Settled(k) THEN late \cup {k} ELSE late
  BY DEF PublishFile
<1>4. package' \in [Files -> Versions] /\ \A i \in Files : i # k => package'[i] = package[i]
  BY <1>3 DEF DiscoveryTypes
<1>5. \A i : i \in late => i \in late'
  BY <1>3
<1>6. \A i \in Files : Settled(i) => package'[i] = package[i] \/ i \in late'
  BY <1>3, <1>4
<1>7. DiscoveryTypes'
  BY <1>1, <1>2, <1>4 DEF DiscoveryTypes
<1>8. TrustedNow => TrustedNow'
  BY <1>1 DEF TrustedNow, Content
<1>9. StageTells'
  BY <1>1, <1>2, <1>8 DEF StageTells
<1>10. ReadIsFresh'
  <2>1. \A i \in 1 .. Len(snapshot) : i \in Files
    BY DiscoveryAssumption DEF DiscoveryTypes, Files
  <2>2. stage \in {"second", "rehashing"} =>
          \A i \in 1 .. Len(snapshot) : snapshot[i] = package'[i] \/ i \in late'
    BY <1>5, <1>6, <2>1 DEF ReadIsFresh, Settled
  <2>3. stage \in {"verified", "importing"} =>
          \A i \in Files : i > Len(live) => hashed[i] = package'[i] \/ i \in late'
    BY <1>5, <1>6 DEF ReadIsFresh, Settled
  <2> QED
    BY <1>1, <2>2, <2>3 DEF ReadIsFresh
<1>11. ImportIsFresh' /\ ModulesAreFresh'
  BY <1>1, <1>5 DEF ImportIsFresh, ModulesAreFresh, Kept, KeptByOther
<1>12. AnswersAreTrue'
  BY <1>1, <1>2 DEF AnswersAreTrue
<1> QED
  BY <1>7, <1>9, <1>10, <1>11, <1>12

\* The child gets its request and begins to hash the package.
LEMMA RequestKeeps ==
  ASSUME PackageInv, IInv, ReceiveRequest
  PROVE  PackageInv'
<1> USE DEF PackageInv
<1>1. UNCHANGED <<use, package, manifest, edition, renamed, trust, consent, attempt, claimed, hashed, verdict, live, modules, imports>>
  BY DEF ReceiveRequest, others, packageVars, verifyVars, moduleVars
<1>2. child = "starting" /\ child' = "rendering" /\ channel' = channel /\ result' = result
  BY DEF ReceiveRequest, Receive
<1>3. /\ use = "render" /\ stage = "verified" /\ stage' = "rehashing" /\ snapshot' = <<>>
      /\ live = <<>> /\ verdict = "verified" /\ TrustedNow
      /\ channel = <<>> /\ Len(channel) = 0 /\ result # "rendered"
  BY <1>2 DEF ReceiveRequest, StageTells, AnswersAreTrue
<1>4. <<>> \in Seq(Versions) /\ Len(<<>>) = 0 /\ 0 <= FileCount /\ Len(live) = 0
  BY <1>3, DiscoveryAssumption
<1>5. DiscoveryTypes'
  BY <1>1, <1>3, <1>4 DEF DiscoveryTypes
<1>6. TrustedNow'
  BY <1>1, <1>3 DEF TrustedNow, Content
<1>7. StageTells'
  BY <1>1, <1>2, <1>3, <1>6 DEF StageTells
<1>8. ReadIsFresh'
  BY <1>1, <1>3, <1>4 DEF ReadIsFresh
<1>9. ImportIsFresh'
  BY <1>1, <1>3 DEF ImportIsFresh, StageTells, Kept, KeptByOther
<1>10. ModulesAreFresh'
  BY <1>1, <1>3 DEF ModulesAreFresh, StageTells, KeptByOther
<1>11. AnswersAreTrue'
  BY <1>2, <1>3 DEF AnswersAreTrue
<1> QED
  BY <1>5, <1>7, <1>8, <1>9, <1>10, <1>11

\* It reads a file for its digest.
LEMMA RehashKeeps ==
  ASSUME PackageInv, Rehash
  PROVE  PackageInv'
<1> USE DEF PackageInv
<1>1. UNCHANGED <<use, package, manifest, edition, renamed, trust, consent, attempt, claimed, hashed, stage, verdict, live, modules, imports, late>>
  BY DEF Rehash, others, packageVars, verifyVars, moduleVars
<1>2. UNCHANGED <<child, channel, result>>
  BY DEF Rehash, isolationVars, vars
<1> DEFINE n == Len(snapshot) + 1
           v == package[n]
<1>3. /\ stage = "rehashing" /\ Len(snapshot) < FileCount /\ snapshot' = Append(snapshot, v)
      /\ modules = {} /\ use = "render"
  BY DEF Rehash, StageTells
<1>4. n \in Files /\ v \in Versions /\ snapshot \in Seq(Versions) /\ Len(snapshot) \in Nat
  BY <1>3, DiscoveryAssumption DEF DiscoveryTypes, Files
<1> HIDE DEF v
<1>5. /\ snapshot' \in Seq(Versions) /\ Len(snapshot') = n /\ snapshot'[n] = v
      /\ \A i \in 1 .. Len(snapshot) : snapshot'[i] = snapshot[i]
  BY <1>3, <1>4, OneMore
<1>6. \A i \in 1 .. Len(snapshot') : i = n \/ i \in 1 .. Len(snapshot)
  BY <1>4, <1>5
<1>7. Len(snapshot') <= FileCount
  BY <1>3, <1>4, <1>5, DiscoveryAssumption
<1>8. DiscoveryTypes'
  BY <1>1, <1>5, <1>7 DEF DiscoveryTypes
<1>9. TrustedNow => TrustedNow'
  BY <1>1 DEF TrustedNow, Content
<1>10. StageTells'
  BY <1>1, <1>2, <1>3, <1>9 DEF StageTells
<1>11. ReadIsFresh'
  <2>1. \A i \in 1 .. Len(snapshot') : snapshot'[i] = package[i] \/ i \in late
    BY <1>3, <1>5, <1>6 DEF ReadIsFresh, v
  <2> QED
    BY <1>1, <1>3, <2>1 DEF ReadIsFresh
<1>12. ImportIsFresh' /\ ModulesAreFresh' /\ AnswersAreTrue'
  BY <1>1, <1>2, <1>3 DEF ImportIsFresh, ModulesAreFresh, AnswersAreTrue, Kept, KeptByOther
<1> QED
  BY <1>8, <1>10, <1>11, <1>12

\* Its digest is that of the request, and it begins to import.
LEMMA ImportInChildKeeps ==
  ASSUME PackageInv, ImportInChild
  PROVE  PackageInv'
<1> USE DEF PackageInv
<1>1. UNCHANGED <<use, package, manifest, edition, renamed, trust, consent, attempt, claimed, hashed, snapshot, verdict, live, modules, imports, late>>
  BY DEF ImportInChild, others, packageVars, verifyVars, moduleVars
<1>2. UNCHANGED <<child, channel, result>>
  BY DEF ImportInChild, isolationVars, vars
<1>3. /\ stage = "rehashing" /\ stage' = "importing" /\ snapshot = hashed /\ TrustedNow
      /\ modules = {} /\ use = "render" /\ live = <<>> /\ Len(live) = 0 /\ verdict = "verified" /\ child = "rendering"
  BY DEF ImportInChild, StageTells
<1>4. Len(snapshot) = FileCount
  BY <1>3, Contents DEF TrustedNow, DiscoveryTypes
<1>5. DiscoveryTypes'
  BY <1>1, <1>3 DEF DiscoveryTypes
<1>6. TrustedNow'
  BY <1>1, <1>3 DEF TrustedNow, Content
<1>7. StageTells'
  BY <1>1, <1>2, <1>3, <1>6 DEF StageTells
<1>8. ReadIsFresh'
  BY <1>1, <1>3, <1>4 DEF ReadIsFresh, Files
<1>9. ImportIsFresh' /\ ModulesAreFresh'
  BY <1>1, <1>3 DEF ImportIsFresh, ModulesAreFresh, Kept, KeptByOther
<1>10. AnswersAreTrue'
  BY <1>1, <1>2, <1>3 DEF AnswersAreTrue
<1> QED
  BY <1>5, <1>7, <1>8, <1>9, <1>10

\* A step of the host or the child that leaves the discovery alone.
LEMMA IsolationKeeps ==
  ASSUME PackageInv, use = "render", UNCHANGED <<use, discoveryVars>>,
         \/ child' = child
         \/ child = "none" /\ child' = "starting" /\ stage = "verified"
         \/ child # "none" /\ child' \in {"answered", "dead"},
         AnswersAreTrue'
  PROVE  PackageInv'
<1> USE DEF PackageInv
<1>1. UNCHANGED <<package, manifest, edition, renamed, trust, consent, attempt, claimed, hashed, stage, snapshot, verdict, live, modules, imports, late>>
  BY DEF discoveryVars, packageVars, verifyVars, moduleVars
<1>2. DiscoveryTypes'
  BY <1>1 DEF DiscoveryTypes
<1>3. TrustedNow => TrustedNow'
  BY <1>1 DEF TrustedNow, Content
<1>4. StageTells'
  BY <1>1, <1>3 DEF StageTells
<1>5. ReadIsFresh' /\ ImportIsFresh' /\ ModulesAreFresh'
  BY <1>1 DEF ReadIsFresh, ImportIsFresh, ModulesAreFresh, Kept, KeptByOther
<1> QED
  BY <1>2, <1>4, <1>5

\* What finish does to the result.
LEMMA FinishTells == ASSUME NEW r, Finish(r) PROVE result' = result \/ result' = r
  BY DEF Finish

\* What the host hears stays true.
LEMMA AnswersStay ==
  ASSUME PackageInv, IInv, use = "render", UNCHANGED discoveryVars,
         \/ Rule \/ Spawn \/ Babble \/ Exit \/ OnMessage \/ OnDiagnostics \/ OnError \/ OnExit \/ Abort \/ Host
         \/ Answer /\ (channel' = Append(channel, "rendered") => Len(live) = FileCount)
  PROVE  AnswersAreTrue'
<1>1. /\ live' = live /\ stage' = stage
      /\ child \in {"none", "starting"} => channel = <<>> /\ result # "rendered"
      /\ result = "rendered" \/ (\E j \in 1 .. Len(channel) : channel[j] = "rendered") =>
           stage = "importing" /\ Len(live) = FileCount
      /\ channel \in Seq(Messages) /\ Len(channel) \in Nat
      /\ host = "before" => child = "none"
  BY DEF PackageInv, AnswersAreTrue, discoveryVars, IInv, TypeOK, Shutdown, Messages
<1>2. CASE Rule
  BY <1>1, <1>2 DEF Rule, AnswersAreTrue
<1>3. CASE Spawn
  BY <1>1, <1>3 DEF Spawn, AnswersAreTrue
<1>4. ASSUME child \notin {"none", "starting"}, child' = child \/ child' \in {"answered", "dead"}, result' = result,
             NEW m \in Messages, channel' = Append(channel, m),
             m = "rendered" => stage = "importing" /\ Len(live) = FileCount
      PROVE  AnswersAreTrue'
  <2>1. \A j \in 1 .. Len(channel') : (j \in 1 .. Len(channel) /\ channel'[j] = channel[j]) \/ channel'[j] = m
    BY <1>1, <1>4, AppendProperties
  <2> QED
    BY <1>1, <1>4, <2>1 DEF AnswersAreTrue
<1>5. CASE Answer /\ (channel' = Append(channel, "rendered") => Len(live) = FileCount)
  <2>1. child = "rendering" /\ child' = "answered" /\ result' = result
    BY <1>5 DEF Answer
  <2>2. CASE channel' = channel
    BY <1>1, <2>1, <2>2 DEF AnswersAreTrue
  <2>3. CASE channel' # channel
    <3>1. PICK m \in {"rendered", "failed"} : channel' = Append(channel, m)
      BY <1>5, <2>3 DEF Answer
    <3>2. m = "rendered" => stage = "importing" /\ Len(live) = FileCount
      <4>1. live = <<>> => Len(live) # FileCount
        BY DiscoveryAssumption
      <4> QED
        BY <1>5, <2>1, <3>1, <4>1 DEF PackageInv, StageTells
    <3> QED
      BY <1>4, <2>1, <3>1, <3>2 DEF Messages
  <2> QED
    BY <2>2, <2>3
<1>6. CASE Babble
  BY <1>4, <1>6 DEF Babble, Messages
<1>7. CASE Exit
  BY <1>1, <1>7 DEF Exit, Alive, AnswersAreTrue
<1>8. CASE OnMessage
  <2>1. channel # <<>> /\ channel' = Tail(channel) /\ child' = child
        /\ Finish(IF Head(channel) = "foreign" THEN "protocol" ELSE Head(channel))
    BY <1>8 DEF OnMessage
  <2>2. result' = "rendered" => result = "rendered" \/ channel[1] = "rendered"
    BY <1>1, <2>1, FinishTells
  <2>3. 1 \in 1 .. Len(channel)
    BY <1>1, <2>1
  <2>4. \A j \in 1 .. Len(channel') : channel'[j] = channel[j + 1] /\ j + 1 \in 1 .. Len(channel)
    BY <1>1, <2>1, HeadTailProperties
  <2> QED
    BY <1>1, <2>1, <2>2, <2>3, <2>4 DEF AnswersAreTrue
<1>9. ASSUME child' = child \/ child' = "dead", channel' = channel, result' = result \/ result' # "rendered"
      PROVE  AnswersAreTrue'
  BY <1>1, <1>9 DEF AnswersAreTrue
<1>10. CASE OnDiagnostics \/ OnError
  BY <1>9, <1>10, FinishTells DEF OnDiagnostics, OnError
<1>11. CASE OnExit \/ Abort
  BY <1>9, <1>11, FinishTells DEF OnExit, Abort
<1>12. CASE Host
  <2>1. CASE OnDeadline
    BY <1>9, <2>1, FinishTells DEF OnDeadline
  <2>2. CASE OnForceKill \/ OnFallback \/ OnLinger
    BY <1>9, <2>2 DEF OnForceKill, OnFallback, OnLinger
  <2> QED
    BY <1>12, <2>1, <2>2 DEF Host
<1> QED
  BY <1>2, <1>3, <1>5, <1>6, <1>7, <1>8, <1>10, <1>11, <1>12

\* A rendering goes on, and nothing else does.
LEMMA RenderingKeeps == ASSUME PackageInv, IInv, Rendering PROVE PackageInv' /\ [Next]_isolationVars
<1>1. host = "before" => child = "none"
  BY DEF IInv, Shutdown
<1>2. CASE VerifyForRendering
  <2>1. use = "render" /\ child = "none" /\ Verifying /\ UNCHANGED <<use, isolationVars>>
    BY <1>1, <1>2 DEF VerifyForRendering, others
  <2> QED
    BY <2>1, ReadManifestKeeps, ReadFileKeeps, VerifyKeeps, RecheckKeeps DEF Verifying
<1>3. CASE PublishForRendering
  <2>1. (PublishFile \/ PublishManifest) /\ UNCHANGED <<use, isolationVars>>
    BY <1>3 DEF PublishForRendering, others
  <2> QED
    BY <2>1, PublishFileKeeps, PublishManifestKeeps
<1>4. CASE ReceiveRequest
  BY <1>4, RequestKeeps DEF ReceiveRequest, Next
<1>5. CASE Rehash
  BY <1>5, RehashKeeps DEF Rehash
<1>6. CASE ImportInChild
  BY <1>6, ImportInChildKeeps DEF ImportInChild
<1>7. CASE ImportFileInChild
  <2>1. ImportFile /\ UNCHANGED <<use, isolationVars>>
    BY <1>7 DEF ImportFileInChild, others
  <2> QED
    BY <2>1, ImportFileKeeps
<1>8. CASE RuleOut
  <2>1. use = "render" /\ Rule /\ UNCHANGED <<use, discoveryVars>>
    BY <1>8 DEF RuleOut, others
  <2> QED
    BY <2>1, AnswersStay, IsolationKeeps DEF Rule, Next
<1>9. CASE SpawnVerified
  <2>1. use = "render" /\ Spawn /\ UNCHANGED <<use, discoveryVars>> /\ stage = "verified"
    BY <1>9 DEF SpawnVerified, others
  <2>2. child' = child \/ (child = "none" /\ child' = "starting")
    BY <1>1, <2>1 DEF Spawn
  <2> QED
    BY <2>1, <2>2, AnswersStay, IsolationKeeps DEF Next
<1>10. CASE Render
  <2>1. use = "render" /\ Answer /\ UNCHANGED <<use, discoveryVars>>
        /\ (channel' = Append(channel, "rendered") => Len(live) = FileCount)
    BY <1>10 DEF Render, others
  <2> QED
    BY <2>1, AnswersStay, IsolationKeeps DEF Answer, Next
<1>11. CASE Isolate
  <2>1. /\ use = "render" /\ UNCHANGED <<use, discoveryVars>>
        /\ Babble \/ Exit \/ OnMessage \/ OnDiagnostics \/ OnError \/ OnExit \/ Abort \/ Host
    BY <1>11 DEF Isolate, others
  <2>2. child' = child \/ (child # "none" /\ child' = "dead")
    BY <2>1 DEF Babble, Exit, Alive, OnMessage, OnDiagnostics, OnError, OnExit, Abort, Host, OnDeadline,
                OnForceKill, OnFallback, OnLinger
  <2> QED
    BY <2>1, <2>2, AnswersStay, IsolationKeeps DEF Next
<1> QED
  BY <1>2, <1>3, <1>4, <1>5, <1>6, <1>7, <1>8, <1>9, <1>10, <1>11 DEF Rendering

\* A process discovers a package and loads it.
LEMMA LoadKeeps == ASSUME PackageInv, Load PROVE PackageInv' /\ UNCHANGED isolationVars
<1>1. use = "load" /\ child = "none" /\ UNCHANGED <<use, isolationVars>>
  BY DEF Load, PackageInv, StageTells
<1>2. CASE Verifying
  BY <1>1, <1>2, ReadManifestKeeps, ReadFileKeeps, VerifyKeeps, RecheckKeeps DEF Verifying
<1>3. CASE Loading
  BY <1>1, <1>3, ImportKeeps, ImportFileKeeps, EvaluateKeeps, AcceptKeeps DEF Loading
<1>4. CASE Again \/ PublishForLoading
  BY <1>1, <1>4, AgainKeeps, PublishFileKeeps, PublishManifestKeeps DEF PublishForLoading
<1> QED
  BY <1>1, <1>2, <1>3, <1>4 DEF Load

\* The other uses leave it all alone.
LEMMA OthersKeep == ASSUME PackageInv, UNCHANGED <<use, isolationVars, discoveryVars>> PROVE PackageInv'
  BY DEF PackageInv, DiscoveryTypes, StageTells, TrustedNow, Content, ReadIsFresh, ImportIsFresh, ModulesAreFresh,
         AnswersAreTrue, isolationVars, vars, discoveryVars, packageVars, verifyVars, moduleVars, Kept, KeptByOther

-----------------------------------------------------------------------------
(* The registry: its promises.                                             *)

\* A call of get or resolve.
IsCall(x) == "state" \in DOMAIN x /\ x.state \in {"idle", "loading", "resolved"}

\* Every promise is one load.
RegistryTypes ==
  /\ registered \subseteq Ids
  /\ memo \in [Ids -> {"none", "loading", "loaded", "failed"}]
  /\ \A e \in Ids : loads[e] = IF memo[e] = "none" THEN 0 ELSE 1
  /\ DOMAIN calls = Callers /\ \A c \in Callers : IsCall(calls[c])

\* get keeps one promise of each loader that it calls.
LEMMA FetchKeeps ==
  ASSUME RegistryTypes, NEW c \in Callers, NEW call, IsCall(call), NEW order, Fetch(c, call, order),
         registered' = registered
  PROVE  RegistryTypes'
<1>1. PICK wanted, throwing :
        /\ \A e \in wanted : memo[e] = "none"
        /\ memo' = [e \in Ids |-> IF e \in wanted \ throwing THEN "loading" ELSE memo[e]]
        /\ loads' = [e \in Ids |-> IF e \in wanted \ throwing THEN loads[e] + 1 ELSE loads[e]]
        /\ calls' = [calls EXCEPT ![c] =
             IF throwing = {} THEN [call EXCEPT !.state = "loading", !.order = order] ELSE NoCall]
  BY DEF Fetch
<1>2. memo' \in [Ids -> {"none", "loading", "loaded", "failed"}]
  BY <1>1 DEF RegistryTypes
<1>3. \A e \in Ids : loads'[e] = IF memo'[e] = "none" THEN 0 ELSE 1
  BY <1>1 DEF RegistryTypes
<1>4. IsCall(IF throwing = {} THEN [call EXCEPT !.state = "loading", !.order = order] ELSE NoCall)
  <2>1. IsCall(NoCall)
    BY DEF IsCall, NoCall
  <2>2. IsCall([call EXCEPT !.state = "loading", !.order = order])
    BY DEF IsCall
  <2> QED
    BY <2>1, <2>2
<1>5. DOMAIN calls' = Callers /\ \A d \in Callers : IsCall(calls'[d])
  BY <1>1, <1>4 DEF RegistryTypes
<1> QED
  BY <1>2, <1>3, <1>5 DEF RegistryTypes

\* Every step of the registry keeps its types.
LEMMA RegistryKeeps == ASSUME RegistryTypes, RegistryNext PROVE RegistryTypes'
<1>1. IsCall(NoCall)
  BY DEF IsCall, NoCall
<1>2. ASSUME NEW e \in Ids, Register(e) PROVE RegistryTypes'
  BY <1>2 DEF Register, RegistryTypes
<1>3. CASE Freeze
  BY <1>3 DEF Freeze, RegistryTypes
<1>4. ASSUME NEW c \in Callers, Get(c) PROVE RegistryTypes'
  <2>1. PICK e \in registered : Fetch(c, [NoCall EXCEPT !.roots = {e}], <<e>>)
    BY <1>4 DEF Get
  <2>2. IsCall([NoCall EXCEPT !.roots = {e}])
    BY DEF IsCall, NoCall
  <2>3. registered' = registered
    BY <1>4 DEF Get
  <2> QED
    BY <2>1, <2>2, <2>3, FetchKeeps
<1>5. ASSUME NEW c \in Callers, Resolve(c) PROVE RegistryTypes'
  <2>1. PICK roots \in Wanted :
          \/ calls' = [calls EXCEPT ![c] = NoCall] /\ UNCHANGED <<memo, loads>>
          \/ Fetch(c, [NoCall EXCEPT !.roots = roots, !.frozen = frozen], Selection(roots).ordered)
    BY <1>5 DEF Resolve
  <2>2. IsCall([NoCall EXCEPT !.roots = roots, !.frozen = frozen])
    BY DEF IsCall, NoCall
  <2>3. registered' = registered
    BY <1>5 DEF Resolve
  <2>4. CASE calls' = [calls EXCEPT ![c] = NoCall] /\ UNCHANGED <<memo, loads>>
    BY <1>1, <2>3, <2>4 DEF RegistryTypes
  <2> QED
    BY <2>1, <2>2, <2>3, <2>4, FetchKeeps
<1>6. ASSUME NEW c \in Callers, ResolveEnds(c) PROVE RegistryTypes'
  <2>1. UNCHANGED <<registered, memo, loads>>
    BY <1>6 DEF ResolveEnds
  <2>2. calls' = [calls EXCEPT ![c] = NoCall] \/ calls' = [calls EXCEPT ![c] = [@ EXCEPT !.state = "resolved"]]
    BY <1>6 DEF ResolveEnds
  <2>3. IsCall([calls[c] EXCEPT !.state = "resolved"])
    BY DEF RegistryTypes, IsCall
  <2> QED
    BY <1>1, <2>1, <2>2, <2>3 DEF RegistryTypes
<1>7. CASE LoadEnds
  <2>1. PICK e \in Ids, how \in {"loaded", "failed"} : memo[e] = "loading" /\ memo' = [memo EXCEPT ![e] = how]
    BY <1>7 DEF LoadEnds
  <2>2. UNCHANGED <<registered, loads, calls>>
    BY <1>7 DEF LoadEnds
  <2> QED
    BY <2>1, <2>2 DEF RegistryTypes
<1> QED
  BY <1>2, <1>3, <1>4, <1>5, <1>6, <1>7 DEF RegistryNext

-----------------------------------------------------------------------------
(* The registry: what the traversals of the graph compute.                 *)

\* A set that contains 0, and with each number the next one, contains them all: there
\* is no least number outside.
LEMMA EveryNumber ==
  ASSUME NEW S, 0 \in S, \A n \in Nat : n \in S => n + 1 \in S
  PROVE  Nat \subseteq S
<1> SUFFICES ASSUME ~(Nat \subseteq S) PROVE FALSE
  OBVIOUS
<1> DEFINE R == OpToRel(<, Nat)
           T == {n \in Nat : n \notin S}
<1>1. IsWellFoundedOn(R, Nat)
  BY NatLessThanWellFounded
<1>2. \A a, b \in Nat : <<a, b>> \in R <=> a < b
  <2>1. R = {p \in Nat \X Nat : p[1] < p[2]}
    BY Zenon DEF OpToRel
  <2> HIDE DEF R
  <2> QED
    BY <2>1
<1> HIDE DEF R
<1>3. PICK m \in T : \A k \in T : <<k, m>> \notin R
  BY <1>1, WFMin
<1>4. m - 1 \in Nat /\ (m - 1) + 1 = m /\ m - 1 < m
  BY <1>3
<1> QED
  BY <1>2, <1>3, <1>4

\* f holds the state after each of the first n keys of a line.
Passing(visit, line, S, s, n, f) ==
  f = [i \in 0 .. n |-> IF i = 0 THEN s ELSE IF line[i] \in S THEN visit[line[i]][f[i - 1]] ELSE f[i - 1]]

\* One key after the other.
Follows(visit, line, S, s, f) ==
  /\ f[0] = s
  /\ \A i \in 1 .. Len(line) : f[i] = IF line[i] \in S THEN visit[line[i]][f[i - 1]] ELSE f[i - 1]

\* That is what the function does.
LEMMA PassingSteps ==
  ASSUME NEW visit, NEW line, Len(line) \in Nat, NEW S, NEW s, NEW f, Passing(visit, line, S, s, Len(line), f)
  PROVE  Follows(visit, line, S, s, f)
<1> DEFINE step(i) == IF line[i] \in S THEN visit[line[i]][f[i - 1]] ELSE f[i - 1]
           whole(i) == IF i = 0 THEN s ELSE step(i)
<1>1. f = [i \in 0 .. Len(line) |-> whole(i)]
  BY Zenon DEF Passing
<1> HIDE DEF whole
<1>2. \A i \in 0 .. Len(line) : f[i] = whole(i)
  BY <1>1
<1>3. 0 \in 0 .. Len(line) /\ \A i \in 1 .. Len(line) : i \in 0 .. Len(line) /\ i # 0
  OBVIOUS
<1>4. whole(0) = s /\ \A i \in 1 .. Len(line) : whole(i) = step(i)
  BY <1>3, Zenon DEF whole
<1> HIDE DEF step
<1>5. f[0] = s /\ \A i \in 1 .. Len(line) : f[i] = step(i)
  BY <1>2, <1>3, <1>4, Zenon
<1> QED
  BY <1>5, Zenon DEF step, Follows

\* A line can be followed to its end.
LEMMA ThroughUnfolds ==
  ASSUME NEW visit, NEW line, Len(line) \in Nat, NEW S, NEW s
  PROVE  \E f : Follows(visit, line, S, s, f) /\ Through(visit, line, S, s) = f[Len(line)]
<1> DEFINE Next1(i, before) == IF line[i] \in S THEN visit[line[i]][before] ELSE before
           Defined == {n \in Nat : \E f : f = [i \in 0 .. n |-> IF i = 0 THEN s ELSE Next1(i, f[i - 1])]}
<1>1. 0 \in Defined
  <2> DEFINE f == [i \in 0 .. 0 |-> s]
  <2>1. f = [i \in 0 .. 0 |-> IF i = 0 THEN s ELSE Next1(i, f[i - 1])]
    OBVIOUS
  <2> QED
    BY <2>1
<1>2. ASSUME NEW n \in Nat, n \in Defined PROVE n + 1 \in Defined
  <2> HIDE DEF Next1
  <2> PICK f : f = [i \in 0 .. n |-> IF i = 0 THEN s ELSE Next1(i, f[i - 1])]
    BY <1>2
  <2> DEFINE g == [i \in 0 .. n + 1 |-> IF i <= n THEN f[i] ELSE Next1(i, f[n])]
  <2>1. \A i \in 0 .. n : f[i] = IF i = 0 THEN s ELSE Next1(i, f[i - 1])
    OBVIOUS
  <2>2. \A i \in 0 .. n + 1 : g[i] = IF i = 0 THEN s ELSE Next1(i, g[i - 1])
    <3> SUFFICES ASSUME NEW i \in 0 .. n + 1 PROVE g[i] = IF i = 0 THEN s ELSE Next1(i, g[i - 1])
      OBVIOUS
    <3>1. CASE i <= n
      BY <2>1, <3>1
    <3>2. CASE i = n + 1
      BY <3>2
    <3> QED
      BY <3>1, <3>2
  <2>3. g = [i \in 0 .. n + 1 |-> IF i = 0 THEN s ELSE Next1(i, g[i - 1])]
    <3>1. g = [i \in 0 .. n + 1 |-> g[i]]
      OBVIOUS
    <3> HIDE DEF g
    <3> QED
      BY <2>2, <3>1
  <2>4. n + 1 \in Nat
    OBVIOUS
  <2> HIDE DEF g
  <2> QED
    BY <2>3, <2>4, Zenon
<1> HIDE DEF Defined
<1>3. Len(line) \in Defined
  BY <1>1, <1>2, EveryNumber
<1> DEFINE after == CHOOSE f : Passing(visit, line, S, s, Len(line), f)
<1>4. Passing(visit, line, S, s, Len(line), after)
  BY <1>3 DEF Defined, Passing
<1>5. Through(visit, line, S, s) = after[Len(line)]
  BY DEF Through, Passing
<1>6. Follows(visit, line, S, s, after)
  BY <1>4, PassingSteps
<1> HIDE DEF after
<1> QED
  BY <1>5, <1>6, Zenon

\* Whatever holds of the state before a line, and step by step of the state after each
\* of its keys, holds of the state after the line.
LEMMA ThroughReaches ==
  ASSUME NEW visit, NEW line, Len(line) \in Nat, NEW S, NEW P, NEW s, s \in P[0],
         \A i \in 1 .. Len(line) : \A u \in P[i - 1] :
           (IF line[i] \in S THEN visit[line[i]][u] ELSE u) \in P[i]
  PROVE  Through(visit, line, S, s) \in P[Len(line)]
<1>1. PICK f : Follows(visit, line, S, s, f) /\ Through(visit, line, S, s) = f[Len(line)]
  BY ThroughUnfolds
<1>2. f[0] = s /\ \A i \in 1 .. Len(line) : f[i] = IF line[i] \in S THEN visit[line[i]][f[i - 1]] ELSE f[i - 1]
  BY <1>1, Zenon DEF Follows
<1> DEFINE Right == {n \in Nat : n <= Len(line) => f[n] \in P[n]}
<1>3. 0 \in Right
  BY <1>2
<1>4. ASSUME NEW n \in Nat, n \in Right PROVE n + 1 \in Right
  <2> SUFFICES ASSUME n + 1 <= Len(line) PROVE f[n + 1] \in P[n + 1]
    OBVIOUS
  <2>1. n + 1 \in 1 .. Len(line) /\ (n + 1) - 1 = n /\ f[n] \in P[n]
    BY <1>4
  <2>2. f[n + 1] = IF line[n + 1] \in S THEN visit[line[n + 1]][f[n]] ELSE f[n]
    BY <1>2, <2>1
  <2> QED
    BY <2>1, <2>2
<1> HIDE DEF Right
<1>5. Len(line) \in Right
  BY <1>3, <1>4, EveryNumber
<1> QED
  BY <1>1, <1>5 DEF Right

\* Two ways to visit do the same to each key of the line in each state of P.
Agree(visit, other, line, S, P) ==
  \A i \in 1 .. Len(line) : line[i] \in S =>
    \A u \in P : visit[line[i]][u] = other[line[i]][u] /\ visit[line[i]][u] \in P

\* Two ways to visit that agree on the states that are met take a line to the same end.
LEMMA ThroughAgrees ==
  ASSUME NEW visit, NEW other, NEW line, Len(line) \in Nat, NEW S, NEW P, NEW s \in P,
         Agree(visit, other, line, S, P)
  PROVE  Through(visit, line, S, s) = Through(other, line, S, s)
<1>1. PICK f : Follows(visit, line, S, s, f) /\ Through(visit, line, S, s) = f[Len(line)]
  BY ThroughUnfolds
<1>2. PICK g : Follows(other, line, S, s, g) /\ Through(other, line, S, s) = g[Len(line)]
  BY ThroughUnfolds
<1>3. f[0] = s /\ \A i \in 1 .. Len(line) : f[i] = IF line[i] \in S THEN visit[line[i]][f[i - 1]] ELSE f[i - 1]
  BY <1>1, Zenon DEF Follows
<1>4. g[0] = s /\ \A i \in 1 .. Len(line) : g[i] = IF line[i] \in S THEN other[line[i]][g[i - 1]] ELSE g[i - 1]
  BY <1>2, Zenon DEF Follows
<1> DEFINE Same == {n \in Nat : n <= Len(line) => f[n] = g[n] /\ f[n] \in P}
<1>5. 0 \in Same
  BY <1>3, <1>4
<1>6. ASSUME NEW n \in Nat, n \in Same PROVE n + 1 \in Same
  <2> SUFFICES ASSUME n + 1 <= Len(line) PROVE f[n + 1] = g[n + 1] /\ f[n + 1] \in P
    OBVIOUS
  <2>1. n + 1 \in 1 .. Len(line) /\ (n + 1) - 1 = n /\ f[n] = g[n] /\ f[n] \in P
    BY <1>6
  <2>2. /\ f[n + 1] = IF line[n + 1] \in S THEN visit[line[n + 1]][f[n]] ELSE f[n]
        /\ g[n + 1] = IF line[n + 1] \in S THEN other[line[n + 1]][g[n]] ELSE g[n]
    BY <1>3, <1>4, <2>1
  <2> QED
    BY <2>1, <2>2 DEF Agree
<1> HIDE DEF Same
<1>7. Len(line) \in Same
  BY <1>5, <1>6, EveryNumber
<1> QED
  BY <1>1, <1>2, <1>7 DEF Same

\* The extensions and what is required of the catalog.
LEMMA CatalogIsRight ==
  ASSUME catalog \in Catalogs
  PROVE  /\ IsFiniteSet(Ids) /\ Len(Keys) \in Nat /\ \A e \in Ids : \E i \in 1 .. Len(Keys) : Keys[i] = e
         /\ \A i \in 1 .. Len(Keys) : Keys[i] \in Ids
         /\ \A e \in Ids : catalog[e].requires \in Seq(Ids)
<1>1. Keys \in Seq(Ids) /\ Len(Keys) \in Nat /\ DOMAIN Keys = 1 .. Len(Keys)
  BY CatalogAssumption
<1>2. \A e \in Ids : \E i \in 1 .. Len(Keys) : Keys[i] = e
  BY <1>1 DEF Ids, Range
<1>3. \A i \in 1 .. Len(Keys) : Keys[i] \in Ids
  BY <1>1
<1>4. IsFiniteSet(Ids)
  <2>1. Keys \in [1 .. Len(Keys) -> Ids]
    BY <1>1
  <2>2. Keys \in Surjection(1 .. Len(Keys), Ids)
    BY <1>2, <2>1 DEF Surjection
  <2>3. IsFiniteSet(1 .. Len(Keys))
    BY <1>1, FS_Interval
  <2> QED
    BY <2>2, <2>3, FS_Surjection
<1> QED
  BY <1>1, <1>2, <1>3, <1>4, CatalogAssumption

\* A set of extensions that has one more leaves fewer out.
LEMMA FewerLeft ==
  ASSUME IsFiniteSet(Ids), NEW few \in SUBSET Ids, NEW many \in SUBSET Ids, few \subseteq many
  PROVE  /\ Cardinality(Ids \ few) \in Nat /\ Cardinality(Ids \ many) <= Cardinality(Ids \ few)
         /\ few # many => Cardinality(Ids \ many) < Cardinality(Ids \ few)
<1>1. IsFiniteSet(Ids \ few) /\ Ids \ many \in SUBSET (Ids \ few)
  BY FS_Subset
<1>2. Cardinality(Ids \ few) \in Nat /\ Cardinality(Ids \ many) \in Nat
  BY <1>1, FS_Subset, FS_CardinalityType
<1>3. /\ Cardinality(Ids \ many) <= Cardinality(Ids \ few)
      /\ Cardinality(Ids \ few) = Cardinality(Ids \ many) => Ids \ few = Ids \ many
  BY <1>1, FS_Subset
<1>4. Ids \ few = Ids \ many => few = many
  OBVIOUS
<1> QED
  BY <1>2, <1>3, <1>4

-----------------------------------------------------------------------------
(* The walk of #validateDependencyGraph: one that is begun ends.           *)

\* What a walk has met, the states that have met no less, and those that leave fewer
\* than n extensions.
Met(s) == s.visiting \cup s.visited
Later(s) == {t \in Checking : Met(s) \subseteq Met(t)}
Near(n) == {s \in Checking : Cardinality(Ids \ Met(s)) < n}

\* To enter an extension that was not met.
Entered(s, e) == [s EXCEPT !.visiting = @ \cup {e}]
Left(t, e) == [t EXCEPT !.visiting = @ \ {e}, !.visited = @ \cup {e}]

\* The record of a walk.
LEMMA CheckingFields ==
  ASSUME NEW s \in Checking
  PROVE  /\ s.visiting \in SUBSET Ids /\ s.visited \in SUBSET Ids /\ Met(s) \in SUBSET Ids
         /\ s.thrown \in {"nothing", "cycle", "missing"}
         /\ \A e \in Ids : /\ Entered(s, e) \in Checking /\ Met(Entered(s, e)) = Met(s) \cup {e}
                           /\ Entered(s, e).visiting = s.visiting \cup {e} /\ Entered(s, e).visited = s.visited
                           /\ Entered(s, e).thrown = s.thrown
                           /\ Left(s, e) \in Checking /\ Met(s) \subseteq Met(Left(s, e))
                           /\ Left(s, e).visiting = s.visiting \ {e} /\ Left(s, e).visited = s.visited \cup {e}
                           /\ Left(s, e).thrown = s.thrown
         /\ \A f \in {"cycle", "missing"} : [s EXCEPT !.thrown = f] \in Checking /\ Met([s EXCEPT !.thrown = f]) = Met(s)
<1>1. /\ s.visiting \in SUBSET Ids /\ s.visited \in SUBSET Ids
      /\ s.thrown \in {"nothing", "cycle", "missing"}
  BY DEF Checking
<1>2. Met(s) \in SUBSET Ids
  BY <1>1 DEF Met
<1>3. ASSUME NEW e \in Ids
      PROVE  /\ Entered(s, e) \in Checking /\ Entered(s, e).visiting = s.visiting \cup {e}
             /\ Entered(s, e).visited = s.visited /\ Entered(s, e).thrown = s.thrown
             /\ Left(s, e) \in Checking /\ Left(s, e).visiting = s.visiting \ {e}
             /\ Left(s, e).visited = s.visited \cup {e} /\ Left(s, e).thrown = s.thrown
  BY <1>1 DEF Entered, Left, Checking
<1>4. ASSUME NEW e \in Ids
      PROVE  Met(Entered(s, e)) = Met(s) \cup {e} /\ Met(s) \subseteq Met(Left(s, e))
  BY <1>1, <1>3 DEF Met
<1>5. ASSUME NEW f \in {"cycle", "missing"}
      PROVE  [s EXCEPT !.thrown = f] \in Checking /\ Met([s EXCEPT !.thrown = f]) = Met(s)
  BY <1>1 DEF Met, Checking
<1> QED
  BY <1>1, <1>2, <1>3, <1>4, <1>5

\* The walk from one extension on, by cases.
LEMMA ValidateCases ==
  ASSUME NEW visit, NEW e, NEW s
  PROVE  /\ s.thrown # "nothing" \/ e \in s.visited => ValidateOne(visit, e, s) = s
         /\ s.thrown = "nothing" /\ e \notin s.visited /\ e \in s.visiting
              => ValidateOne(visit, e, s) = [s EXCEPT !.thrown = "cycle"]
         /\ s.thrown = "nothing" /\ e \notin Met(s) /\ e \notin registered
              => ValidateOne(visit, e, s) = [s EXCEPT !.thrown = "missing"]
         /\ s.thrown = "nothing" /\ e \notin Met(s) /\ e \in registered
              => ValidateOne(visit, e, s) = Left(Through(visit, catalog[e].requires, Ids, Entered(s, e)), e)
BY DEF ValidateOne, Left, Entered, Met

\* Who has met more leaves fewer.
LEMMA LaterIsNearer ==
  ASSUME IsFiniteSet(Ids), NEW s \in Checking
  PROVE  /\ Cardinality(Ids \ Met(s)) \in Nat
         /\ \A t \in Later(s) : Later(t) \subseteq Later(s) /\ Cardinality(Ids \ Met(t)) <= Cardinality(Ids \ Met(s))
         /\ \A e \in Ids \ Met(s) : Cardinality(Ids \ Met(Entered(s, e))) < Cardinality(Ids \ Met(s))
<1>1. Met(s) \in SUBSET Ids
  BY CheckingFields
<1>2. ASSUME NEW t \in Later(s)
      PROVE  Later(t) \subseteq Later(s) /\ Cardinality(Ids \ Met(t)) <= Cardinality(Ids \ Met(s))
  <2>1. t \in Checking /\ Met(s) \subseteq Met(t)
    BY DEF Later
  <2>2. Met(t) \in SUBSET Ids
    BY <2>1, CheckingFields
  <2>3. Later(t) \subseteq Later(s)
    BY <2>1 DEF Later
  <2> QED
    BY <1>1, <2>1, <2>2, <2>3, FewerLeft
<1>3. ASSUME NEW e \in Ids \ Met(s)
      PROVE  Cardinality(Ids \ Met(Entered(s, e))) < Cardinality(Ids \ Met(s))
  <2>1. Met(Entered(s, e)) = Met(s) \cup {e}
    BY CheckingFields
  <2>2. Met(s) \cup {e} \in SUBSET Ids /\ Met(s) # Met(s) \cup {e} /\ Met(s) \subseteq Met(s) \cup {e}
    BY <1>1
  <2> QED
    BY <1>1, <2>1, <2>2, FewerLeft
<1> QED
  BY <1>1, <1>2, <1>3, FewerLeft

\* Who enters what was not met comes nearer, and stays so.
LEMMA EnteredIsNearer ==
  ASSUME IsFiniteSet(Ids), NEW n \in Nat, NEW s \in Near(n + 1), NEW e \in Ids \ Met(s)
  PROVE  Later(Entered(s, e)) \subseteq Near(n)
<1> DEFINE left(t) == Cardinality(Ids \ Met(t))
           s1 == Entered(s, e)
<1>1. s \in Checking /\ left(s) < n + 1
  BY DEF Near
<1>2. s1 \in Checking
  BY <1>1, CheckingFields
<1>3. left(s1) < left(s) /\ left(s) \in Nat /\ left(s1) \in Nat
  BY <1>1, <1>2, LaterIsNearer
<1>4. ASSUME NEW t \in Later(s1) PROVE t \in Checking /\ left(t) \in Nat /\ left(t) <= left(s1)
  <2>1. t \in Checking
    BY DEF Later
  <2> QED
    BY <1>2, <2>1, LaterIsNearer
<1> HIDE DEF left, s1
<1>5. \A t \in Later(s1) : left(t) < n
  BY <1>1, <1>3, <1>4
<1> QED
  BY <1>4, <1>5 DEF Near, left, s1

\* A walk that goes on in the right way goes on in the right way from one farther state.
LEMMA ValidateGrows ==
  ASSUME catalog \in Catalogs, NEW h, NEW n \in Nat, \A d \in Ids : \A u \in Near(n) : h[d][u] \in Later(u),
         NEW e \in Ids, NEW s \in Near(n + 1)
  PROVE  ValidateOne(h, e, s) \in Later(s)
<1> DEFINE line == catalog[e].requires
           s1 == Entered(s, e)
<1>1. IsFiniteSet(Ids) /\ line \in Seq(Ids) /\ Len(line) \in Nat /\ \A i \in 1 .. Len(line) : line[i] \in Ids
  BY CatalogIsRight
<1>2. s \in Checking /\ Cardinality(Ids \ Met(s)) < n + 1
  BY DEF Near
<1>3. s \in Later(s) /\ \A f \in {"cycle", "missing"} : [s EXCEPT !.thrown = f] \in Later(s)
  BY <1>2, CheckingFields DEF Later
<1>4. ASSUME e \notin Met(s) PROVE Left(Through(h, line, Ids, s1), e) \in Later(s)
  <2>1. s1 \in Checking /\ Met(s1) = Met(s) \cup {e}
    BY <1>2, CheckingFields
  <2> DEFINE P == [i \in 0 .. Len(line) |-> Later(s1)]
  <2>2. Later(s1) \subseteq Near(n)
    BY <1>1, <1>4, EnteredIsNearer
  <2>3. \A t \in Later(s1) : Later(t) \subseteq Later(s1)
    BY <1>1, <2>1, LaterIsNearer
  <2>4. s1 \in P[0] /\ P[Len(line)] = Later(s1) /\ \A i \in 1 .. Len(line) : P[i - 1] = Later(s1) /\ P[i] = Later(s1)
    <3>1. s1 \in Later(s1)
      BY <2>1 DEF Later
    <3>2. 0 \in 0 .. Len(line) /\ Len(line) \in 0 .. Len(line) /\ \A i \in 1 .. Len(line) : i - 1 \in 0 .. Len(line) /\ i \in 0 .. Len(line)
      BY <1>1
    <3> QED
      BY <3>1, <3>2
  <2>5. \A i \in 1 .. Len(line) : \A u \in P[i - 1] : (IF line[i] \in Ids THEN h[line[i]][u] ELSE u) \in P[i]
    BY <1>1, <2>2, <2>3, <2>4
  <2> HIDE DEF P, line, s1
  <2>6. Through(h, line, Ids, s1) \in P[Len(line)]
    BY <1>1, <2>4, <2>5, ThroughReaches
  <2>7. Through(h, line, Ids, s1) \in Checking /\ Met(s1) \subseteq Met(Through(h, line, Ids, s1))
    BY <2>4, <2>6 DEF Later
  <2> QED
    BY <2>1, <2>7, CheckingFields DEF Later
<1> QED
  BY <1>3, <1>4, ValidateCases, CheckingFields, <1>2 DEF Met

\* Two walks that agree on the near states agree on those one farther.
LEMMA ValidateAgrees ==
  ASSUME catalog \in Catalogs, NEW h, NEW g, NEW n \in Nat,
         \A d \in Ids : \A u \in Near(n) : h[d][u] \in Later(u) /\ h[d][u] = g[d][u],
         NEW e \in Ids, NEW s \in Near(n + 1)
  PROVE  ValidateOne(h, e, s) = ValidateOne(g, e, s)
<1> DEFINE line == catalog[e].requires
           s1 == Entered(s, e)
<1>1. IsFiniteSet(Ids) /\ line \in Seq(Ids) /\ Len(line) \in Nat /\ \A i \in 1 .. Len(line) : line[i] \in Ids
  BY CatalogIsRight
<1>2. s \in Checking /\ Cardinality(Ids \ Met(s)) < n + 1
  BY DEF Near
<1>3. ASSUME e \notin Met(s) PROVE Through(h, line, Ids, s1) = Through(g, line, Ids, s1)
  <2>1. s1 \in Checking /\ Met(s1) = Met(s) \cup {e}
    BY <1>2, CheckingFields
  <2>2. Later(s1) \subseteq Near(n)
    BY <1>1, <1>3, EnteredIsNearer
  <2>3. s1 \in Later(s1) /\ \A t \in Later(s1) : Later(t) \subseteq Later(s1)
    BY <1>1, <2>1, LaterIsNearer DEF Later
  <2>4. Agree(h, g, line, Ids, Later(s1))
    BY <2>2, <2>3 DEF Agree
  <2> HIDE DEF line, s1
  <2> QED
    BY <1>1, <2>3, <2>4, ThroughAgrees
<1> QED
  BY <1>3 DEF ValidateOne, Entered, Met

\* Such a walk there is, so that Validate is one: the recursion is well founded.
LEMMA ValidateUnfolds ==
  ASSUME catalog \in Catalogs
  PROVE  \A e \in Ids : \A s \in Checking : Validate[e][s] = ValidateOne(Validate, e, s) /\ Validate[e][s] \in Later(s)
<1>1. IsFiniteSet(Ids)
  BY CatalogIsRight
<1> DEFINE Goes(h, n) == \A e \in Ids : \A s \in Near(n) : h[e][s] = ValidateOne(h, e, s) /\ h[e][s] \in Later(s)
           Some == {n \in Nat : \E h : Goes(h, n)}
           all == Cardinality(Ids) + 1
<1>2. /\ \A n \in Nat : Near(n) \subseteq Near(n + 1) /\ Near(n) \subseteq Checking
      /\ Near(0) = {}
  <2>1. \A s \in Checking : Cardinality(Ids \ Met(s)) \in Nat
    BY <1>1, LaterIsNearer
  <2>2. ASSUME NEW n \in Nat, NEW s \in Near(n) PROVE s \in Near(n + 1)
    <3>1. s \in Checking /\ Cardinality(Ids \ Met(s)) \in Nat /\ Cardinality(Ids \ Met(s)) < n
      BY <2>1, <2>2 DEF Near
    <3> QED
      BY <3>1 DEF Near
  <2>3. Near(0) = {}
    BY <2>1 DEF Near
  <2>4. \A n \in Nat : Near(n) \subseteq Checking
    BY DEF Near
  <2> QED
    BY <2>2, <2>3, <2>4
<1>3. 0 \in Some
  BY <1>2
<1>4. ASSUME NEW n \in Nat, n \in Some PROVE n + 1 \in Some
  <2> PICK h : Goes(h, n)
    BY <1>4
  <2> DEFINE g == [e \in Ids |-> [s \in Checking |-> ValidateOne(h, e, s)]]
  <2>1. \A e \in Ids : \A s \in Checking : g[e][s] = ValidateOne(h, e, s)
    OBVIOUS
  <2> HIDE DEF g
  <2>2. \A e \in Ids : \A s \in Near(n) : h[e][s] \in Later(s) /\ h[e][s] = g[e][s]
    BY <1>2, <2>1
  <2>3. \A e \in Ids : \A s \in Near(n + 1) : ValidateOne(h, e, s) = ValidateOne(g, e, s)
    BY <2>2, ValidateAgrees
  <2>4. \A e \in Ids : \A s \in Near(n + 1) : ValidateOne(h, e, s) \in Later(s)
    BY <2>2, ValidateGrows
  <2>5. Goes(g, n + 1)
    BY <1>2, <2>1, <2>3, <2>4
  <2>6. n + 1 \in Nat
    OBVIOUS
  <2> HIDE DEF Goes
  <2> QED
    BY <2>5, <2>6, Zenon
<1>5. all \in Nat /\ Near(all) = Checking
  <2>1. Cardinality(Ids) \in Nat
    BY <1>1, FS_CardinalityType
  <2>2. \A s \in Checking : Cardinality(Ids \ Met(s)) <= Cardinality(Ids) /\ Cardinality(Ids \ Met(s)) \in Nat
    <3> SUFFICES ASSUME NEW s \in Checking
                 PROVE  Cardinality(Ids \ Met(s)) <= Cardinality(Ids) /\ Cardinality(Ids \ Met(s)) \in Nat
      OBVIOUS
    <3>1. Ids \ Met(s) \in SUBSET Ids
      OBVIOUS
    <3> QED
      BY <1>1, <3>1, FS_Subset, LaterIsNearer
  <2> QED
    BY <2>1, <2>2 DEF Near
<1> HIDE DEF Some
<1>6. all \in Some
  BY <1>3, <1>4, <1>5, EveryNumber
<1>7. PICK h : \A e \in Ids : \A s \in Checking : h[e][s] = ValidateOne(h, e, s) /\ h[e][s] \in Later(s)
  BY <1>5, <1>6 DEF Some
<1> DEFINE g == [e \in Ids |-> [s \in Checking |-> h[e][s]]]
<1>8. \A e \in Ids : \A s \in Checking : g[e][s] = h[e][s]
  OBVIOUS
<1>9. \A e \in Ids : \A s \in Checking : g[e][s] = ValidateOne(g, e, s)
  <2> SUFFICES ASSUME NEW e \in Ids, NEW s \in Checking PROVE g[e][s] = ValidateOne(g, e, s)
    OBVIOUS
  <2> HIDE DEF g
  <2>1. s \in Near(all + 1) /\ \A d \in Ids : \A u \in Near(all) : h[d][u] \in Later(u) /\ h[d][u] = g[d][u]
    BY <1>2, <1>5, <1>7, <1>8
  <2>2. ValidateOne(h, e, s) = ValidateOne(g, e, s)
    BY <1>5, <2>1, ValidateAgrees
  <2> QED
    BY <1>7, <1>8, <2>2
<1>10. g = [e \in Ids |-> [s \in Checking |-> ValidateOne(g, e, s)]]
  <2>1. \A e \in Ids : [s \in Checking |-> h[e][s]] = [s \in Checking |-> ValidateOne(g, e, s)]
    <3> DEFINE one(e, s) == ValidateOne(g, e, s)
    <3>1. \A e \in Ids : \A s \in Checking : h[e][s] = one(e, s)
      BY <1>8, <1>9
    <3> HIDE DEF one
    <3>2. \A e \in Ids : [s \in Checking |-> h[e][s]] = [s \in Checking |-> one(e, s)]
      BY <3>1
    <3> QED
      BY <3>2 DEF one
  <2> DEFINE left(e) == [s \in Checking |-> h[e][s]]
             right(e) == [s \in Checking |-> ValidateOne(g, e, s)]
  <2>2. \A e \in Ids : left(e) = right(e)
    BY <2>1
  <2> HIDE DEF left, right
  <2>3. [e \in Ids |-> left(e)] = [e \in Ids |-> right(e)]
    BY <2>2
  <2> QED
    BY <2>3, Zenon DEF left, right
<1> HIDE DEF g
<1>11. Validate = [e \in Ids |-> [s \in Checking |-> ValidateOne(Validate, e, s)]]
  BY <1>10, Zenon DEF Validate
<1>12. \A e \in Ids : \A s \in Checking : Validate[e][s] = ValidateOne(Validate, e, s)
  <2> DEFINE whole(e) == [s \in Checking |-> ValidateOne(Validate, e, s)]
             one(e, s) == ValidateOne(Validate, e, s)
  <2>1. \A e \in Ids : Validate[e] = whole(e)
    <3> HIDE DEF whole
    <3>1. Validate = [e \in Ids |-> whole(e)]
      BY <1>11, Zenon DEF whole
    <3> QED
      BY <3>1
  <2>2. \A e \in Ids : \A s \in Checking : whole(e)[s] = one(e, s)
    <3> HIDE DEF one
    <3>1. \A e \in Ids : whole(e) = [s \in Checking |-> one(e, s)]
      BY Zenon DEF one
    <3> HIDE DEF whole
    <3> QED
      BY <3>1
  <2> QED
    BY <2>1, <2>2, Zenon DEF one
<1> DEFINE Growing == {n \in Nat : \A e \in Ids : \A s \in Near(n) : Validate[e][s] \in Later(s)}
<1>13. 0 \in Growing
  BY <1>2
<1>14. ASSUME NEW n \in Nat, n \in Growing PROVE n + 1 \in Growing
  BY <1>2, <1>12, <1>14, ValidateGrows
<1> HIDE DEF Growing
<1>15. all \in Growing
  BY <1>5, <1>13, <1>14, EveryNumber
<1> QED
  BY <1>5, <1>12, <1>15 DEF Growing

\* What is visited requires only what is visited, and in any group of it is one that
\* requires none of the group.
Acyclic(s) ==
  /\ s.visiting \cap s.visited = {}
  /\ s.visited \subseteq registered
  /\ \A e \in s.visited : Range(catalog[e].requires) \subseteq s.visited
  /\ \A S \in SUBSET s.visited : S = {} \/ \E e \in S : Range(catalog[e].requires) \cap S = {}

\* What a walk that does not throw has done between s and t.
Advanced(s, t) == t.thrown = "nothing" => Acyclic(t) /\ t.visiting = s.visiting /\ s.visited \subseteq t.visited
Right == {s \in Checking : s.thrown = "nothing" => Acyclic(s)}

\* To enter an extension.
LEMMA EnteringKeeps ==
  ASSUME NEW s \in Checking, Acyclic(s), NEW e \in Ids \ Met(s)
  PROVE  Acyclic(Entered(s, e))
<1>1. Entered(s, e).visiting = s.visiting \cup {e} /\ Entered(s, e).visited = s.visited
  BY CheckingFields
<1>2. e \notin s.visited
  BY DEF Met
<1> QED
  BY <1>1, <1>2 DEF Acyclic

\* To leave it, when all that it requires was visited.
LEMMA LeavingKeeps ==
  ASSUME NEW t \in Checking, Acyclic(t), NEW e \in t.visiting, e \in registered,
         Range(catalog[e].requires) \subseteq t.visited
  PROVE  Acyclic(Left(t, e))
<1>1. e \in Ids /\ t.visiting \in SUBSET Ids
  BY CheckingFields
<1>2. Left(t, e).visiting = t.visiting \ {e} /\ Left(t, e).visited = t.visited \cup {e}
  BY <1>1, CheckingFields
<1>3. e \notin t.visited
  BY DEF Acyclic
<1>4. ASSUME NEW S \in SUBSET (t.visited \cup {e}), S # {}
      PROVE  \E d \in S : Range(catalog[d].requires) \cap S = {}
  <2>1. CASE S \subseteq {e}
    <3>1. e \in S /\ Range(catalog[e].requires) \cap S = {}
      BY <1>3, <1>4, <2>1
    <3> QED
      BY <3>1
  <2>2. CASE ~(S \subseteq {e})
    <3>1. S \ {e} \in SUBSET t.visited /\ S \ {e} # {}
      BY <2>2
    <3>2. PICK d \in S \ {e} : Range(catalog[d].requires) \cap (S \ {e}) = {}
      BY <3>1, Zenon DEF Acyclic
    <3>3. d \in t.visited /\ Range(catalog[d].requires) \subseteq t.visited
      BY <3>1 DEF Acyclic
    <3>4. Range(catalog[d].requires) \cap S = {}
      BY <1>3, <3>2, <3>3
    <3> QED
      BY <3>2, <3>4
  <2> QED
    BY <2>1, <2>2
<1>5. /\ Left(t, e).visiting \cap Left(t, e).visited = {}
      /\ Left(t, e).visited \subseteq registered
  BY <1>2 DEF Acyclic
<1>6. \A d \in Left(t, e).visited : Range(catalog[d].requires) \subseteq Left(t, e).visited
  BY <1>2 DEF Acyclic
<1>7. \A S \in SUBSET Left(t, e).visited : S = {} \/ \E d \in S : Range(catalog[d].requires) \cap S = {}
  BY <1>2, <1>4
<1> QED
  BY <1>5, <1>6, <1>7 DEF Acyclic

\* From an acyclic state a walk that does not throw comes to an acyclic one, in which
\* the extension is visited.
LEMMA ValidateIsRight ==
  ASSUME catalog \in Catalogs, NEW e \in Ids, NEW s \in Right
  PROVE  Validate[e][s] \in Right /\ Advanced(s, Validate[e][s])
         /\ (Validate[e][s].thrown = "nothing" => e \in Validate[e][s].visited)
<1> DEFINE Done(d, u) == /\ Validate[d][u] \in Right /\ Advanced(u, Validate[d][u])
                         /\ Validate[d][u].thrown = "nothing" => d \in Validate[d][u].visited
           Claimed == {n \in Nat : \A d \in Ids : \A u \in Right \cap Near(n) : Done(d, u)}
<1>1. IsFiniteSet(Ids)
  BY CatalogIsRight
<1>2. 0 \in Claimed
  <2>1. \A u \in Checking : Cardinality(Ids \ Met(u)) \in Nat
    BY <1>1, LaterIsNearer
  <2>2. Near(0) = {}
    BY <2>1 DEF Near
  <2> QED
    BY <2>2
<1>3. ASSUME NEW n \in Nat, n \in Claimed PROVE n + 1 \in Claimed
  <2> SUFFICES ASSUME NEW d \in Ids, NEW u \in Right, u \in Near(n + 1) PROVE Done(d, u)
    OBVIOUS
  <2> DEFINE line == catalog[d].requires
             u1 == Entered(u, d)
             t == Through(Validate, line, Ids, u1)
             Met1(v, i) == v.thrown = "nothing" => \A j \in 1 .. i : line[j] \in v.visited
             Stage(i) == {v \in Later(u1) : v \in Right /\ Advanced(u1, v) /\ Met1(v, i)}
             P == [i \in 0 .. Len(line) |-> Stage(i)]
  <2>1. u \in Checking /\ Validate[d][u] = ValidateOne(Validate, d, u) /\ (u.thrown = "nothing" => Acyclic(u))
    BY ValidateUnfolds DEF Right
  <2>2. line \in Seq(Ids) /\ Len(line) \in Nat /\ \A i \in 1 .. Len(line) : line[i] \in Ids
    BY CatalogIsRight
  <2>3. CASE u.thrown # "nothing" \/ d \in u.visited
    <3>1. Validate[d][u] = u
      BY <2>1, <2>3, ValidateCases
    <3> QED
      BY <2>1, <2>3, <3>1 DEF Advanced, Right
  <2>4. CASE u.thrown = "nothing" /\ d \notin u.visited /\ (d \in u.visiting \/ d \notin registered)
    <3>1. \/ Validate[d][u] = [u EXCEPT !.thrown = "cycle"]
          \/ Validate[d][u] = [u EXCEPT !.thrown = "missing"]
      BY <2>1, <2>4, ValidateCases DEF Met
    <3>2. Validate[d][u] \in Checking /\ Validate[d][u].thrown # "nothing"
      <4>1. \A f \in {"cycle", "missing"} : [u EXCEPT !.thrown = f].thrown = f /\ [u EXCEPT !.thrown = f] \in Checking
        BY <2>1 DEF Checking
      <4> QED
        BY <3>1, <4>1
    <3> QED
      BY <3>2 DEF Advanced, Right
  <2>5. CASE u.thrown = "nothing" /\ d \notin u.visited /\ d \notin u.visiting /\ d \in registered
    <3>1. d \in Ids \ Met(u) /\ Validate[d][u] = Left(t, d)
      BY <2>1, <2>5, ValidateCases DEF Met
    <3>2. /\ u1 \in Checking /\ u1.visiting = u.visiting \cup {d} /\ u1.visited = u.visited /\ u1.thrown = "nothing"
          /\ Acyclic(u1)
      BY <2>1, <2>5, <3>1, CheckingFields, EnteringKeeps
    <3>3. Later(u1) \subseteq Near(n) /\ u1 \in Later(u1) /\ \A v \in Later(u1) : Later(v) \subseteq Later(u1)
      BY <1>1, <3>1, <3>2, EnteredIsNearer, LaterIsNearer DEF Later
    <3>4. u1 \in P[0]
      <4>1. u1 \in Right /\ Advanced(u1, u1)
        BY <3>2 DEF Right, Advanced
      <4>2. 0 \in 0 .. Len(line) /\ 1 .. 0 = {}
        BY <2>2
      <4> QED
        BY <3>3, <4>1, <4>2
    <3>5. ASSUME NEW i \in 1 .. Len(line), NEW v \in P[i - 1]
          PROVE  (IF line[i] \in Ids THEN Validate[line[i]][v] ELSE v) \in P[i]
      <4> DEFINE w == Validate[line[i]][v]
      <4>1. line[i] \in Ids /\ i \in 0 .. Len(line) /\ i - 1 \in 0 .. Len(line)
            /\ (\A j \in 1 .. i : j = i \/ j \in 1 .. (i - 1))
        BY <2>2
      <4>2. /\ v \in Later(u1) /\ v \in Right /\ Advanced(u1, v)
            /\ v.thrown = "nothing" => \A j \in 1 .. (i - 1) : line[j] \in v.visited
        <5> HIDE DEF Stage
        <5>1. v \in Stage(i - 1)
          BY <3>5, <4>1
        <5> QED
          BY <5>1, Zenon DEF Stage
      <4>3. v \in Near(n) /\ v \in Checking /\ w \in Later(v) /\ w \in Later(u1)
        BY <3>3, <4>1, <4>2, ValidateUnfolds DEF Later
      <4>4. Done(line[i], v)
        BY <1>3, <4>1, <4>2, <4>3
      <4>5. v.thrown # "nothing" => w.thrown # "nothing"
        <5>1. v.thrown # "nothing" => w = v
          BY <4>1, <4>3, ValidateUnfolds, ValidateCases
        <5> QED
          BY <5>1
      <4> HIDE DEF w
      <4>6. Advanced(u1, w) /\ (w.thrown = "nothing" => v.visited \subseteq w.visited /\ line[i] \in w.visited)
        BY <4>2, <4>4, <4>5 DEF Advanced, w
      <4>7. w.thrown = "nothing" => \A j \in 1 .. i : line[j] \in w.visited
        BY <4>1, <4>2, <4>5, <4>6
      <4>8. w \in Right
        BY <4>4 DEF w
      <4>9. w \in P[i]
        BY <4>1, <4>3, <4>6, <4>7, <4>8
      <4> QED
        BY <4>1, <4>9 DEF w
    <3>6. t \in P[Len(line)]
      <4> HIDE DEF P, u1, line
      <4> QED
        BY <2>2, <3>4, <3>5, ThroughReaches
    <3>7. /\ t \in Checking /\ t \in Right /\ Advanced(u1, t)
          /\ t.thrown = "nothing" => \A j \in 1 .. Len(line) : line[j] \in t.visited
      <4>1. Len(line) \in 0 .. Len(line)
        BY <2>2
      <4> HIDE DEF Stage, t
      <4>2. t \in Stage(Len(line))
        BY <3>6, <4>1
      <4> QED
        BY <4>2, Zenon DEF Stage, Later
    <3> HIDE DEF t
    <3>8. Left(t, d) \in Checking /\ Left(t, d).thrown = t.thrown
          /\ Left(t, d).visiting = t.visiting \ {d} /\ Left(t, d).visited = t.visited \cup {d}
      BY <3>7, CheckingFields
    <3>9. ASSUME t.thrown = "nothing"
          PROVE  /\ Acyclic(Left(t, d)) /\ Left(t, d).visiting = u.visiting
                 /\ u.visited \subseteq Left(t, d).visited
      <4>1. Acyclic(t) /\ t.visiting = u.visiting \cup {d} /\ u.visited \subseteq t.visited
        BY <3>2, <3>7, <3>9 DEF Advanced
      <4>2. Range(line) \subseteq t.visited
        BY <2>2, <3>7, <3>9 DEF Range
      <4>3. Acyclic(Left(t, d))
        BY <2>5, <3>7, <4>1, <4>2, LeavingKeeps
      <4> QED
        BY <2>5, <3>8, <4>1, <4>3
    <3> QED
      BY <3>1, <3>8, <3>9 DEF Right, Advanced
  <2> QED
    BY <2>3, <2>4, <2>5
<1> DEFINE near == Cardinality(Ids \ Met(s)) + 1
<1>4. s \in Checking /\ near \in Nat /\ s \in Near(near)
  <2>1. s \in Checking
    BY DEF Right
  <2>2. Cardinality(Ids \ Met(s)) \in Nat
    BY <1>1, <2>1, LaterIsNearer
  <2> QED
    BY <2>1, <2>2 DEF Near
<1> HIDE DEF near, Claimed
<1>5. near \in Claimed
  BY <1>2, <1>3, <1>4, EveryNumber
<1> QED
  BY <1>4, <1>5 DEF Claimed

\* The graph of a registry that may be frozen is sound.
LEMMA ValidGraphIsSound ==
  ASSUME catalog \in Catalogs, registered \in SUBSET Ids, GraphIsValid
  PROVE  /\ \A e \in registered : Range(catalog[e].requires) \subseteq registered
         /\ \A S \in SUBSET registered : S = {} \/ \E e \in S : Range(catalog[e].requires) \cap S = {}
<1> DEFINE t == Through(Validate, Keys, registered, Unchecked)
           P == [i \in 0 .. Len(Keys) |->
                  {u \in Right : u.thrown = "nothing" =>
                     \A j \in 1 .. i : Keys[j] \in registered => Keys[j] \in u.visited}]
<1>1. Len(Keys) \in Nat /\ \A e \in Ids : \E i \in 1 .. Len(Keys) : Keys[i] = e
  BY CatalogIsRight
<1>2. Unchecked \in P[0]
  <2>1. Unchecked \in Checking /\ Unchecked.visited = {} /\ Unchecked.visiting = {}
    BY DEF Unchecked, Checking
  <2>2. Unchecked \in Right
    BY <2>1 DEF Right, Acyclic
  <2>3. 0 \in 0 .. Len(Keys) /\ 1 .. 0 = {}
    BY <1>1
  <2> QED
    BY <2>2, <2>3
<1>3. ASSUME NEW i \in 1 .. Len(Keys), NEW v \in P[i - 1]
      PROVE  (IF Keys[i] \in registered THEN Validate[Keys[i]][v] ELSE v) \in P[i]
  <2> DEFINE w == Validate[Keys[i]][v]
  <2>1. i \in 0 .. Len(Keys) /\ i - 1 \in 0 .. Len(Keys) /\ \A j \in 1 .. i : j = i \/ j \in 1 .. (i - 1)
    BY <1>1
  <2>2. v \in Right /\ (v.thrown = "nothing" => \A j \in 1 .. (i - 1) : Keys[j] \in registered => Keys[j] \in v.visited)
    BY <1>3, <2>1
  <2>3. CASE Keys[i] \in registered
    <3>1. v \in Checking /\ Keys[i] \in Ids
      BY <2>2, <2>3 DEF Right
    <3>2. w \in Right /\ Advanced(v, w) /\ (w.thrown = "nothing" => Keys[i] \in w.visited)
      BY <2>2, <3>1, ValidateIsRight
    <3>3. v.thrown # "nothing" => w = v
      BY <3>1, ValidateUnfolds, ValidateCases
    <3> HIDE DEF w
    <3>4. w \in P[i]
      BY <2>1, <2>2, <3>2, <3>3 DEF Advanced
    <3> QED
      BY <2>3, <3>4 DEF w
  <2>4. CASE Keys[i] \notin registered
    BY <2>1, <2>2, <2>4
  <2> QED
    BY <2>3, <2>4
<1>4. t \in P[Len(Keys)]
  <2> HIDE DEF P
  <2> QED
    BY <1>1, <1>2, <1>3, ThroughReaches
<1>5. t.thrown = "nothing"
  BY DEF GraphIsValid
<1> HIDE DEF t
<1>6. Acyclic(t) /\ \A j \in 1 .. Len(Keys) : Keys[j] \in registered => Keys[j] \in t.visited
  <2>1. Len(Keys) \in 0 .. Len(Keys)
    BY <1>1
  <2> QED
    BY <1>4, <1>5, <2>1 DEF Right
<1>7. registered = t.visited
  <2>1. t.visited \subseteq registered
    BY <1>6 DEF Acyclic
  <2>2. ASSUME NEW e \in registered PROVE e \in t.visited
    <3>1. PICK i \in 1 .. Len(Keys) : Keys[i] = e
      BY <1>1
    <3> QED
      BY <1>6, <3>1
  <2> QED
    BY <2>1, <2>2
<1> QED
  BY <1>6, <1>7 DEF Acyclic

-----------------------------------------------------------------------------
(* The walk of resolve: it ends too, and selects in order.                 *)

\* The states that have selected no less, and those that leave fewer than n extensions.
Larger(s) == {t \in Walks : s.selected \subseteq t.selected}
Close(n) == {s \in Walks : Cardinality(Ids \ s.selected) < n}

\* To select an extension, and to place it after what it requires.
Picked(s, e) == [s EXCEPT !.selected = @ \cup {e}]
Placed(t, e) == [t EXCEPT !.ordered = Append(@, e)]

\* The record of a walk.
LEMMA WalkFields ==
  ASSUME NEW s \in Walks
  PROVE  /\ s.selected \in SUBSET Ids /\ s.ordered \in Seq(Ids) /\ s.thrown \in {"nothing", "missing"}
         /\ \A e \in Ids : /\ Picked(s, e) \in Walks /\ Picked(s, e).selected = s.selected \cup {e}
                           /\ Picked(s, e).ordered = s.ordered /\ Picked(s, e).thrown = s.thrown
                           /\ Placed(s, e) \in Walks /\ Placed(s, e).selected = s.selected
                           /\ Placed(s, e).ordered = Append(s.ordered, e) /\ Placed(s, e).thrown = s.thrown
         /\ [s EXCEPT !.thrown = "missing"] \in Walks /\ [s EXCEPT !.thrown = "missing"].selected = s.selected
         /\ [s EXCEPT !.thrown = "missing"].thrown = "missing"
<1>1. s.selected \in SUBSET Ids /\ s.ordered \in Seq(Ids) /\ s.thrown \in {"nothing", "missing"}
  BY DEF Walks
<1>2. ASSUME NEW e \in Ids
      PROVE  /\ Picked(s, e) \in Walks /\ Picked(s, e).selected = s.selected \cup {e}
             /\ Picked(s, e).ordered = s.ordered /\ Picked(s, e).thrown = s.thrown
  BY <1>1 DEF Picked, Walks
<1>3. ASSUME NEW e \in Ids
      PROVE  /\ Placed(s, e) \in Walks /\ Placed(s, e).selected = s.selected
             /\ Placed(s, e).ordered = Append(s.ordered, e) /\ Placed(s, e).thrown = s.thrown
  <2>1. Append(s.ordered, e) \in Seq(Ids)
    BY <1>1, <1>3
  <2> QED
    BY <1>1, <2>1 DEF Placed, Walks
<1>4. /\ [s EXCEPT !.thrown = "missing"] \in Walks /\ [s EXCEPT !.thrown = "missing"].selected = s.selected
      /\ [s EXCEPT !.thrown = "missing"].thrown = "missing"
  BY <1>1 DEF Walks
<1> QED
  BY <1>1, <1>2, <1>3, <1>4

\* The walk from one extension on, by cases.
LEMMA VisitCases ==
  ASSUME NEW visit, NEW e, NEW s
  PROVE  /\ s.thrown # "nothing" \/ e \in s.selected => VisitOne(visit, e, s) = s
         /\ s.thrown = "nothing" /\ e \notin s.selected /\ e \notin registered
              => VisitOne(visit, e, s) = [s EXCEPT !.thrown = "missing"]
         /\ s.thrown = "nothing" /\ e \notin s.selected /\ e \in registered
              => VisitOne(visit, e, s) = Placed(Through(visit, catalog[e].requires, Ids, Picked(s, e)), e)
BY DEF VisitOne, Picked, Placed

\* Who has selected more leaves fewer.
LEMMA LargerIsCloser ==
  ASSUME IsFiniteSet(Ids), NEW s \in Walks
  PROVE  /\ Cardinality(Ids \ s.selected) \in Nat
         /\ \A t \in Larger(s) : Larger(t) \subseteq Larger(s) /\ Cardinality(Ids \ t.selected) <= Cardinality(Ids \ s.selected)
         /\ \A e \in Ids \ s.selected : Cardinality(Ids \ Picked(s, e).selected) < Cardinality(Ids \ s.selected)
<1>1. s.selected \in SUBSET Ids
  BY WalkFields
<1>2. ASSUME NEW t \in Larger(s)
      PROVE  Larger(t) \subseteq Larger(s) /\ Cardinality(Ids \ t.selected) <= Cardinality(Ids \ s.selected)
  <2>1. t \in Walks /\ s.selected \subseteq t.selected
    BY DEF Larger
  <2>2. t.selected \in SUBSET Ids
    BY <2>1, WalkFields
  <2>3. Larger(t) \subseteq Larger(s)
    BY <2>1 DEF Larger
  <2> QED
    BY <1>1, <2>1, <2>2, <2>3, FewerLeft
<1>3. ASSUME NEW e \in Ids \ s.selected
      PROVE  Cardinality(Ids \ Picked(s, e).selected) < Cardinality(Ids \ s.selected)
  <2>1. Picked(s, e).selected = s.selected \cup {e}
    BY WalkFields
  <2>2. s.selected \cup {e} \in SUBSET Ids /\ s.selected # s.selected \cup {e} /\ s.selected \subseteq s.selected \cup {e}
    BY <1>1
  <2> QED
    BY <1>1, <2>1, <2>2, FewerLeft
<1> QED
  BY <1>1, <1>2, <1>3, FewerLeft

\* Who enters what was not met comes nearer, and stays so.
LEMMA PickedIsCloser ==
  ASSUME IsFiniteSet(Ids), NEW n \in Nat, NEW s \in Close(n + 1), NEW e \in Ids \ s.selected
  PROVE  Larger(Picked(s, e)) \subseteq Close(n)
<1> DEFINE left(t) == Cardinality(Ids \ t.selected)
           s1 == Picked(s, e)
<1>1. s \in Walks /\ left(s) < n + 1
  BY DEF Close
<1>2. s1 \in Walks
  BY <1>1, WalkFields
<1>3. left(s1) < left(s) /\ left(s) \in Nat /\ left(s1) \in Nat
  BY <1>1, <1>2, LargerIsCloser
<1>4. ASSUME NEW t \in Larger(s1) PROVE t \in Walks /\ left(t) \in Nat /\ left(t) <= left(s1)
  <2>1. t \in Walks
    BY DEF Larger
  <2> QED
    BY <1>2, <2>1, LargerIsCloser
<1> HIDE DEF left, s1
<1>5. \A t \in Larger(s1) : left(t) < n
  BY <1>1, <1>3, <1>4
<1> QED
  BY <1>4, <1>5 DEF Close, left, s1

\* A walk that goes on in the right way goes on in the right way from one farther state.
LEMMA VisitGrows ==
  ASSUME catalog \in Catalogs, NEW h, NEW n \in Nat, \A d \in Ids : \A u \in Close(n) : h[d][u] \in Larger(u),
         NEW e \in Ids, NEW s \in Close(n + 1)
  PROVE  VisitOne(h, e, s) \in Larger(s)
<1> DEFINE line == catalog[e].requires
           s1 == Picked(s, e)
<1>1. IsFiniteSet(Ids) /\ line \in Seq(Ids) /\ Len(line) \in Nat /\ \A i \in 1 .. Len(line) : line[i] \in Ids
  BY CatalogIsRight
<1>2. s \in Walks /\ Cardinality(Ids \ s.selected) < n + 1
  BY DEF Close
<1>3. s \in Larger(s) /\ [s EXCEPT !.thrown = "missing"] \in Larger(s)
  BY <1>2, WalkFields DEF Larger
<1>4. ASSUME e \notin s.selected PROVE Placed(Through(h, line, Ids, s1), e) \in Larger(s)
  <2>1. s1 \in Walks /\ s1.selected = s.selected \cup {e}
    BY <1>2, WalkFields
  <2> DEFINE P == [i \in 0 .. Len(line) |-> Larger(s1)]
  <2>2. Larger(s1) \subseteq Close(n)
    BY <1>1, <1>4, PickedIsCloser
  <2>3. \A t \in Larger(s1) : Larger(t) \subseteq Larger(s1)
    BY <1>1, <2>1, LargerIsCloser
  <2>4. s1 \in P[0] /\ P[Len(line)] = Larger(s1) /\ \A i \in 1 .. Len(line) : P[i - 1] = Larger(s1) /\ P[i] = Larger(s1)
    <3>1. s1 \in Larger(s1)
      BY <2>1 DEF Larger
    <3>2. 0 \in 0 .. Len(line) /\ Len(line) \in 0 .. Len(line) /\ \A i \in 1 .. Len(line) : i - 1 \in 0 .. Len(line) /\ i \in 0 .. Len(line)
      BY <1>1
    <3> QED
      BY <3>1, <3>2
  <2>5. \A i \in 1 .. Len(line) : \A u \in P[i - 1] : (IF line[i] \in Ids THEN h[line[i]][u] ELSE u) \in P[i]
    BY <1>1, <2>2, <2>3, <2>4
  <2> HIDE DEF P, line, s1
  <2>6. Through(h, line, Ids, s1) \in P[Len(line)]
    BY <1>1, <2>4, <2>5, ThroughReaches
  <2>7. Through(h, line, Ids, s1) \in Walks /\ s1.selected \subseteq Through(h, line, Ids, s1).selected
    BY <2>4, <2>6 DEF Larger
  <2> DEFINE t == Through(h, line, Ids, s1)
  <2>8. t \in Walks /\ s1.selected \subseteq t.selected
    BY <2>7
  <2> HIDE DEF t
  <2>9. Placed(t, e) \in Walks /\ Placed(t, e).selected = t.selected
    BY <2>8, WalkFields
  <2>10. Placed(t, e) \in Larger(s)
    BY <2>1, <2>8, <2>9 DEF Larger
  <2> QED
    BY <2>10 DEF t
<1> QED
  BY <1>3, <1>4, VisitCases

\* Two walks that agree on the close states agree on those one farther.
LEMMA VisitAgrees ==
  ASSUME catalog \in Catalogs, NEW h, NEW g, NEW n \in Nat,
         \A d \in Ids : \A u \in Close(n) : h[d][u] \in Larger(u) /\ h[d][u] = g[d][u],
         NEW e \in Ids, NEW s \in Close(n + 1)
  PROVE  VisitOne(h, e, s) = VisitOne(g, e, s)
<1> DEFINE line == catalog[e].requires
           s1 == Picked(s, e)
<1>1. IsFiniteSet(Ids) /\ line \in Seq(Ids) /\ Len(line) \in Nat /\ \A i \in 1 .. Len(line) : line[i] \in Ids
  BY CatalogIsRight
<1>2. s \in Walks /\ Cardinality(Ids \ s.selected) < n + 1
  BY DEF Close
<1>3. ASSUME e \notin s.selected PROVE Through(h, line, Ids, s1) = Through(g, line, Ids, s1)
  <2>1. s1 \in Walks /\ s1.selected = s.selected \cup {e}
    BY <1>2, WalkFields
  <2>2. Larger(s1) \subseteq Close(n)
    BY <1>1, <1>3, PickedIsCloser
  <2>3. s1 \in Larger(s1) /\ \A t \in Larger(s1) : Larger(t) \subseteq Larger(s1)
    BY <1>1, <2>1, LargerIsCloser DEF Larger
  <2>4. Agree(h, g, line, Ids, Larger(s1))
    BY <2>2, <2>3 DEF Agree
  <2> HIDE DEF line, s1
  <2> QED
    BY <1>1, <2>3, <2>4, ThroughAgrees
<1> QED
  BY <1>3 DEF VisitOne, Picked

\* Such a walk there is, so that Visit is one: the recursion is well founded.
LEMMA VisitUnfolds ==
  ASSUME catalog \in Catalogs
  PROVE  \A e \in Ids : \A s \in Walks : Visit[e][s] = VisitOne(Visit, e, s) /\ Visit[e][s] \in Larger(s)
<1>1. IsFiniteSet(Ids)
  BY CatalogIsRight
<1> DEFINE Goes(h, n) == \A e \in Ids : \A s \in Close(n) : h[e][s] = VisitOne(h, e, s) /\ h[e][s] \in Larger(s)
           Some == {n \in Nat : \E h : Goes(h, n)}
           all == Cardinality(Ids) + 1
<1>2. /\ \A n \in Nat : Close(n) \subseteq Close(n + 1) /\ Close(n) \subseteq Walks
      /\ Close(0) = {}
  <2>1. \A s \in Walks : Cardinality(Ids \ s.selected) \in Nat
    BY <1>1, LargerIsCloser
  <2>2. ASSUME NEW n \in Nat, NEW s \in Close(n) PROVE s \in Close(n + 1)
    <3>1. s \in Walks /\ Cardinality(Ids \ s.selected) \in Nat /\ Cardinality(Ids \ s.selected) < n
      BY <2>1, <2>2 DEF Close
    <3> QED
      BY <3>1 DEF Close
  <2>3. Close(0) = {}
    BY <2>1 DEF Close
  <2>4. \A n \in Nat : Close(n) \subseteq Walks
    BY DEF Close
  <2> QED
    BY <2>2, <2>3, <2>4
<1>3. 0 \in Some
  BY <1>2
<1>4. ASSUME NEW n \in Nat, n \in Some PROVE n + 1 \in Some
  <2> PICK h : Goes(h, n)
    BY <1>4
  <2> DEFINE g == [e \in Ids |-> [s \in Walks |-> VisitOne(h, e, s)]]
  <2>1. \A e \in Ids : \A s \in Walks : g[e][s] = VisitOne(h, e, s)
    OBVIOUS
  <2> HIDE DEF g
  <2>2. \A e \in Ids : \A s \in Close(n) : h[e][s] \in Larger(s) /\ h[e][s] = g[e][s]
    BY <1>2, <2>1
  <2>3. \A e \in Ids : \A s \in Close(n + 1) : VisitOne(h, e, s) = VisitOne(g, e, s)
    BY <2>2, VisitAgrees
  <2>4. \A e \in Ids : \A s \in Close(n + 1) : VisitOne(h, e, s) \in Larger(s)
    BY <2>2, VisitGrows
  <2>5. Goes(g, n + 1)
    BY <1>2, <2>1, <2>3, <2>4
  <2>6. n + 1 \in Nat
    OBVIOUS
  <2> HIDE DEF Goes
  <2> QED
    BY <2>5, <2>6, Zenon
<1>5. all \in Nat /\ Close(all) = Walks
  <2>1. Cardinality(Ids) \in Nat
    BY <1>1, FS_CardinalityType
  <2>2. \A s \in Walks : Cardinality(Ids \ s.selected) <= Cardinality(Ids) /\ Cardinality(Ids \ s.selected) \in Nat
    <3> SUFFICES ASSUME NEW s \in Walks
                 PROVE  Cardinality(Ids \ s.selected) <= Cardinality(Ids) /\ Cardinality(Ids \ s.selected) \in Nat
      OBVIOUS
    <3>1. Ids \ s.selected \in SUBSET Ids
      OBVIOUS
    <3> QED
      BY <1>1, <3>1, FS_Subset, LargerIsCloser
  <2> QED
    BY <2>1, <2>2 DEF Close
<1> HIDE DEF Some
<1>6. all \in Some
  BY <1>3, <1>4, <1>5, EveryNumber
<1>7. PICK h : \A e \in Ids : \A s \in Walks : h[e][s] = VisitOne(h, e, s) /\ h[e][s] \in Larger(s)
  BY <1>5, <1>6 DEF Some
<1> DEFINE g == [e \in Ids |-> [s \in Walks |-> h[e][s]]]
<1>8. \A e \in Ids : \A s \in Walks : g[e][s] = h[e][s]
  OBVIOUS
<1>9. \A e \in Ids : \A s \in Walks : g[e][s] = VisitOne(g, e, s)
  <2> SUFFICES ASSUME NEW e \in Ids, NEW s \in Walks PROVE g[e][s] = VisitOne(g, e, s)
    OBVIOUS
  <2> HIDE DEF g
  <2>1. s \in Close(all + 1) /\ \A d \in Ids : \A u \in Close(all) : h[d][u] \in Larger(u) /\ h[d][u] = g[d][u]
    BY <1>2, <1>5, <1>7, <1>8
  <2>2. VisitOne(h, e, s) = VisitOne(g, e, s)
    BY <1>5, <2>1, VisitAgrees
  <2> QED
    BY <1>7, <1>8, <2>2
<1>10. g = [e \in Ids |-> [s \in Walks |-> VisitOne(g, e, s)]]
  <2>1. \A e \in Ids : [s \in Walks |-> h[e][s]] = [s \in Walks |-> VisitOne(g, e, s)]
    <3> DEFINE one(e, s) == VisitOne(g, e, s)
    <3>1. \A e \in Ids : \A s \in Walks : h[e][s] = one(e, s)
      BY <1>8, <1>9
    <3> HIDE DEF one
    <3>2. \A e \in Ids : [s \in Walks |-> h[e][s]] = [s \in Walks |-> one(e, s)]
      BY <3>1
    <3> QED
      BY <3>2 DEF one
  <2> DEFINE left(e) == [s \in Walks |-> h[e][s]]
             right(e) == [s \in Walks |-> VisitOne(g, e, s)]
  <2>2. \A e \in Ids : left(e) = right(e)
    BY <2>1
  <2> HIDE DEF left, right
  <2>3. [e \in Ids |-> left(e)] = [e \in Ids |-> right(e)]
    BY <2>2
  <2> QED
    BY <2>3, Zenon DEF left, right
<1> HIDE DEF g
<1>11. Visit = [e \in Ids |-> [s \in Walks |-> VisitOne(Visit, e, s)]]
  BY <1>10, Zenon DEF Visit
<1>12. \A e \in Ids : \A s \in Walks : Visit[e][s] = VisitOne(Visit, e, s)
  <2> DEFINE whole(e) == [s \in Walks |-> VisitOne(Visit, e, s)]
             one(e, s) == VisitOne(Visit, e, s)
  <2>1. \A e \in Ids : Visit[e] = whole(e)
    <3> HIDE DEF whole
    <3>1. Visit = [e \in Ids |-> whole(e)]
      BY <1>11, Zenon DEF whole
    <3> QED
      BY <3>1
  <2>2. \A e \in Ids : \A s \in Walks : whole(e)[s] = one(e, s)
    <3> HIDE DEF one
    <3>1. \A e \in Ids : whole(e) = [s \in Walks |-> one(e, s)]
      BY Zenon DEF one
    <3> HIDE DEF whole
    <3> QED
      BY <3>1
  <2> QED
    BY <2>1, <2>2, Zenon DEF one
<1> DEFINE Growing == {n \in Nat : \A e \in Ids : \A s \in Close(n) : Visit[e][s] \in Larger(s)}
<1>13. 0 \in Growing
  BY <1>2
<1>14. ASSUME NEW n \in Nat, n \in Growing PROVE n + 1 \in Growing
  BY <1>2, <1>12, <1>14, VisitGrows
<1> HIDE DEF Growing
<1>15. all \in Growing
  BY <1>5, <1>13, <1>14, EveryNumber
<1> QED
  BY <1>5, <1>12, <1>15 DEF Growing

\* What is selected and not placed: the extensions whose requirements are being visited.
Waiting(s) == s.selected \ Range(s.ordered)

\* What is placed is selected, once, and registered.
Proper(s) ==
  /\ s.selected \subseteq registered
  /\ Range(s.ordered) \subseteq s.selected
  /\ \A i, j \in 1 .. Len(s.ordered) : s.ordered[i] = s.ordered[j] => i = j
Sound == {s \in Walks : s.thrown = "nothing" => Proper(s)}

\* Nothing is placed before what it requires.
InOrder(q) ==
  \A i \in 1 .. Len(q) : Range(catalog[q[i]].requires) \subseteq {q[j] : j \in 1 .. i - 1}

\* The graph of what is registered.
Founded ==
  /\ \A e \in registered : Range(catalog[e].requires) \subseteq registered
  /\ \A S \in SUBSET registered : S = {} \/ \E e \in S : Range(catalog[e].requires) \cap S = {}

\* Whoever waits, waits for another one or for e.
Straight(s, e) ==
  /\ Founded
  /\ InOrder(s.ordered)
  /\ \A o \in Waiting(s) : Range(catalog[o].requires) \cap (Waiting(s) \cup {e}) # {}

\* What a walk that does not throw has done between s and t.
Extended(s, t) ==
  t.thrown = "nothing" => Proper(t) /\ Waiting(t) = Waiting(s) /\ s.selected \subseteq t.selected

\* One more at the end of a sequence.
LEMMA OneMorePlaced ==
  ASSUME NEW q \in Seq(Ids), NEW e \in Ids
  PROVE  /\ Len(q) \in Nat /\ Len(Append(q, e)) = Len(q) + 1 /\ Append(q, e)[Len(q) + 1] = e
         /\ \A i \in 1 .. Len(q) : Append(q, e)[i] = q[i]
         /\ Range(Append(q, e)) = Range(q) \cup {e}
         /\ Range(q) = {q[i] : i \in 1 .. Len(q)}
<1>1. /\ Len(q) \in Nat /\ Len(Append(q, e)) = Len(q) + 1 /\ Append(q, e)[Len(q) + 1] = e
      /\ \A i \in 1 .. Len(q) : Append(q, e)[i] = q[i]
  OBVIOUS
<1>2. DOMAIN q = 1 .. Len(q) /\ DOMAIN Append(q, e) = 1 .. (Len(q) + 1)
  OBVIOUS
<1>3. Range(Append(q, e)) = Range(q) \cup {e}
  <2> DEFINE a == Append(q, e)
  <2>1. /\ \A i \in 1 .. Len(q) : i \in 1 .. (Len(q) + 1) /\ a[i] = q[i]
        /\ Len(q) + 1 \in 1 .. (Len(q) + 1) /\ a[Len(q) + 1] = e
        /\ \A i \in 1 .. (Len(q) + 1) : i \in 1 .. Len(q) \/ i = Len(q) + 1
    BY <1>1
  <2> HIDE DEF a
  <2>2. DOMAIN a = 1 .. (Len(q) + 1)
    BY <1>2 DEF a
  <2>3. Range(a) = Range(q) \cup {e}
    BY <1>2, <2>1, <2>2 DEF Range
  <2> QED
    BY <2>3 DEF a
<1>4. Range(q) = {q[i] : i \in 1 .. Len(q)}
  BY <1>2 DEF Range
<1> QED
  BY <1>1, <1>3, <1>4

\* To select an extension, which then waits.
LEMMA PickingKeeps ==
  ASSUME NEW s \in Walks, Proper(s), NEW e \in Ids, e \in registered, e \notin s.selected
  PROVE  Proper(Picked(s, e)) /\ Waiting(Picked(s, e)) = Waiting(s) \cup {e} /\ (InOrder(s.ordered) => InOrder(Picked(s, e).ordered))
<1>1. Picked(s, e).selected = s.selected \cup {e} /\ Picked(s, e).ordered = s.ordered
  BY WalkFields
<1>2. e \notin Range(s.ordered)
  BY DEF Proper
<1>3. Proper(Picked(s, e))
  BY <1>1 DEF Proper
<1>4. Waiting(Picked(s, e)) = Waiting(s) \cup {e}
  BY <1>1, <1>2 DEF Waiting
<1>5. InOrder(s.ordered) => InOrder(Picked(s, e).ordered)
  BY <1>1
<1> QED
  BY <1>3, <1>4, <1>5

\* To place an extension, when all that it requires is placed.
LEMMA PlacingKeeps ==
  ASSUME NEW t \in Walks, Proper(t), NEW e \in Waiting(t)
  PROVE  /\ Proper(Placed(t, e)) /\ Waiting(Placed(t, e)) = Waiting(t) \ {e}
         /\ InOrder(t.ordered) /\ Range(catalog[e].requires) \subseteq Range(t.ordered) => InOrder(Placed(t, e).ordered)
<1> DEFINE q == t.ordered
           r == Placed(t, e).ordered
<1>1. e \in Ids /\ e \in t.selected /\ e \notin Range(q) /\ q \in Seq(Ids)
  BY WalkFields DEF Waiting
<1>2. Placed(t, e).selected = t.selected /\ r = Append(q, e)
  BY <1>1, WalkFields
<1>3. /\ Len(q) \in Nat /\ Len(r) = Len(q) + 1 /\ r[Len(q) + 1] = e
      /\ \A i \in 1 .. Len(q) : r[i] = q[i]
      /\ Range(r) = Range(q) \cup {e} /\ Range(q) = {q[i] : i \in 1 .. Len(q)}
  <2>1. /\ Len(q) \in Nat /\ Len(Append(q, e)) = Len(q) + 1 /\ Append(q, e)[Len(q) + 1] = e
        /\ \A i \in 1 .. Len(q) : Append(q, e)[i] = q[i]
        /\ Range(Append(q, e)) = Range(q) \cup {e} /\ Range(q) = {q[i] : i \in 1 .. Len(q)}
    <3> HIDE DEF q
    <3> QED
      BY <1>1, OneMorePlaced
  <2> HIDE DEF q, r
  <2> QED
    BY <1>2, <2>1
<1> HIDE DEF q, r
<1>4. Proper(Placed(t, e))
  <2>1. Placed(t, e).selected \subseteq registered /\ Range(r) \subseteq Placed(t, e).selected
    BY <1>1, <1>2, <1>3 DEF Proper, q
  <2>2. \A i, j \in 1 .. Len(r) : r[i] = r[j] => i = j
    <3>1. \A i, j \in 1 .. Len(q) : q[i] = q[j] => i = j
      BY DEF Proper, q
    <3>2. \A i \in 1 .. Len(q) : q[i] # e
      BY <1>1, <1>3
    <3>3. \A i \in 1 .. Len(r) : i \in 1 .. Len(q) \/ i = Len(q) + 1
      BY <1>3
    <3> QED
      BY <1>3, <3>1, <3>2, <3>3
  <2> QED
    BY <2>1, <2>2 DEF Proper, r
<1>5. Waiting(Placed(t, e)) = Waiting(t) \ {e}
  BY <1>1, <1>2, <1>3 DEF Waiting, q, r
<1>6. ASSUME InOrder(t.ordered), Range(catalog[e].requires) \subseteq Range(q) PROVE InOrder(Placed(t, e).ordered)
  <2> SUFFICES ASSUME NEW i \in 1 .. Len(r)
               PROVE  Range(catalog[r[i]].requires) \subseteq {r[j] : j \in 1 .. i - 1}
    BY DEF InOrder, r
  <2>1. CASE i \in 1 .. Len(q)
    <3>1. Range(catalog[q[i]].requires) \subseteq {q[j] : j \in 1 .. i - 1}
      BY <1>6, <2>1 DEF InOrder, q
    <3>2. \A j \in 1 .. i - 1 : q[j] = r[j]
      BY <1>3, <2>1
    <3> QED
      BY <1>3, <2>1, <3>1, <3>2
  <2>2. CASE i = Len(q) + 1
    <3>1. i - 1 = Len(q) /\ r[i] = e
      BY <1>3, <2>2
    <3>2. {r[j] : j \in 1 .. Len(q)} = Range(q)
      BY <1>3
    <3> QED
      BY <1>6, <3>1, <3>2
  <2> QED
    BY <1>3, <2>1, <2>2
<1> QED
  BY <1>4, <1>5, <1>6 DEF q

\* What an extension requires is placed, when all of it is selected and the graph is
\* sound: else those that wait would require one another in a circle.
LEMMA RequiredIsPlaced ==
  ASSUME NEW s, NEW t, NEW e, Straight(s, e), Proper(t), Waiting(t) = Waiting(s) \cup {e},
         Range(catalog[e].requires) \subseteq t.selected
  PROVE  Range(catalog[e].requires) \subseteq Range(t.ordered)
<1> SUFFICES ASSUME NEW d \in Range(catalog[e].requires), d \notin Range(t.ordered) PROVE FALSE
  OBVIOUS
<1> DEFINE G == Waiting(s) \cup {e}
<1>1. d \in G
  BY DEF Waiting
<1>2. G \in SUBSET registered /\ G # {}
  BY DEF Waiting, Proper
<1>3. \A o \in G : Range(catalog[o].requires) \cap G # {}
  BY <1>1 DEF Straight
<1> QED
  BY <1>2, <1>3, Zenon DEF Straight, Founded

\* From a state that is sound a walk that does not throw comes to one where the
\* extension is selected and nobody else waits.
LEMMA VisitIsRight ==
  ASSUME catalog \in Catalogs, NEW e \in Ids, NEW s \in Sound
  PROVE  /\ Visit[e][s] \in Sound /\ Extended(s, Visit[e][s])
         /\ Visit[e][s].thrown = "nothing" => /\ e \in Visit[e][s].selected
                                              /\ Straight(s, e) => InOrder(Visit[e][s].ordered)
<1> DEFINE Done(d, u) == /\ Visit[d][u] \in Sound /\ Extended(u, Visit[d][u])
                         /\ Visit[d][u].thrown = "nothing" => /\ d \in Visit[d][u].selected
                                                              /\ Straight(u, d) => InOrder(Visit[d][u].ordered)
           Claimed == {n \in Nat : \A d \in Ids : \A u \in Sound \cap Close(n) : Done(d, u)}
<1>1. IsFiniteSet(Ids)
  BY CatalogIsRight
<1>2. 0 \in Claimed
  <2>1. \A u \in Walks : Cardinality(Ids \ u.selected) \in Nat
    BY <1>1, LargerIsCloser
  <2>2. Close(0) = {}
    BY <2>1 DEF Close
  <2> QED
    BY <2>2
<1>3. ASSUME NEW n \in Nat, n \in Claimed PROVE n + 1 \in Claimed
  <2> SUFFICES ASSUME NEW d \in Ids, NEW u \in Sound, u \in Close(n + 1) PROVE Done(d, u)
    OBVIOUS
  <2> DEFINE line == catalog[d].requires
             u1 == Picked(u, d)
             t == Through(Visit, line, Ids, u1)
             Met1(v, i) == v.thrown = "nothing" => /\ \A j \in 1 .. i : line[j] \in v.selected
                                                   /\ Straight(u, d) => InOrder(v.ordered)
             Stage(i) == {v \in Larger(u1) : v \in Sound /\ Extended(u1, v) /\ Met1(v, i)}
             P == [i \in 0 .. Len(line) |-> Stage(i)]
  <2>1. u \in Walks /\ Visit[d][u] = VisitOne(Visit, d, u) /\ (u.thrown = "nothing" => Proper(u))
    BY VisitUnfolds DEF Sound
  <2>2. line \in Seq(Ids) /\ Len(line) \in Nat /\ \A i \in 1 .. Len(line) : line[i] \in Ids
    BY CatalogIsRight
  <2>3. CASE u.thrown # "nothing" \/ d \in u.selected
    <3>1. Visit[d][u] = u
      BY <2>1, <2>3, VisitCases
    <3> QED
      BY <2>1, <2>3, <3>1 DEF Extended, Sound, Straight
  <2>4. CASE u.thrown = "nothing" /\ d \notin u.selected /\ d \notin registered
    <3>1. Visit[d][u] = [u EXCEPT !.thrown = "missing"]
      BY <2>1, <2>4, VisitCases
    <3>2. Visit[d][u] \in Walks /\ Visit[d][u].thrown # "nothing"
      BY <2>1, <3>1, WalkFields
    <3> QED
      BY <3>2 DEF Extended, Sound
  <2>5. CASE u.thrown = "nothing" /\ d \notin u.selected /\ d \in registered
    <3>1. Visit[d][u] = Placed(t, d)
      BY <2>1, <2>5, VisitCases
    <3>2. /\ u1 \in Walks /\ u1.selected = u.selected \cup {d} /\ u1.ordered = u.ordered /\ u1.thrown = "nothing"
          /\ Proper(u1) /\ Waiting(u1) = Waiting(u) \cup {d} /\ (InOrder(u.ordered) => InOrder(u1.ordered))
      BY <2>1, <2>5, WalkFields, PickingKeeps
    <3>3. Larger(u1) \subseteq Close(n) /\ u1 \in Larger(u1) /\ \A v \in Larger(u1) : Larger(v) \subseteq Larger(u1)
      BY <1>1, <2>5, <3>2, PickedIsCloser, LargerIsCloser DEF Larger
    <3>4. u1 \in P[0]
      <4>1. u1 \in Sound /\ Extended(u1, u1) /\ (Straight(u, d) => InOrder(u1.ordered))
        BY <3>2 DEF Sound, Extended, Straight
      <4>2. 0 \in 0 .. Len(line) /\ 1 .. 0 = {}
        BY <2>2
      <4> QED
        BY <3>3, <4>1, <4>2
    <3>5. ASSUME NEW i \in 1 .. Len(line), NEW v \in P[i - 1]
          PROVE  (IF line[i] \in Ids THEN Visit[line[i]][v] ELSE v) \in P[i]
      <4> DEFINE w == Visit[line[i]][v]
      <4>1. line[i] \in Ids /\ i \in 0 .. Len(line) /\ i - 1 \in 0 .. Len(line)
            /\ (\A j \in 1 .. i : j = i \/ j \in 1 .. (i - 1))
        BY <2>2
      <4>2. /\ v \in Larger(u1) /\ v \in Sound /\ Extended(u1, v)
            /\ v.thrown = "nothing" => /\ \A j \in 1 .. (i - 1) : line[j] \in v.selected
                                       /\ Straight(u, d) => InOrder(v.ordered)
        <5> HIDE DEF Stage
        <5>1. v \in Stage(i - 1)
          BY <3>5, <4>1
        <5> QED
          BY <5>1, Zenon DEF Stage
      <4>3. v \in Close(n) /\ v \in Walks /\ w \in Larger(v) /\ w \in Larger(u1)
        BY <3>3, <4>1, <4>2, VisitUnfolds DEF Larger
      <4>4. Done(line[i], v)
        BY <1>3, <4>1, <4>2, <4>3
      <4>5. v.thrown # "nothing" => w.thrown # "nothing"
        <5>1. v.thrown # "nothing" => w = v
          BY <4>1, <4>3, VisitUnfolds, VisitCases
        <5> QED
          BY <5>1
      <4>6. v.thrown = "nothing" /\ Straight(u, d) => Straight(v, line[i])
        <5> SUFFICES ASSUME v.thrown = "nothing", Straight(u, d),
                            NEW o \in Waiting(v)
                     PROVE  Range(catalog[o].requires) \cap (Waiting(v) \cup {line[i]}) # {}
          BY <4>2 DEF Straight
        <5>1. Waiting(v) = Waiting(u) \cup {d}
          BY <3>2, <4>2 DEF Extended
        <5>2. CASE o = d
          <6>1. line[i] \in Range(line)
            BY <2>2 DEF Range
          <6> QED
            BY <5>2, <6>1
        <5>3. CASE o # d
          BY <5>1, <5>3 DEF Straight
        <5> QED
          BY <5>2, <5>3
      <4> HIDE DEF w
      <4>7. /\ Extended(u1, w) /\ w \in Sound
            /\ w.thrown = "nothing" => /\ v.selected \subseteq w.selected /\ line[i] \in w.selected
                                       /\ Straight(u, d) => InOrder(w.ordered)
        BY <4>2, <4>4, <4>5, <4>6 DEF Extended, w
      <4>8. w.thrown = "nothing" => \A j \in 1 .. i : line[j] \in w.selected
        BY <4>1, <4>2, <4>5, <4>7
      <4>9. w \in Stage(i)
        BY <4>1, <4>3, <4>7, <4>8
      <4> QED
        BY <4>1, <4>9 DEF w
    <3>6. t \in P[Len(line)]
      <4> HIDE DEF P, u1, line
      <4> QED
        BY <2>2, <3>4, <3>5, ThroughReaches
    <3>7. /\ t \in Walks /\ t \in Sound /\ Extended(u1, t)
          /\ t.thrown = "nothing" => /\ \A j \in 1 .. Len(line) : line[j] \in t.selected
                                     /\ Straight(u, d) => InOrder(t.ordered)
      <4>1. Len(line) \in 0 .. Len(line)
        BY <2>2
      <4> HIDE DEF Stage, t
      <4>2. t \in Stage(Len(line))
        BY <3>6, <4>1
      <4> QED
        BY <4>2, Zenon DEF Stage, Larger
    <3> HIDE DEF t
    <3>8. Placed(t, d) \in Walks /\ Placed(t, d).thrown = t.thrown /\ Placed(t, d).selected = t.selected
      BY <3>7, WalkFields
    <3>9. ASSUME t.thrown = "nothing"
          PROVE  /\ Proper(Placed(t, d)) /\ Waiting(Placed(t, d)) = Waiting(u)
                 /\ u.selected \subseteq t.selected /\ d \in t.selected
                 /\ Straight(u, d) => InOrder(Placed(t, d).ordered)
      <4>1. Proper(t) /\ Waiting(t) = Waiting(u) \cup {d} /\ u1.selected \subseteq t.selected
        BY <3>2, <3>7, <3>9 DEF Extended
      <4>2. Range(line) \subseteq t.selected
        BY <2>2, <3>7, <3>9 DEF Range
      <4>3. Straight(u, d) => InOrder(t.ordered) /\ Range(line) \subseteq Range(t.ordered)
        BY <3>7, <3>9, <4>1, <4>2, RequiredIsPlaced
      <4>4. d \notin Waiting(u)
        BY <2>5 DEF Waiting
      <4>5. d \in Waiting(t) /\ d \in t.selected
        BY <4>1 DEF Waiting
      <4>6. /\ Proper(Placed(t, d)) /\ Waiting(Placed(t, d)) = Waiting(t) \ {d}
            /\ InOrder(t.ordered) /\ Range(line) \subseteq Range(t.ordered) => InOrder(Placed(t, d).ordered)
        BY <3>7, <4>1, <4>5, PlacingKeeps
      <4>7. u.selected \subseteq t.selected
        BY <3>2, <4>1
      <4>8. Waiting(Placed(t, d)) = Waiting(u)
        BY <4>1, <4>4, <4>6
      <4> QED
        BY <4>3, <4>5, <4>6, <4>7, <4>8
    <3> QED
      BY <3>1, <3>8, <3>9 DEF Sound, Extended
  <2> QED
    BY <2>3, <2>4, <2>5
<1> DEFINE near == Cardinality(Ids \ s.selected) + 1
<1>4. s \in Walks /\ near \in Nat /\ s \in Close(near)
  <2>1. s \in Walks
    BY DEF Sound
  <2>2. Cardinality(Ids \ s.selected) \in Nat
    BY <1>1, <2>1, LargerIsCloser
  <2> QED
    BY <2>1, <2>2 DEF Close
<1> HIDE DEF near, Claimed
<1>5. near \in Claimed
  BY <1>2, <1>3, <1>4, EveryNumber
<1> QED
  BY <1>4, <1>5 DEF Claimed

\* What resolve selects, unless a requirement is missing: the references and all that
\* they require, once each and registered, and in order if the graph is sound.
LEMMA SelectionIsRight ==
  ASSUME catalog \in Catalogs, NEW roots \in SUBSET Ids, Selection(roots).thrown = "nothing"
  PROVE  LET t == Selection(roots)
         IN  /\ t.ordered \in Seq(Ids) /\ t.selected = Range(t.ordered) /\ t.selected \subseteq registered
             /\ \A i, j \in 1 .. Len(t.ordered) : t.ordered[i] = t.ordered[j] => i = j
             /\ roots \subseteq Range(t.ordered)
             /\ Founded => InOrder(t.ordered)
<1> DEFINE t == Selection(roots)
           Met1(v, i) == v.thrown = "nothing" => /\ Waiting(v) = {} /\ (Founded => InOrder(v.ordered))
                                                 /\ \A j \in 1 .. i : Keys[j] \in roots => Keys[j] \in v.selected
           Stage(i) == {v \in Sound : Met1(v, i)}
           P == [i \in 0 .. Len(Keys) |-> Stage(i)]
<1>1. Len(Keys) \in Nat /\ \A e \in Ids : \E i \in 1 .. Len(Keys) : Keys[i] = e
  BY CatalogIsRight
<1>2. Unwalked \in P[0]
  <2>1. Unwalked \in Walks /\ Unwalked.selected = {} /\ Unwalked.ordered = <<>> /\ Len(Unwalked.ordered) = 0
        /\ Range(Unwalked.ordered) = {}
    BY DEF Unwalked, Walks, Range
  <2>2. Unwalked \in Sound /\ Waiting(Unwalked) = {} /\ InOrder(Unwalked.ordered)
    BY <2>1 DEF Sound, Proper, Waiting, InOrder
  <2>3. 0 \in 0 .. Len(Keys) /\ 1 .. 0 = {}
    BY <1>1
  <2> QED
    BY <2>2, <2>3
<1>3. ASSUME NEW i \in 1 .. Len(Keys), NEW v \in P[i - 1]
      PROVE  (IF Keys[i] \in roots THEN Visit[Keys[i]][v] ELSE v) \in P[i]
  <2> DEFINE w == Visit[Keys[i]][v]
  <2>1. i \in 0 .. Len(Keys) /\ i - 1 \in 0 .. Len(Keys) /\ \A j \in 1 .. i : j = i \/ j \in 1 .. (i - 1)
    BY <1>1
  <2>2. v \in Sound /\ Met1(v, i - 1)
    <3> HIDE DEF Met1
    <3> QED
      BY <1>3, <2>1
  <2>3. CASE Keys[i] \in roots
    <3>1. v \in Walks /\ Keys[i] \in Ids
      BY <2>2, <2>3 DEF Sound
    <3>2. /\ w \in Sound /\ Extended(v, w)
          /\ w.thrown = "nothing" => Keys[i] \in w.selected /\ (Straight(v, Keys[i]) => InOrder(w.ordered))
      BY <2>2, <3>1, VisitIsRight
    <3>3. v.thrown # "nothing" => w = v
      BY <3>1, VisitUnfolds, VisitCases
    <3>4. v.thrown = "nothing" /\ Founded => Straight(v, Keys[i])
      BY <2>2 DEF Straight
    <3> HIDE DEF w
    <3>5. w \in Stage(i)
      BY <2>1, <2>2, <3>2, <3>3, <3>4 DEF Extended
    <3> QED
      BY <2>1, <2>3, <3>5 DEF w
  <2>4. CASE Keys[i] \notin roots
    BY <2>1, <2>2, <2>4
  <2> QED
    BY <2>3, <2>4
<1>4. t \in P[Len(Keys)]
  <2> HIDE DEF P
  <2> QED
    BY <1>1, <1>2, <1>3, ThroughReaches DEF Selection
<1>5. t \in Sound /\ Met1(t, Len(Keys)) /\ t.thrown = "nothing"
  <2>1. Len(Keys) \in 0 .. Len(Keys)
    BY <1>1
  <2> HIDE DEF Met1, t
  <2>2. t \in Sound /\ Met1(t, Len(Keys))
    BY <1>4, <2>1
  <2> QED
    BY <2>2 DEF t
<1> HIDE DEF t
<1>6. /\ t.ordered \in Seq(Ids) /\ t.selected \subseteq registered
      /\ Range(t.ordered) \subseteq t.selected /\ Waiting(t) = {} /\ (Founded => InOrder(t.ordered))
      /\ \A i, j \in 1 .. Len(t.ordered) : t.ordered[i] = t.ordered[j] => i = j
  BY <1>5, WalkFields DEF Sound, Proper
<1>7. t.selected = Range(t.ordered)
  BY <1>6 DEF Waiting
<1>8. ASSUME NEW e \in roots PROVE e \in t.selected
  <2>1. PICK i \in 1 .. Len(Keys) : Keys[i] = e
    BY <1>1
  <2> QED
    BY <1>5, <2>1
<1> QED
  BY <1>6, <1>7, <1>8 DEF t

\* A sequence that has everything once is as long as the set of what it has.
LEMMA OnceEach ==
  ASSUME NEW q \in Seq(Ids), \A i, j \in 1 .. Len(q) : q[i] = q[j] => i = j
  PROVE  Cardinality(Range(q)) = Len(q)
<1>1. Len(q) \in Nat /\ DOMAIN q = 1 .. Len(q) /\ q \in [1 .. Len(q) -> Range(q)]
  BY DEF Range
<1>2. q \in Surjection(1 .. Len(q), Range(q)) /\ q \in Injection(1 .. Len(q), Range(q))
  BY <1>1 DEF Injection, Surjection, IsInjective, Range
<1>3. IsFiniteSet(1 .. Len(q)) /\ Cardinality(1 .. Len(q)) = Len(q)
  BY <1>1, FS_Interval
<1> QED
  BY <1>2, <1>3, FS_Surjection

-----------------------------------------------------------------------------
(* The registry while it is composed: its calls overlap with one another,  *)
(* with registrations and with the freezing.                               *)

\* What a call of resolve was given when the registry was frozen.
Resolvable(roots, order) ==
  /\ roots \subseteq Range(order)
  /\ \A i, j \in 1 .. Len(order) : order[i] = order[j] => i = j
  /\ ~Conflicting(Range(order))
  /\ InOrder(order)

\* A call, and what holds of one that waits or has been answered.
CallFields == {"state", "order", "roots", "frozen"}
CallIsRight(x) ==
  /\ DOMAIN x = CallFields /\ x.order \in Seq(Ids) /\ Range(x.order) \subseteq registered
  /\ x.frozen \in BOOLEAN
  /\ x.state # "idle" /\ x.frozen = TRUE => Resolvable(x.roots, x.order)
  /\ x.state = "resolved" => \A i \in 1 .. Len(x.order) : memo[x.order[i]] = "loaded"

\* The invariant of a registry.
Composed ==
  /\ catalog \in Catalogs
  /\ frozen \in BOOLEAN
  /\ frozen => Founded
  /\ OnlyRegisteredIsLoaded
  /\ \A c \in Callers : CallIsRight(calls[c])

\* No call.
LEMMA NoCallIsRight ==
  CallIsRight(NoCall) /\ DOMAIN NoCall = CallFields /\ NoCall.frozen = FALSE /\ NoCall.state = "idle"
<1>1. /\ DOMAIN NoCall = CallFields /\ NoCall.frozen = FALSE /\ NoCall.state = "idle"
      /\ NoCall.order = <<>>
  BY DEF NoCall, CallFields
<1>2. <<>> \in Seq(Ids) /\ Range(<<>>) = {}
  BY DEF Range
<1> QED
  BY <1>1, <1>2 DEF CallIsRight

\* A call stays right while more is registered and loaded.
LEMMA CallStaysRight ==
  ASSUME NEW x, CallIsRight(x), registered \subseteq registered', catalog' = catalog,
         \A e \in Ids : memo[e] = "loaded" => memo'[e] = "loaded"
  PROVE  CallIsRight(x)'
<1>1. x.order \in Seq(Ids) /\ \A i \in 1 .. Len(x.order) : x.order[i] \in Ids
  BY DEF CallIsRight
<1>2. Resolvable(x.roots, x.order) => Resolvable(x.roots, x.order)'
  BY DEF Resolvable, Conflicting, InOrder
<1>3. x.state = "resolved" => \A i \in 1 .. Len(x.order) : memo'[x.order[i]] = "loaded"
  BY <1>1 DEF CallIsRight
<1> QED
  BY <1>2, <1>3 DEF CallIsRight

\* The same of all calls but that of c.
LEMMA ComposedStays ==
  ASSUME Composed, DOMAIN calls = Callers, catalog' = catalog, frozen' = frozen, registered' = registered,
         \A e \in Ids : memo[e] = "loaded" => memo'[e] = "loaded",
         \A e \in Ids : memo'[e] # "none" => memo[e] # "none" \/ e \in registered,
         NEW c \in Callers, NEW x, calls' = [calls EXCEPT ![c] = x], CallIsRight(x)'
  PROVE  Composed'
<1>1. (frozen => Founded)' /\ catalog' \in Catalogs /\ frozen' \in BOOLEAN
  <2>1. Founded => Founded'
    BY DEF Founded
  <2> QED
    BY <2>1, Zenon DEF Composed
<1>2. OnlyRegisteredIsLoaded'
  BY DEF Composed, OnlyRegisteredIsLoaded
<1>3. ASSUME NEW d \in Callers PROVE CallIsRight(calls[d])'
  <2>1. calls'[d] = IF d = c THEN x ELSE calls[d]
    OBVIOUS
  <2>2. PICK y : y = IF d = c THEN x ELSE calls[d]
    OBVIOUS
  <2>3. CallIsRight(y)'
    <3>1. CASE d = c
      <4>1. y = x
        BY <2>2, <3>1
      <4> QED
        BY <4>1
    <3>2. CASE d # c
      <4>1. y = calls[d]
        BY <2>2, <3>2
      <4>2. CallIsRight(y)
        BY <4>1 DEF Composed
      <4> QED
        BY <4>2, CallStaysRight
    <3> QED
      BY <3>1, <3>2
  <2>4. calls'[d] = y
    BY <2>1, <2>2
  <2> QED
    BY <2>3, <2>4
<1> QED
  BY <1>1, <1>2, <1>3 DEF Composed

\* The calls that nobody touches.
LEMMA CallsStayRight ==
  ASSUME Composed, calls' = calls, registered \subseteq registered', catalog' = catalog,
         \A e \in Ids : memo[e] = "loaded" => memo'[e] = "loaded"
  PROVE  \A c \in Callers : CallIsRight(calls[c])'
<1> SUFFICES ASSUME NEW c \in Callers PROVE CallIsRight(calls[c])'
  OBVIOUS
<1>1. PICK y : y = calls[c]
  OBVIOUS
<1>2. CallIsRight(y)
  BY <1>1 DEF Composed
<1>3. CallIsRight(y)'
  BY <1>2, CallStaysRight
<1>4. calls'[c] = y
  BY <1>1
<1> QED
  BY <1>3, <1>4

\* get of each of an order: a call that waits is right if its order is.
LEMMA FetchIsRight ==
  ASSUME Composed, RegistryTypes, NEW c \in Callers, NEW call, DOMAIN call = CallFields, call.frozen \in BOOLEAN,
         NEW order, order \in Seq(Ids), Range(order) \subseteq registered,
         call.frozen = TRUE => Resolvable(call.roots, order),
         Fetch(c, call, order), UNCHANGED <<catalog, registered, frozen>>
  PROVE  Composed'
<1> DEFINE begun == [call EXCEPT !.state = "loading", !.order = order]
<1>1. PICK wanted, throwing :
        /\ wanted = {e \in Range(order) : memo[e] = "none"}
        /\ memo' = [e \in Ids |-> IF e \in wanted \ throwing THEN "loading" ELSE memo[e]]
        /\ calls' = [calls EXCEPT ![c] = IF throwing = {} THEN begun ELSE NoCall]
  BY DEF Fetch
<1>2. /\ \A e \in Ids : memo[e] = "loaded" => memo'[e] = "loaded"
      /\ \A e \in Ids : memo'[e] # "none" => memo[e] # "none" \/ e \in registered
  BY <1>1 DEF RegistryTypes
<1>3. /\ DOMAIN begun = CallFields /\ begun.order = order /\ begun.roots = call.roots
      /\ begun.frozen = call.frozen /\ begun.state = "loading"
  BY DEF CallFields
<1>4. PICK x : x = IF throwing = {} THEN begun ELSE NoCall
  OBVIOUS
<1> HIDE DEF begun
<1>5. CallIsRight(x)
  <2>1. CASE throwing = {}
    <3>1. x = begun
      BY <1>4, <2>1
    <3>2. /\ DOMAIN x = CallFields /\ x.order \in Seq(Ids) /\ Range(x.order) \subseteq registered
          /\ x.frozen \in BOOLEAN /\ (x.frozen = TRUE => Resolvable(x.roots, x.order)) /\ x.state # "resolved"
      BY <1>3, <3>1
    <3> QED
      BY <3>2 DEF CallIsRight
  <2>2. CASE throwing # {}
    <3>1. x = NoCall
      BY <1>4, <2>2
    <3> QED
      BY <3>1, NoCallIsRight
  <2> QED
    BY <2>1, <2>2
<1>6. CallIsRight(x)'
  BY <1>2, <1>5, CallStaysRight
<1>7. DOMAIN calls = Callers /\ calls' = [calls EXCEPT ![c] = x]
  BY <1>1, <1>4 DEF RegistryTypes
<1> QED
  BY <1>2, <1>6, <1>7, ComposedStays

\* Every step of the registry keeps that: what resolve selects is right, and a frozen
\* registry stays as it is.
LEMMA ComposedKeeps ==
  ASSUME Composed, RegistryTypes, RegistryNext
  PROVE  Composed'
<1>1. catalog' = catalog /\ registered \subseteq registered'
  BY DEF RegistryNext, Register, Freeze, Get, Resolve, ResolveEnds, LoadEnds
<1>2. ASSUME NEW e \in Ids, Register(e) PROVE Composed'
  <2>1. /\ ~frozen /\ frozen' = frozen /\ memo' = memo /\ calls' = calls /\ registered \subseteq registered'
        /\ catalog' = catalog
    BY <1>2 DEF Register
  <2>2. \A c \in Callers : CallIsRight(calls[c])'
    BY <2>1, CallsStayRight
  <2>3. OnlyRegisteredIsLoaded'
    BY <2>1 DEF Composed, OnlyRegisteredIsLoaded
  <2>4. (frozen => Founded)' /\ frozen' \in BOOLEAN /\ catalog' \in Catalogs
    BY <2>1, Zenon DEF Composed
  <2> QED
    BY <2>2, <2>3, <2>4 DEF Composed
<1>3. CASE Freeze
  <2>1. /\ GraphIsValid /\ frozen' = TRUE /\ memo' = memo /\ calls' = calls /\ registered' = registered
        /\ catalog' = catalog
    BY <1>3 DEF Freeze
  <2>2. Founded
    BY <2>1, ValidGraphIsSound DEF Founded, Composed, RegistryTypes
  <2>3. Founded'
    BY <2>1, <2>2 DEF Founded
  <2>4. \A c \in Callers : CallIsRight(calls[c])'
    BY <2>1, CallsStayRight
  <2>5. OnlyRegisteredIsLoaded'
    BY <2>1 DEF Composed, OnlyRegisteredIsLoaded
  <2>6. frozen' \in BOOLEAN /\ catalog' \in Catalogs
    BY <2>1, Zenon DEF Composed
  <2> QED
    BY <2>3, <2>4, <2>5, <2>6 DEF Composed
<1>4. ASSUME NEW c \in Callers, Get(c) PROVE Composed'
  <2>1. PICK e \in registered : Fetch(c, [NoCall EXCEPT !.roots = {e}], <<e>>)
    BY <1>4 DEF Get
  <2> DEFINE call == [NoCall EXCEPT !.roots = {e}]
  <2>2. DOMAIN call = CallFields /\ call.frozen = FALSE
    BY DEF NoCall, CallFields
  <2>3. <<e>> \in Seq(Ids) /\ Range(<<e>>) \subseteq registered
    BY <2>1 DEF RegistryTypes, Range
  <2>4. UNCHANGED <<catalog, registered, frozen>>
    BY <1>4 DEF Get
  <2> HIDE DEF call
  <2> QED
    BY <2>1, <2>2, <2>3, <2>4, FetchIsRight DEF call
<1>5. ASSUME NEW c \in Callers, Resolve(c) PROVE Composed'
  <2>1. UNCHANGED <<catalog, registered, frozen>>
    BY <1>5 DEF Resolve
  <2>2. PICK roots \in Wanted :
          \/ calls' = [calls EXCEPT ![c] = NoCall] /\ UNCHANGED <<memo, loads>>
          \/ /\ Selection(roots).thrown = "nothing" /\ ~Conflicting(Selection(roots).selected)
             /\ Fetch(c, [NoCall EXCEPT !.roots = roots, !.frozen = frozen], Selection(roots).ordered)
    BY <1>5 DEF Resolve
  <2>3. CASE calls' = [calls EXCEPT ![c] = NoCall] /\ UNCHANGED <<memo, loads>>
    <3>1. PICK x : x = NoCall
      OBVIOUS
    <3>2. CallIsRight(x)
      BY <3>1, NoCallIsRight
    <3>3. CallIsRight(x)'
      BY <2>1, <2>3, <3>2, CallStaysRight
    <3>4. DOMAIN calls = Callers /\ calls' = [calls EXCEPT ![c] = x]
      BY <2>3, <3>1 DEF RegistryTypes
    <3> QED
      BY <2>1, <2>3, <3>3, <3>4, ComposedStays
  <2>4. CASE /\ Selection(roots).thrown = "nothing" /\ ~Conflicting(Selection(roots).selected)
             /\ Fetch(c, [NoCall EXCEPT !.roots = roots, !.frozen = frozen], Selection(roots).ordered)
    <3> DEFINE call == [NoCall EXCEPT !.roots = roots, !.frozen = frozen]
               t == Selection(roots)
    <3>1. /\ t.ordered \in Seq(Ids) /\ t.selected = Range(t.ordered) /\ t.selected \subseteq registered
          /\ \A i, j \in 1 .. Len(t.ordered) : t.ordered[i] = t.ordered[j] => i = j
          /\ roots \subseteq Range(t.ordered)
          /\ Founded => InOrder(t.ordered)
      <4>1. roots \in SUBSET Ids /\ catalog \in Catalogs
        BY <2>2, CatalogAssumption DEF Composed
      <4> QED
        BY <2>4, <4>1, SelectionIsRight
    <3>2. DOMAIN call = CallFields /\ call.frozen = frozen /\ call.roots = roots
      BY DEF NoCall, CallFields
    <3>3. ~Conflicting(t.selected) /\ Fetch(c, call, t.ordered)
      BY <2>4
    <3> HIDE DEF call, t
    <3>4. frozen = TRUE => Founded
      BY Zenon DEF Composed
    <3>5. call.frozen \in BOOLEAN
      BY <3>2, Zenon DEF Composed
    <3>6. call.frozen = TRUE => Resolvable(call.roots, t.ordered)
      <4>1. Founded => Resolvable(roots, t.ordered)
        <5>1. ~Conflicting(Range(t.ordered))
          BY <3>1, <3>3
        <5> QED
          BY <3>1, <5>1 DEF Resolvable
      <4>2. call.frozen = TRUE => frozen = TRUE
        BY <3>2
      <4>3. call.frozen = TRUE => Resolvable(roots, t.ordered)
        BY <3>4, <4>1, <4>2, Zenon
      <4> QED
        BY <3>2, <4>3
    <3> QED
      BY <2>1, <3>1, <3>2, <3>3, <3>5, <3>6, FetchIsRight
  <2> QED
    BY <2>2, <2>3, <2>4
<1>6. ASSUME NEW c \in Callers, ResolveEnds(c) PROVE Composed'
  <2>1. UNCHANGED <<catalog, registered, frozen, memo, loads>>
    BY <1>6 DEF ResolveEnds
  <2>2. \/ /\ {memo[e] : e \in Range(calls[c].order)} \subseteq {"loaded"}
           /\ calls' = [calls EXCEPT ![c] = [calls[c] EXCEPT !.state = "resolved"]]
        \/ calls' = [calls EXCEPT ![c] = NoCall]
    BY <1>6 DEF ResolveEnds
  <2>3. DOMAIN calls = Callers
    BY DEF RegistryTypes
  <2>4. PICK x : calls' = [calls EXCEPT ![c] = x] /\ CallIsRight(x)
    <3>1. CASE calls' = [calls EXCEPT ![c] = NoCall]
      BY <3>1, NoCallIsRight
    <3>2. CASE /\ {memo[e] : e \in Range(calls[c].order)} \subseteq {"loaded"}
               /\ calls' = [calls EXCEPT ![c] = [calls[c] EXCEPT !.state = "resolved"]]
      <4> DEFINE y == calls[c]
                 z == [y EXCEPT !.state = "resolved"]
      <4>1. CallIsRight(y) /\ y.state = "loading"
        BY <1>6 DEF Composed, ResolveEnds
      <4>2. {memo[e] : e \in Range(y.order)} \subseteq {"loaded"}
        BY <3>2
      <4> HIDE DEF y
      <4>3. DOMAIN y = CallFields
        BY <4>1 DEF CallIsRight
      <4>4. /\ DOMAIN z = CallFields /\ z.state = "resolved" /\ z.order = y.order
            /\ z.roots = y.roots /\ z.frozen = y.frozen
        BY <4>3 DEF CallFields
      <4> HIDE DEF z
      <4>5. y.order \in Seq(Ids) /\ \A i \in 1 .. Len(y.order) : y.order[i] \in Range(y.order)
        BY <4>1 DEF CallIsRight, Range
      <4>6. \A i \in 1 .. Len(y.order) : memo[y.order[i]] = "loaded"
        BY <4>2, <4>5
      <4>7. /\ Range(z.order) \subseteq registered /\ z.frozen \in BOOLEAN
            /\ z.frozen = TRUE => Resolvable(z.roots, z.order)
        BY <4>1, <4>4 DEF CallIsRight
      <4>8. CallIsRight(z)
        BY <4>4, <4>5, <4>6, <4>7 DEF CallIsRight
      <4> QED
        BY <3>2, <4>8 DEF y, z
    <3> QED
      BY <2>2, <3>1, <3>2
  <2>5. CallIsRight(x)'
    BY <2>1, <2>4, CallStaysRight
  <2> QED
    BY <2>1, <2>3, <2>4, <2>5, ComposedStays
<1>7. CASE LoadEnds
  <2>1. PICK e \in Ids, how \in {"loaded", "failed"} : memo[e] = "loading" /\ memo' = [memo EXCEPT ![e] = how]
    BY <1>7 DEF LoadEnds
  <2>2. UNCHANGED <<catalog, registered, frozen, calls>>
    BY <1>7 DEF LoadEnds
  <2>3. \A d \in Ids : /\ memo[d] = "loaded" => memo'[d] = "loaded"
                       /\ memo'[d] # "none" => memo[d] # "none"
    BY <2>1 DEF RegistryTypes
  <2>4. \A c \in Callers : CallIsRight(calls[c])'
    BY <2>2, <2>3, CallsStayRight
  <2>5. OnlyRegisteredIsLoaded'
    BY <2>2, <2>3 DEF Composed, OnlyRegisteredIsLoaded
  <2>6. Founded => Founded'
    BY <2>2 DEF Founded
  <2>7. (frozen => Founded)' /\ frozen' \in BOOLEAN /\ catalog' \in Catalogs
    BY <2>2, <2>6, Zenon DEF Composed
  <2> QED
    BY <2>4, <2>5, <2>7 DEF Composed
<1> QED
  BY <1>2, <1>3, <1>4, <1>5, <1>6, <1>7 DEF RegistryNext

-----------------------------------------------------------------------------
(* The compatibility kit.                                                  *)

\* Both outputs are there and have a canonical JSON.
Comparable == outputs = {"first", "second"} /\ fixture.fault # "encoding"

\* What the kit has found when it comes to each of its blocks.
KitTells ==
  /\ fixture \in Fixtures
  /\ phase \in {"descriptor", "registry", "execution", "comparison", "reported"}
  /\ checks \in [Checks -> {"none", "passed", "failed"}]
  /\ findings = {c \in Checks : checks[c] = "failed"}
  /\ phase = "descriptor" => \A c \in Checks : checks[c] = "none"
  /\ phase # "descriptor" => checks["descriptor"] = IF fixture.descriptor THEN "passed" ELSE "failed"
  /\ phase = "registry" => \A c \in Checks \ {"descriptor"} : checks[c] = "none"
  /\ phase \in {"execution", "comparison", "reported"} =>
       /\ loaded = (fixture.graph /\ fixture.load = "good")
       /\ checks["dependencies"] = IF fixture.graph THEN "passed" ELSE "failed"
       /\ checks["loader-identity"] = IF ~fixture.graph THEN "none" ELSE IF loaded THEN "passed" ELSE "failed"
  /\ phase = "execution" =>
       \A c \in {"execution", "artifact-safety", "determinism", "secret-safety"} : checks[c] = "none"
  /\ phase \in {"comparison", "reported"} =>
       /\ outputs = Completed
       /\ \A c \in {"execution", "artifact-safety"} :
            checks[c] = IF outputs = {"first", "second"} /\ Valid THEN "passed" ELSE "failed"
  /\ phase = "comparison" => \A c \in {"determinism", "secret-safety"} : checks[c] = "none"
  /\ phase = "reported" =>
       /\ checks["determinism"] = IF Comparable /\ fixture.equal THEN "passed" ELSE "failed"
       /\ checks["secret-safety"] = IF Comparable /\ ~fixture.leaks THEN "passed" ELSE "failed"

\* Every block of the kit leaves what the next one expects.
LEMMA KitKeeps == ASSUME KitTells, KitNext PROVE KitTells'
<1> USE DEF KitTells, Checks
<1>1. CASE CheckDescriptor
  BY <1>1 DEF CheckDescriptor, Pass, Failing
<1>2. CASE CheckLoader
  <2>1. /\ phase = "registry" /\ phase' = "execution" /\ fixture' = fixture
        /\ loaded' = (fixture.graph /\ fixture.load = "good")
    BY <1>2 DEF CheckLoader
  <2>2. checks["descriptor"] # "none" /\ \A c \in Checks \ {"descriptor"} : checks[c] = "none"
    BY <2>1
  <2>3. CASE ~fixture.graph
    <3>1. checks' = [checks EXCEPT !["dependencies"] = "failed"] /\ findings' = findings \cup {"dependencies"}
      BY <1>2, <2>3 DEF CheckLoader, Failing
    <3> QED
      BY <2>1, <2>2, <2>3, <3>1
  <2>4. CASE fixture.graph /\ fixture.load = "good"
    <3>1. /\ checks' = [checks EXCEPT !["dependencies"] = "passed", !["loader-identity"] = "passed"]
          /\ findings' = findings
      BY <1>2, <2>2, <2>4 DEF CheckLoader, Pass
    <3> QED
      BY <2>1, <2>2, <2>4, <3>1
  <2>5. CASE fixture.graph /\ fixture.load # "good"
    <3>1. /\ checks' = [checks EXCEPT !["dependencies"] = "passed", !["loader-identity"] = "failed"]
          /\ findings' = findings \cup {"loader-identity"}
      BY <1>2, <2>5 DEF CheckLoader
    <3> QED
      BY <2>1, <2>2, <2>5, <3>1
  <2> QED
    BY <2>3, <2>4, <2>5
<1>3. CASE ExecuteTwice
  BY <1>3 DEF ExecuteTwice, Pass, Failing, Completed, Valid, HasArtifacts, Unexecutable, NoSnapshot
<1>4. CASE Compare
  BY <1>4 DEF Compare, Comparable, Completed, Valid, HasArtifacts, Unexecutable, NoSnapshot
<1> QED
  BY <1>1, <1>2, <1>3, <1>4 DEF KitNext

\* What the blocks have found together is what the report says.
LEMMA KitIsRight == ASSUME KitTells PROVE PassedMeansCompatible
<1> SUFFICES ASSUME phase = "reported"
             PROVE  /\ findings = {} <=> /\ fixture.descriptor /\ fixture.graph /\ fixture.load = "good"
                                         /\ fixture.throws = "never" /\ fixture.fault \notin FaultsOf[fixture.kind]
                                         /\ fixture.equal /\ ~fixture.leaks
                    /\ findings = {} <=> \A c \in Checks : Reported(c) = "passed"
  BY DEF PassedMeansCompatible
<1> DEFINE Faultless == fixture.throws = "never" /\ fixture.fault \notin FaultsOf[fixture.kind]
<1>1. /\ checks["descriptor"] = IF fixture.descriptor THEN "passed" ELSE "failed"
      /\ loaded = (fixture.graph /\ fixture.load = "good")
      /\ checks["dependencies"] = IF fixture.graph THEN "passed" ELSE "failed"
      /\ checks["loader-identity"] = IF ~fixture.graph THEN "none" ELSE IF loaded THEN "passed" ELSE "failed"
      /\ outputs = Completed
      /\ \A c \in {"execution", "artifact-safety"} :
            checks[c] = IF outputs = {"first", "second"} /\ Valid THEN "passed" ELSE "failed"
      /\ checks["determinism"] = IF Comparable /\ fixture.equal THEN "passed" ELSE "failed"
      /\ checks["secret-safety"] = IF Comparable /\ ~fixture.leaks THEN "passed" ELSE "failed"
      /\ findings = {c \in Checks : checks[c] = "failed"}
  BY DEF KitTells
<1>2. fixture.kind \in {"language", "pack", "target", "runtime"}
  BY DEF KitTells, Fixtures
<1>3. outputs = {"first", "second"} /\ Valid <=> loaded /\ Faultless
  <2>1. {} # {"first", "second"} /\ {"first"} # {"first", "second"}
    <3>1. "second" \notin {} /\ "second" \notin {"first"} /\ "second" \in {"first", "second"}
      OBVIOUS
    <3> QED
      BY <3>1
  <2>2. fixture.throws \in {"never", "first", "second"}
    BY DEF KitTells, Fixtures
  <2>3. outputs = {"first", "second"} <=> loaded /\ ~Unexecutable /\ fixture.throws = "never"
    BY <1>1, <2>1, <2>2 DEF Completed
  <2>4. FaultsOf[fixture.kind] =
          {"files", "encoding", "size"} \cup
          IF fixture.kind = "language" THEN {"detection", "module"}
          ELSE IF fixture.kind = "pack" THEN {"module"}
          ELSE IF fixture.kind = "target" THEN {"fixture", "artifact", "duplicate", "verification"}
          ELSE {"fixture", "artifact", "duplicate"}
    BY <1>2 DEF FaultsOf
  <2>5. fixture.fault \notin FaultsOf[fixture.kind] <=> ~Unexecutable /\ Valid
    BY <1>2, <2>4 DEF Valid, HasArtifacts, Unexecutable, NoSnapshot
  <2> QED
    BY <2>3, <2>5
<1>4. findings = {} <=> \A c \in Checks : checks[c] # "failed"
  BY <1>1
<1>5. Comparable /\ Valid <=> loaded /\ Faultless
  BY <1>3 DEF Comparable, Valid
<1> QED
  BY <1>1, <1>3, <1>4, <1>5 DEF Checks, Reported, Comparable
-----------------------------------------------------------------------------
(* All uses together.                                                      *)

\* The inductive invariant of the specification.
UseInv == IInv /\ PackageInv /\ RegistryTypes /\ KitTells

\* It holds at the start of every use.
LEMMA UseBegins == ExtensionInit => UseInv
<1> SUFFICES ASSUME ExtensionInit PROVE UseInv
  OBVIOUS
<1>1. Init
  BY DEF ExtensionInit, NoRendering, Init
<1>2. /\ use \in {"load", "render", "compose", "check"}
      /\ package = Content(1) /\ manifest = 1 /\ stage = "idle" /\ attempt = 1
      /\ snapshot = <<>> /\ hashed = <<>> /\ verdict = "none" /\ live = <<>> /\ modules = {}
      /\ imports = [i \in Files |-> 0]
  BY DEF ExtensionInit, BeginDiscovery, NoDiscovery
<1>3. DiscoveryTypes
  <2>1. Content(1) \in [Files -> Versions] /\ 1 \in Versions /\ 1 \in 1 .. MaxDiscoveries
    BY DiscoveryAssumption DEF Content, Versions
  <2>2. <<>> \in Seq(Versions) /\ Len(<<>>) = 0 /\ 0 <= FileCount
    BY DiscoveryAssumption
  <2>3. IsFiniteSet({})
    BY FS_EmptySet
  <2>4. [i \in Files |-> 0] \in [Files -> 0 .. LastVersion]
    BY DiscoveryAssumption
  <2> QED
    BY <1>2, <2>1, <2>2, <2>3, <2>4 DEF DiscoveryTypes
<1>4. child = "none" /\ channel = <<>> /\ Len(channel) = 0 /\ result = "none"
  BY <1>1 DEF Init
<1>5. StageTells /\ ReadIsFresh /\ ImportIsFresh /\ ModulesAreFresh /\ AnswersAreTrue
  BY <1>2, <1>4 DEF StageTells, ReadIsFresh, ImportIsFresh, ModulesAreFresh, AnswersAreTrue
<1>6. RegistryTypes
  <2>1. IsCall(NoCall)
    BY DEF IsCall, NoCall
  <2>2. /\ registered = {} /\ memo = [e \in Ids |-> "none"] /\ loads = [e \in Ids |-> 0]
        /\ calls = [c \in Callers |-> NoCall]
    BY DEF ExtensionInit, BeginRegistry, NoRegistry
  <2> QED
    BY <2>1, <2>2 DEF RegistryTypes
<1>7. KitTells
  <2>1. [kind |-> "pack", descriptor |-> TRUE, graph |-> TRUE, load |-> "good", throws |-> "never",
         equal |-> TRUE, leaks |-> FALSE, fault |-> "none"] \in Fixtures
    BY DEF Fixtures
  <2>2. (CHOOSE f \in Fixtures : TRUE) \in Fixtures
    BY <2>1
  <2>3. /\ fixture \in Fixtures /\ phase = "descriptor" /\ checks = [c \in Checks |-> "none"] /\ findings = {}
    BY <2>2 DEF ExtensionInit, BeginKit, NoKit
  <2> QED
    BY <2>3 DEF KitTells, Checks
<1> QED
  BY <1>1, <1>3, <1>5, <1>6, <1>7, IInvInit DEF UseInv, PackageInv

\* A rendering keeps to RendererIsolation, and every use keeps the invariant.
LEMMA UseGoesOn == UseInv /\ [ExtensionNext]_extensionVars => UseInv' /\ [Next]_isolationVars
<1> SUFFICES ASSUME UseInv, [ExtensionNext]_extensionVars PROVE UseInv' /\ [Next]_isolationVars
  OBVIOUS
<1> USE DEF UseInv
<1>1. [Next]_isolationVars => IInv'
  BY IInvNext DEF isolationVars
<1>2. UNCHANGED registryVars => RegistryTypes'
  BY DEF registryVars, RegistryTypes
<1>3. UNCHANGED kitVars => KitTells'
  BY DEF kitVars, KitTells, Comparable, Completed, Valid, HasArtifacts, Unexecutable, NoSnapshot
<1>4. CASE Load
  <2>1. UNCHANGED <<registryVars, kitVars>>
    BY <1>4 DEF Load
  <2> QED
    BY <1>1, <1>2, <1>3, <1>4, <2>1, LoadKeeps
<1>5. CASE Rendering
  <2>1. UNCHANGED <<registryVars, kitVars>>
    BY <1>5 DEF Rendering, VerifyForRendering, PublishForRendering, RuleOut, SpawnVerified, ReceiveRequest, Rehash,
                ImportInChild, ImportFileInChild, Render, Isolate, others
  <2> QED
    BY <1>1, <1>2, <1>3, <1>5, <2>1, RenderingKeeps
<1>6. CASE Compose
  <2>1. RegistryNext /\ UNCHANGED <<use, isolationVars, discoveryVars, kitVars>>
    BY <1>6 DEF Compose
  <2> QED
    BY <1>1, <1>3, <2>1, RegistryKeeps, OthersKeep
<1>7. CASE Check
  <2>1. KitNext /\ UNCHANGED <<use, isolationVars, discoveryVars, registryVars>>
    BY <1>7 DEF Check
  <2> QED
    BY <1>1, <1>2, <2>1, KitKeeps, OthersKeep
<1>8. CASE UNCHANGED extensionVars
  <2>1. UNCHANGED <<use, isolationVars, discoveryVars, registryVars, kitVars>>
    BY <1>8 DEF extensionVars
  <2> QED
    BY <1>1, <1>2, <1>3, <2>1, OthersKeep
<1> QED
  BY <1>4, <1>5, <1>6, <1>7, <1>8 DEF ExtensionNext

\* The invariant holds throughout.
LEMMA UseAlways == ExtensionSpec => []UseInv
  BY UseBegins, UseGoesOn, PTL DEF ExtensionSpec

\* The kinds of state of every use, for every package, trust store, registry and
\* extension; and what of a package is imported, loaded or rendered with is what
\* was verified, but for what was replaced after its last reading.
THEOREM PackagesAreSound == ExtensionSpec => []DiscoveryInv
<1>1. UseInv => DiscoveryInv
  <2> SUFFICES ASSUME UseInv PROVE DiscoveryInv
    OBVIOUS
  <2> USE DEF UseInv, PackageInv
  <2>1. ExtensionTypeOK
    BY DEF DiscoveryTypes, RegistryTypes, KitTells, IsCall, ExtensionTypeOK
  <2>2. ImportedIsTrusted
    <3>1. live # <<>> \/ child # "none" \/ verdict \in {"verified", "loaded"} => TrustedNow
      <4>1. /\ stage = "idle" \/ stage = "first" \/ stage = "done"
               \/ stage \in {"second", "verified", "rehashing", "importing", "imported"}
            /\ verdict \in {"verified", "loaded"} => verdict # "none"
        BY DEF DiscoveryTypes
      <4>2. stage = "second" => verdict = "none" /\ live = <<>>
        BY DEF StageTells
      <4> QED
        BY <4>1, <4>2, SMTT(30) DEF StageTells
    <3> QED
      BY <3>1 DEF TrustedNow, ImportedIsTrusted
  <2>3. LoadedIsVerified
    BY DEF LoadedIsVerified, ImportIsFresh, KeptByOther
  <2>4. RenderedIsVerified
    <3> SUFFICES ASSUME use = "render", result = "rendered", NEW i \in Files
                 PROVE  live[i] = hashed[i] \/ i \in late
      BY DEF RenderedIsVerified
    <3>1. stage = "importing" /\ i \in 1 .. Len(live)
      BY DEF AnswersAreTrue, Files
    <3>2. ~Kept(i, live[i])
      BY DEF StageTells, Kept
    <3> QED
      BY <3>1, <3>2 DEF ImportIsFresh
  <2> QED
    BY <2>1, <2>2, <2>3, <2>4 DEF DiscoveryInv
<1> QED
  BY <1>1, UseAlways, PTL

\* A rendering in a child process behaves as RendererIsolation does, whatever the
\* package and its publisher do.
THEOREM RenderingIsIsolation == ExtensionSpec => Spec
<1>1. ExtensionInit => Init
  BY DEF ExtensionInit, NoRendering, Init
<1>2. UseInv /\ [ExtensionNext]_extensionVars => [Next]_vars
  BY UseGoesOn DEF isolationVars
<1> QED
  BY <1>1, <1>2, UseAlways, PTL DEF ExtensionSpec, Spec

\* So all of that is true of the renderings of the SDK: the timers and the result
\* fit the phase of the host, the child is stopped when the caller gets its
\* result, and only the first call of finish counts.
COROLLARY RenderingIsSafe == ExtensionSpec => [](TypeOK /\ ResolvedMeansStopped) /\ FirstResultStays
  BY RenderingIsIsolation, TypeCorrect, StoppedWhenResolved, FirstResultDecides, PTL

\* Lazy-load once: get keeps the promise of a
\* loader before it is settled, however many calls overlap, in any registry.
THEOREM LoadsOnce == ExtensionSpec => []LoadedOnce
<1>1. UseInv => LoadedOnce
  BY DEF UseInv, RegistryTypes, LoadedOnce
<1> QED
  BY <1>1, UseAlways, PTL

\* The registry of a behaviour, whatever it is about.
RegistryUse ==
  /\ use = "compose" => Composed
  /\ use # "compose" => /\ frozen = FALSE /\ memo = [e \in Ids |-> "none"]
                        /\ calls = [c \in Callers |-> NoCall]

\* It holds at the start.
LEMMA RegistryBegins == ExtensionInit => RegistryUse
<1> SUFFICES ASSUME ExtensionInit PROVE RegistryUse
  OBVIOUS
<1>1. frozen = FALSE /\ memo = [e \in Ids |-> "none"] /\ calls = [c \in Callers |-> NoCall]
  BY DEF ExtensionInit, BeginRegistry, NoRegistry
<1>2. ASSUME use = "compose" PROVE Composed
  <2>1. catalog \in Catalogs
    BY <1>2 DEF ExtensionInit, BeginRegistry
  <2>2. \A c \in Callers : calls[c] = NoCall
    BY <1>1
  <2>3. \A c \in Callers : CallIsRight(calls[c])
    BY <2>2, NoCallIsRight
  <2>4. OnlyRegisteredIsLoaded
    BY <1>1 DEF OnlyRegisteredIsLoaded
  <2>5. frozen \in BOOLEAN /\ (frozen => Founded)
    BY <1>1, Zenon
  <2> QED
    BY <2>1, <2>3, <2>4, <2>5 DEF Composed
<1> QED
  BY <1>1, <1>2 DEF RegistryUse

\* Every step of every use keeps it.
LEMMA RegistryGoesOn == RegistryUse /\ RegistryTypes /\ [ExtensionNext]_extensionVars => RegistryUse'
<1> SUFFICES ASSUME RegistryUse, RegistryTypes, [ExtensionNext]_extensionVars PROVE RegistryUse'
  OBVIOUS
<1>1. CASE UNCHANGED <<use, registryVars>>
  <2>1. /\ use' = use /\ catalog' = catalog /\ registered' = registered /\ frozen' = frozen
        /\ memo' = memo /\ calls' = calls
    BY <1>1 DEF registryVars
  <2>2. ASSUME Composed PROVE Composed'
    <3>1. \A c \in Callers : CallIsRight(calls[c])'
      BY <2>1, <2>2, CallsStayRight
    <3>2. OnlyRegisteredIsLoaded'
      BY <2>1, <2>2 DEF Composed, OnlyRegisteredIsLoaded
    <3>3. Founded => Founded'
      BY <2>1 DEF Founded
    <3>4. (frozen => Founded)' /\ frozen' \in BOOLEAN /\ catalog' \in Catalogs
      BY <2>1, <2>2, <3>3, Zenon DEF Composed
    <3> QED
      BY <3>1, <3>2, <3>4 DEF Composed
  <2> QED
    BY <2>1, <2>2 DEF RegistryUse
<1>2. CASE Compose
  BY <1>2, ComposedKeeps DEF Compose, RegistryUse
<1>3. CASE Load \/ Rendering \/ Check
  <2>1. UNCHANGED <<use, registryVars>>
    BY <1>3 DEF Load, Check, Rendering, VerifyForRendering, PublishForRendering, RuleOut, SpawnVerified, ReceiveRequest,
                Rehash, ImportInChild, ImportFileInChild, Render, Isolate, others
  <2> QED
    BY <1>1, <2>1
<1>4. CASE UNCHANGED extensionVars
  BY <1>1, <1>4 DEF extensionVars
<1> QED
  BY <1>2, <1>3, <1>4 DEF ExtensionNext

\* The registry, whatever its extensions require of one another, conflict with, and
\* however its calls overlap: a frozen one has all that is required and no cycle, only
\* what was registered is loaded, and only once, and what resolve returns is what was
\* asked for with all it requires, once each, loaded, without conflict and in order.
THEOREM RegistryIsSound == ExtensionSpec => []RegistryInv
<1>1. RegistryUse /\ UseInv => RegistryInv
  <2> SUFFICES ASSUME RegistryUse, UseInv PROVE RegistryInv
    OBVIOUS
  <2>1. LoadedOnce
    BY DEF UseInv, RegistryTypes, LoadedOnce
  <2>2. CASE use # "compose"
    <3>1. /\ frozen = FALSE /\ \A e \in Ids : memo[e] = "none"
          /\ \A c \in Callers : calls[c] = NoCall
      BY <2>2 DEF RegistryUse
    <3>2. FrozenIsSound
      BY <3>1, Zenon DEF FrozenIsSound
    <3>3. OnlyRegisteredIsLoaded /\ ResolvedInOrder
      BY <3>1, NoCallIsRight DEF OnlyRegisteredIsLoaded, ResolvedInOrder
    <3> QED
      BY <2>1, <3>2, <3>3 DEF RegistryInv
  <2>3. CASE use = "compose"
    <3>1. Composed
      BY <2>3 DEF RegistryUse
    <3>2. FrozenIsSound
      BY <3>1 DEF Composed, Founded, FrozenIsSound
    <3>3. OnlyRegisteredIsLoaded
      BY <3>1 DEF Composed
    <3>4. ASSUME NEW c \in Callers, calls[c].state = "resolved", calls[c].frozen
          PROVE  LET order == calls[c].order
                 IN /\ calls[c].roots \subseteq Range(order)
                    /\ Cardinality(Range(order)) = Len(order)
                    /\ ~Conflicting(Range(order))
                    /\ \A i \in DOMAIN order :
                         /\ memo[order[i]] = "loaded"
                         /\ Range(catalog[order[i]].requires) \subseteq {order[j] : j \in 1 .. i - 1}
      <4> DEFINE x == calls[c]
                 order == x.order
      <4>1. CallIsRight(x)
        BY <3>1 DEF Composed
      <4>2. x.frozen = TRUE
        BY <3>4, <4>1, Zenon DEF CallIsRight
      <4>3. order \in Seq(Ids) /\ Resolvable(x.roots, order) /\ \A i \in 1 .. Len(order) : memo[order[i]] = "loaded"
        BY <3>4, <4>1, <4>2 DEF CallIsRight
      <4>4. Cardinality(Range(order)) = Len(order)
        BY <4>3, OnceEach DEF Resolvable
      <4>5. DOMAIN order = 1 .. Len(order)
        BY <4>3
      <4> HIDE DEF order
      <4>6. \A i \in DOMAIN order : Range(catalog[order[i]].requires) \subseteq {order[j] : j \in 1 .. i - 1}
        BY <4>3, <4>5 DEF Resolvable, InOrder
      <4>7. x.roots \subseteq Range(order) /\ ~Conflicting(Range(order))
        BY <4>3 DEF Resolvable
      <4> QED
        BY <4>3, <4>4, <4>5, <4>6, <4>7 DEF order
    <3>5. ResolvedInOrder
      BY <3>4, Zenon DEF ResolvedInOrder
    <3> QED
      BY <2>1, <3>2, <3>3, <3>5 DEF RegistryInv
  <2> QED
    BY <2>2, <2>3
<1>2. UseInv => RegistryTypes
  BY DEF UseInv
<1> QED
  BY <1>1, <1>2, UseAlways, RegistryBegins, RegistryGoesOn, PTL DEF ExtensionSpec

\* An extension passes the kit if and only if it is compatible.
THEOREM KitIsSound == ExtensionSpec => []PassedMeansCompatible
<1>1. UseInv => PassedMeansCompatible
  BY KitIsRight DEF UseInv
<1> QED
  BY <1>1, UseAlways, PTL
====
