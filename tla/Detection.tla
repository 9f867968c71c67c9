------------------------------ MODULE Detection ------------------------------
(***************************************************************************)
(* Detecting the stack of a project for `aiyoke init`: the files of the    *)
(* workspace are listed when it is opened (NodeWorkspace.open), then       *)
(* AiyokeEngine.detect asks one language or framework after the other,     *)
(* each of which reads the files it knows, while the developer goes on     *)
(* working; and initialize selects those that are certain enough.          *)
(*                                                                         *)
(* A file is a record of what detection asks of its path; its content is   *)
(* the set of the words in it that are patterns of an extension.           *)
(* Confidences are in percent.                                             *)
(***************************************************************************)
EXTENDS Integers, Sequences, FiniteSets

CONSTANTS
  Registered,  \* the languages and frameworks in the order of the registry
  Trees,       \* what the files of the project may be at the start
  Contents,    \* what the developer may make of a file
  MaxChanges,  \* how often
  Missing      \* the content of a file that is not there

VARIABLES
  tree,      \* tree[f]: the content of the file f
  listing,   \* the files that were there when the workspace was opened
  turn,      \* the extension that is asked
  reading,   \* the files that it has still to read
  verdicts,  \* the confidence of each extension that has answered
  held,      \* held[f]: the words that have been in f since the listing
  kept,      \* kept[f]: those of them that have always been
  changes    \* how often the developer has changed a file

detectionVars == <<tree, listing, turn, reading, verdicts, held, kept, changes>>

Files == DOMAIN tree

\* isShareableWorkspacePath: no build output, internal or environment file.
Shareable(f) == f.shareable

\* #listFiles leaves out links, and what may not be shared.
ListFiles(t) == {f \in DOMAIN t : t[f] # Missing /\ f.regular /\ Shareable(f)}

\* indexWorkspaceFiles: paths that differ in case only are one path, that of the
\* spelling that sorts first.
Index == {f \in listing : \A g \in listing : g.path = f.path => f.spelling <= g.spelling}

Marking(d) == {f \in Index : f.name \in d.markers}

\* The files in which an extension looks for a dependency: a framework in all its
\* markers, a language in the package.json at the root.
ToRead(d) ==
  IF d.kind = "language"
  THEN {f \in Index : f.name = "package.json" /\ f.atRoot /\ d.words # {}}
  ELSE Marking(d)

\* The markers that many frameworks share.
Manifests ==
  {"package.json", "pyproject.toml", "requirements.txt", "requirements-dev.txt", "setup.py", "cargo.toml",
   "cargo.lock", "go.mod", "go.work"}

\* detectLanguage.
LanguageConfidence(d, refers) ==
  IF refers THEN 98
  ELSE IF Marking(d) # {} THEN 95
  ELSE IF \E f \in Index : f.endings \cap d.sources # {} THEN 65
  ELSE 0

\* The first pattern that a source file matches, if it is one that is not shared.
Distinctive(d) ==
  LET matched == {n \in DOMAIN d.sources : \E f \in Index : d.sources[n].text \in f.endings}
  IN  \E n \in matched : d.sources[n].distinctive /\ \A m \in matched : n <= m

\* Seeded fault: a manifest is a marker like any other.
FrameworkConfidence_AnyMarker(d, refers) ==
  IF refers THEN 99 ELSE IF Marking(d) # {} THEN 80 ELSE IF Distinctive(d) THEN 55 ELSE 0

\* detectFramework.
FrameworkConfidence(d, refers) ==
  IF refers THEN 99
  ELSE IF \E f \in Marking(d) : f.name \notin Manifests THEN 80
  ELSE IF Distinctive(d) THEN 55
  ELSE 0

Answer(refers) ==
  LET d == Registered[turn]
  IN  /\ verdicts' = Append(verdicts, IF d.kind = "language" THEN LanguageConfidence(d, refers)
                                      ELSE FrameworkConfidence(d, refers))
      /\ reading' = {}

Open ==
  /\ tree \in Trees
  /\ listing = ListFiles(tree)
  /\ turn = 0 /\ reading = {} /\ verdicts = <<>>
  /\ held = [f \in Files |-> IF tree[f] = Missing THEN {} ELSE tree[f]]
  /\ kept = held
  /\ changes = 0

Answered == Len(verdicts) = turn

Ask ==
  /\ Answered
  /\ turn < Len(Registered)
  /\ turn' = turn + 1
  /\ reading' = ToRead(Registered[turn + 1])
  /\ UNCHANGED <<tree, listing, verdicts, held, kept, changes>>

\* The listed files are read in the order of their paths.  One may have gone: read()
\* returns nothing then.
ReadFile ==
  /\ ~Answered
  /\ \E f \in reading :
       /\ \A g \in reading : f.path <= g.path
       /\ IF tree[f] # Missing /\ tree[f] \cap Registered[turn].words # {} THEN Answer(TRUE)
          ELSE reading' = reading \ {f} /\ UNCHANGED verdicts
  /\ UNCHANGED <<tree, listing, turn, held, kept, changes>>

Conclude ==
  /\ ~Answered
  /\ reading = {}
  /\ Answer(FALSE)
  /\ UNCHANGED <<tree, listing, turn, held, kept, changes>>

\* The developer writes or deletes a file.  Only a listed manifest matters: other
\* files are not read, or are what they are by their names.
Change(f) ==
  /\ changes < MaxChanges
  /\ f \in listing /\ f.name \in Manifests
  /\ \E c \in Contents \ {tree[f]} :
       LET words == IF c = Missing THEN {} ELSE c
       IN  /\ tree' = [tree EXCEPT ![f] = c]
           /\ held' = [held EXCEPT ![f] = @ \cup words]
           /\ kept' = [kept EXCEPT ![f] = @ \cap words]
  /\ changes' = changes + 1
  /\ UNCHANGED <<listing, turn, reading, verdicts>>

DetectionNext == Ask \/ ReadFile \/ Conclude \/ \E f \in Files : Change(f)

\* initialize: the threshold of each kind.
Selected(i) ==
  /\ i \in DOMAIN verdicts
  /\ verdicts[i] >= IF Registered[i].kind = "language" THEN 60 ELSE 75

-----------------------------------------------------------------------------

\* The evidence for a framework, if its files held these words: one it depends on
\* in a manifest or marker, or a marker of its own.
FrameworkEvidence(d, words) ==
  \E f \in listing : f.name \in d.markers /\ (f.name \notin Manifests \/ words[f] \cap d.words # {})

LanguageEvidence(d, words) ==
  \E f \in listing :
    \/ f.name \in d.markers
    \/ f.endings \cap d.sources # {}
    \/ f.name = "package.json" /\ f.atRoot /\ words[f] \cap d.words # {}

Evidence(d, words) == IF d.kind = "language" THEN LanguageEvidence(d, words) ELSE FrameworkEvidence(d, words)

Twins == \E f, g \in listing : f # g /\ f.path = g.path

\* docs/compatibility.md: "Framework detection requires dependency or distinctive
\* marker evidence. A generic manifest alone does not select a framework."  However
\* files change while they are read in turn, what `init` selects rests on evidence
\* that was there since the project was listed, and evidence that was there all the
\* time is not overlooked, unless two paths differ in case only.
DetectionInv ==
  /\ \A i \in DOMAIN verdicts : Selected(i) => Evidence(Registered[i], held)
  /\ \A i \in DOMAIN verdicts : Evidence(Registered[i], kept) /\ ~Twins => Selected(i)
=============================================================================
