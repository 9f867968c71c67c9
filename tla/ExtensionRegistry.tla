-------------------------- MODULE ExtensionRegistry --------------------------
(***************************************************************************)
(* ExtensionRegistry (src/extension-sdk/registry.ts).  An application      *)
(* registers its loaders, freezes the registry and resolves references;    *)
(* its calls of get and resolve overlap, since loading takes time.         *)
(***************************************************************************)
EXTENDS Naturals, Sequences, FiniteSets, SequencesExt

CONSTANTS
  Keys,      \* the keys kind:id in their order
  Catalogs,  \* the descriptors that the loaders may have
  Wanted,    \* the sets of references that resolve is called with
  Callers    \* the calls of get and resolve that may overlap

Ids == Range(Keys)

ASSUME CatalogAssumption ==
  /\ Keys \in Seq(Ids)
  /\ \A c \in Catalogs : DOMAIN c = Ids /\ \A e \in Ids : c[e].requires \in Seq(Ids) /\ c[e].conflicts \subseteq Ids
  /\ Wanted \subseteq SUBSET Ids

VARIABLES
  catalog,     \* the descriptors
  registered,  \* the keys of #loaders
  frozen,      \* #frozen
  memo,        \* of each key its promise in #loaded: "none", "loading", "loaded" or "failed"
  loads,       \* of each key how many calls of load have returned a promise
  calls        \* of each caller its call: state, order, roots and whether the registry was frozen;
               \* one that has failed is forgotten

registryVars == <<catalog, registered, frozen, memo, loads, calls>>

NoCall == [state |-> "idle", order |-> <<>>, roots |-> {}, frozen |-> FALSE]
BeginRegistry ==
  /\ catalog \in Catalogs
  /\ registered = {}
  /\ frozen = FALSE
  /\ memo = [e \in Ids |-> "none"]
  /\ loads = [e \in Ids |-> 0]
  /\ calls = [c \in Callers |-> NoCall]

\* register; a duplicate, another API or a frozen registry throw.
Register(e) ==
  /\ ~frozen
  /\ e \notin registered
  /\ registered' = registered \cup {e}
  /\ UNCHANGED <<catalog, frozen, memo, loads, calls>>

\* What the traversals of the graph keep; one that has thrown is over.
Checking == [visiting : SUBSET Ids, visited : SUBSET Ids, thrown : {"nothing", "cycle", "missing"}]
Walks == [selected : SUBSET Ids, ordered : Seq(Ids), thrown : {"nothing", "missing"}]

\* The keys of line that are in S are visited, one after the other, from the state s on.
Through(visit, line, S, s) ==
  LET after[i \in 0 .. Len(line)] ==
        IF i = 0 THEN s ELSE IF line[i] \in S THEN visit[line[i]][after[i - 1]] ELSE after[i - 1]
  IN  after[Len(line)]

\* visit of #validateDependencyGraph, which visits what is required in the same way.
ValidateOne(visit, e, s) ==
  IF s.thrown # "nothing" \/ e \in s.visited THEN s
  ELSE IF e \in s.visiting THEN [s EXCEPT !.thrown = "cycle"]
  ELSE IF e \notin registered THEN [s EXCEPT !.thrown = "missing"]
  ELSE LET t == Through(visit, catalog[e].requires, Ids, [s EXCEPT !.visiting = @ \cup {e}])
       IN  [t EXCEPT !.visiting = @ \ {e}, !.visited = @ \cup {e}]
Validate[e \in Ids] == [s \in Checking |-> ValidateOne(Validate, e, s)]

\* Seeded fault: what is being visited counts as visited.
GraphIsValid_NoCycles ==
  \A e \in registered : Range(catalog[e].requires) \subseteq registered

\* #validateDependencyGraph does not throw.
Unchecked == [visiting |-> {}, visited |-> {}, thrown |-> "nothing"]
GraphIsValid == Through(Validate, Keys, registered, Unchecked).thrown = "nothing"

Freeze ==
  /\ GraphIsValid
  /\ frozen' = TRUE
  /\ UNCHANGED <<catalog, registered, memo, loads, calls>>

\* visit of resolve, likewise.
VisitOne(visit, e, s) ==
  IF s.thrown # "nothing" \/ e \in s.selected THEN s
  ELSE IF e \notin registered THEN [s EXCEPT !.thrown = "missing"]
  ELSE LET t == Through(visit, catalog[e].requires, Ids, [s EXCEPT !.selected = @ \cup {e}])
       IN  [t EXCEPT !.ordered = Append(@, e)]
Visit[e \in Ids] == [s \in Walks |-> VisitOne(Visit, e, s)]

Unwalked == [selected |-> {}, ordered |-> <<>>, thrown |-> "nothing"]

\* Seeded fault: an extension comes before what it requires.
Selection_First(roots) ==
  LET s == Through(Visit, Keys, roots, Unwalked)
  IN  [s EXCEPT !.ordered = Reverse(@)]

\* Seeded fault: that a requirement is missing is left to the loading.
Selection_Unchecked(roots) ==
  LET s == Through(Visit, Keys, roots, Unwalked)
  IN  [selected |-> roots \cup s.selected, ordered |-> SelectSeq(Keys, LAMBDA e : e \in roots \ s.selected) \o s.ordered,
       thrown |-> "nothing"]

\* The references are visited in the order of their keys.
Selection(roots) == Through(Visit, Keys, roots, Unwalked)

Conflicting(S) == \E e \in S : catalog[e].conflicts \cap S # {}

\* Seeded fault: a promise is kept when it is fulfilled.
Fetch_KeptLate(c, call, order) ==
  LET wanted == {e \in Range(order) : memo[e] \in {"none", "loading"}}
  IN /\ memo' = [e \in Ids |-> IF e \in wanted THEN "loading" ELSE memo[e]]
     /\ loads' = [e \in Ids |-> IF e \in wanted THEN loads[e] + 1 ELSE loads[e]]
     /\ calls' = [calls EXCEPT ![c] = [call EXCEPT !.state = "loading", !.order = order]]

\* get of every reference in order, up to their promises: load is called where
\* there is none yet.  One may throw at once, and leaves no promise.
Fetch(c, call, order) ==
  LET wanted == {e \in Range(order) : memo[e] = "none"}
  IN \E throwing \in {{}} \cup {{e} : e \in wanted} :
       /\ memo' = [e \in Ids |-> IF e \in wanted \ throwing THEN "loading" ELSE memo[e]]
       /\ loads' = [e \in Ids |-> IF e \in wanted \ throwing THEN loads[e] + 1 ELSE loads[e]]
       /\ calls' = [calls EXCEPT ![c] =
            IF throwing = {} THEN [call EXCEPT !.state = "loading", !.order = order]
                             ELSE NoCall]

\* get and resolve.
Get(c) ==
  /\ calls[c].state # "loading"
  /\ \E e \in registered : Fetch(c, [NoCall EXCEPT !.roots = {e}], <<e>>)
  /\ UNCHANGED <<catalog, registered, frozen>>

Resolve(c) ==
  /\ calls[c].state # "loading"
  /\ \E roots \in Wanted :
       LET call == [NoCall EXCEPT !.roots = roots, !.frozen = frozen]
           s == Selection(roots)
       IN IF s.thrown # "nothing" \/ Conflicting(s.selected)
          THEN /\ calls' = [calls EXCEPT ![c] = NoCall]
               /\ UNCHANGED <<memo, loads>>
          ELSE Fetch(c, call, s.ordered)
  /\ UNCHANGED <<catalog, registered, frozen>>

\* A loader is done; it fails, too, if its extension has another descriptor.
LoadEnds ==
  /\ \E e \in Ids, how \in {"loaded", "failed"} :
       /\ memo[e] = "loading"
       /\ memo' = [memo EXCEPT ![e] = how]
  /\ UNCHANGED <<catalog, registered, frozen, loads, calls>>

\* Seeded fault: only success ends a call.
ResolveEnds_OnSuccess(c) ==
  /\ calls[c].state = "loading"
  /\ \A i \in DOMAIN calls[c].order : memo[calls[c].order[i]] = "loaded"
  /\ calls' = [calls EXCEPT ![c].state = "resolved"]
  /\ UNCHANGED <<catalog, registered, frozen, memo, loads>>

\* Promise.all: all are loaded, or one has failed.
ResolveEnds(c) ==
  /\ calls[c].state = "loading"
  /\ LET found == {memo[e] : e \in Range(calls[c].order)}
     IN \/ /\ found \subseteq {"loaded"}
           /\ calls' = [calls EXCEPT ![c].state = "resolved"]
        \/ /\ "failed" \in found
           /\ calls' = [calls EXCEPT ![c] = NoCall]
  /\ UNCHANGED <<catalog, registered, frozen, memo, loads>>

RegistryNext ==
  \/ \E e \in Ids : Register(e)
  \/ Freeze
  \/ \E c \in Callers : Get(c) \/ Resolve(c) \/ ResolveEnds(c)
  \/ LoadEnds
=============================================================================
