---------------------------- MODULE MCExtensions ----------------------------
(* A small instance of Extensions for TLC: packages of two files in two     *)
(* versions; trust stores and manifests that depart from the good ones in   *)
(* one point each; four extensions, in a diamond or with a cycle and a      *)
(* conflict.                                                               *)
EXTENDS Extensions

Edition(k, s, p) == [key |-> k, signed |-> s, parses |-> p]
SomeEditions == {Edition("k1", TRUE, TRUE), Edition("k2", TRUE, TRUE), Edition("k1", FALSE, TRUE), Edition("k1", TRUE, FALSE)}

Trust(r1, r2, keys, contents, manifests) ==
  [roots |-> [k \in {"k1", "k2"} |-> IF k = "k1" THEN r1 ELSE r2],
   revokedKeys |-> keys, revokedContents |-> contents, revokedManifests |-> manifests]
SomeTrusts ==
  {Trust(1, 1, {}, {}, {}), Trust(2, 1, {}, {}, {}), Trust(0, 1, {}, {}, {}),
   Trust(1, 1, {"k1"}, {}, {}), Trust(1, 1, {}, {1}, {}), Trust(1, 1, {}, {}, {2})}
GoodOnes == <<Edition("k1", TRUE, TRUE), Trust(1, 1, {}, {}, {})>>

FourKeys == <<"a", "b", "c", "d">>
Needs(r) == [requires |-> r, conflicts |-> {}]
Diamond == [e \in Ids |-> CASE e = "a" -> Needs(<<"c", "b">>) [] e = "b" -> Needs(<<"d">>)
                            [] e = "c" -> Needs(<<"d">>) [] e = "d" -> Needs(<<>>)]
Quarrel == [e \in Ids |-> CASE e = "a" -> Needs(<<"b">>) [] e = "b" -> Needs(<<"a">>)
                            [] e = "c" -> [requires |-> <<>>, conflicts |-> {"d"}] [] e = "d" -> Needs(<<>>)]
SomeReferences == {{"a"}, {"b", "c"}, {"c", "d"}}
SomeCatalogs == {Diamond, Quarrel}
=============================================================================
