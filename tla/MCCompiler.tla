----------------------------- MODULE MCCompiler -----------------------------
(* Small instances of Compiler for TLC.                                    *)
EXTENDS Compiler

Intent(p, owner, content) ==
  [path |-> p, ownership |-> owner, content |-> content,
   markers |-> IF owner = "managed-section" THEN <<"start", "end">> ELSE <<>>]

SpecOf(digest, eol, intents) ==
  [languages |-> {"language"}, targets |-> {[adapter |-> "codex", kind |-> "coding-agent"]}, modules |-> {},
   eol |-> eol, digest |-> digest, intents |-> intents]

Gateway(kind, protocol, routing) ==
  [adapter |-> "openrouter", kind |-> kind, protocol |-> protocol, routing |-> routing]
Module(id, defines) == [id |-> id, defines |-> defines]
Code == {Intent(1, "generated", <<"code">>)}

\* Two renderers, a generated, a user-owned and a managed file, and the lock
\* file; what two renderers disagree about, and what cannot be written at all;
\* modules that define the same, targets that are none, wrong or of another kind.
AllSpecs ==
  {[SpecOf("v1", "lf", Code \cup {Intent(2, "managed-section", <<"rules">>)}) EXCEPT
      !.languages = {},
      !.modules = {Module("a", <<<<"skill", "x">>, <<"hook", "x">>>>), Module("b", <<<<"skill", "y">>>>)},
      !.targets = {Gateway("inference-gateway", "responses", [kind |-> "capability", providerOrder |-> <<"p">>])}],
   [SpecOf("v2", "crlf", Code \cup {Intent(2, "managed-section", <<"rules", "lf", "more">>)}) EXCEPT
      !.targets = {}],
   [SpecOf("v3", "lf", {Intent(1, "user-owned", <<"code">>),
                        Intent(2, "managed-section", <<"rules">>),
                        Intent(2, "managed-section", <<"rules", "lf">>)}) EXCEPT
      !.targets = {Gateway("inference-gateway", "default", [kind |-> "fallback", models |-> <<Blank>>])}],
   SpecOf("v4", "lf", Code \cup {Intent(1, "generated", <<"other">>)}),
   [SpecOf("v5", "lf", Code) EXCEPT
      !.modules = {Module("a", <<<<"skill", "x">>, <<"hook", "x">>>>), Module("b", <<<<"skill", "x">>>>)}],
   SpecOf("v6", "lf", {Intent(3, "generated", <<"code">>)}),
   [SpecOf("v7", "lf", Code) EXCEPT
      !.targets = {Gateway("chat-plugin", "default", [kind |-> "fixed", model |-> "model"])}],
   SpecOf("v8", "lf", {Intent(2, "managed-section", <<"start">>)})}

\* Every text of up to three tokens that a developer may have left in the managed
\* file, every one of four with both markers, and some more combinations of the
\* two files.
Alphabet == {"start", "end", "word", "rules", "lf", "crlf", Legacy}
AllTokens == Alphabet \cup {"code", "more", "other"} \cup {s.digest : s \in AllSpecs}
ShortTexts ==
  UNION {[1 .. n -> Alphabet] : n \in 0 .. 3}
    \cup {t \in [1 .. 4 -> Alphabet] : \E i, j \in 1 .. 4 : t[i] = "start" /\ t[j] = "end"}
FewTexts == {Absent, <<"word">>, <<"code", "crlf">>, <<"rules", "lf">>,
             <<"word", "lf", "start", "lf", "end", "word">>, <<"start">>}
AnyText == {[p \in Paths |-> IF p = 2 THEN c ELSE Absent] : c \in ShortTexts \cup {Absent}}
SomeTexts ==
  AnyText \cup {[p \in Paths |-> IF p = 3 THEN Absent ELSE IF p = 1 THEN a ELSE b] : a, b \in FewTexts}
=============================================================================
