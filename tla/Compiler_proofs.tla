--------------------------- MODULE Compiler_proofs ---------------------------
(***************************************************************************)
(* Proofs about Compiler, for any texts, specifications and edits.  What a *)
(* second plan finds in a file that the first one wrote is a fact about    *)
(* normalizing texts and merging sections, whatever they are; the rest is  *)
(* that the plan of a process is the one its specification asks for.       *)
(***************************************************************************)
EXTENDS Compiler, TLAPS, FiniteSetTheorems, SequenceTheorems, WellFoundedInduction

\* A set of numbers up to N has a greatest element, unless it is empty.
LEMMA GreatestNumber ==
  ASSUME NEW N \in Nat, NEW S, S \subseteq 0 .. N, S # {}
  PROVE  \E m \in S : \A k \in S : k <= m
<1> DEFINE R == OpToRel(<, Nat)
           T == {N - k : k \in S}
<1>1. IsWellFoundedOn(R, Nat)
  BY NatLessThanWellFounded
<1>2. \A a, b \in Nat : <<a, b>> \in R <=> a < b
  <2>1. R = {p \in Nat \X Nat : p[1] < p[2]}
    BY Zenon DEF OpToRel
  <2> HIDE DEF R
  <2> QED
    BY <2>1
<1> HIDE DEF R
<1>3. T \subseteq Nat /\ T # {}
  <2>1. \A k \in S : k \in 0 .. N /\ N - k \in Nat
    OBVIOUS
  <2> QED
    BY <2>1
<1>4. PICK t \in T : \A k \in T : <<k, t>> \notin R
  BY <1>1, <1>3, WFMin
<1>5. PICK m \in S : t = N - m
  OBVIOUS
<1>6. ASSUME NEW k \in S PROVE k <= m
  <2>1. N - k \in T /\ ~(N - k < t)
    BY <1>2, <1>3, <1>4
  <2> QED
    BY <1>5, <2>1
<1> QED
  BY <1>6

-----------------------------------------------------------------------------
(* Texts.                                                                  *)

\* What a text consists of.
LEMMA TextType == ASSUME NEW c \in Texts PROVE Len(c) \in Nat /\ \A j \in 1 .. Len(c) : c[j] \in Tokens
  BY DEF Texts

\* The empty text, a line break, and two tokens.
LEMMA ShortText ==
  /\ <<>> \in Texts /\ Len(<<>>) = 0
  /\ \A x \in Tokens : <<x>> \in Texts /\ Len(<<x>>) = 1 /\ <<x>>[1] = x
  /\ \A x, y \in Tokens :
       <<x, y>> \in Texts /\ Len(<<x, y>>) = 2 /\ <<x, y>>[1] = x /\ <<x, y>>[2] = y
  BY DEF Texts

\* One text after the other.
LEMMA TwoTexts ==
  ASSUME NEW a \in Texts, NEW b \in Texts
  PROVE  /\ a \o b \in Texts /\ Len(a \o b) = Len(a) + Len(b)
         /\ \A j \in 1 .. Len(a) : (a \o b)[j] = a[j]
         /\ \A j \in Len(a) + 1 .. Len(a) + Len(b) : (a \o b)[j] = b[j - Len(a)]
<1>1. /\ a \o b \in Texts /\ Len(a \o b) = Len(a) + Len(b)
      /\ \A j \in 1 .. Len(a) + Len(b) : (a \o b)[j] = IF j <= Len(a) THEN a[j] ELSE b[j - Len(a)]
  BY ConcatProperties DEF Texts
<1>2. Len(a) \in Nat /\ Len(b) \in Nat
  BY TextType
<1> QED
  BY <1>1, <1>2

\* A part of a text.
LEMMA PartOfText ==
  ASSUME NEW c \in Texts, NEW p \in 1 .. Len(c) + 1, NEW q \in p - 1 .. Len(c)
  PROVE  /\ SubSeq(c, p, q) \in Texts /\ Len(SubSeq(c, p, q)) = q - p + 1
         /\ \A j \in 1 .. q - p + 1 : SubSeq(c, p, q)[j] = c[p + j - 1]
<1>1. Len(c) \in Nat /\ \A j \in p .. q : c[j] \in Tokens
  BY TextType
<1>2. /\ SubSeq(c, p, q) \in Seq(Tokens)
      /\ Len(SubSeq(c, p, q)) = IF p <= q THEN q - p + 1 ELSE 0
      /\ \A j \in 1 .. q - p + 1 : SubSeq(c, p, q)[j] = c[p + j - 1]
  BY <1>1, SubSeqProperties
<1> QED
  BY <1>1, <1>2 DEF Texts

\* Texts of the same tokens are the same.
LEMMA SameText ==
  ASSUME NEW a \in Texts, NEW b \in Texts, Len(a) = Len(b), \A j \in 1 .. Len(a) : a[j] = b[j]
  PROVE  a = b
  BY SeqEqual DEF Texts

-----------------------------------------------------------------------------
(* Normalized texts.                                                       *)

\* n is where the text of c ends.
EndsAt(c, n) ==
  /\ n \in 0 .. Len(c)
  /\ n > 0 => c[n] \notin Newlines
  /\ \A i \in n + 1 .. Len(c) : c[i] \in Newlines

\* There is one such place.
LEMMA TextEnds ==
  ASSUME NEW c \in Texts
  PROVE  EndsAt(c, TextLength(c)) /\ \A n : EndsAt(c, n) => n = TextLength(c)
<1> DEFINE S == {n \in 0 .. Len(c) : n > 0 => c[n] \notin Newlines}
<1>1. Len(c) \in Nat
  BY DEF Texts
<1>2. PICK m \in S : \A k \in S : k <= m
  <2>1. 0 \in S /\ S \subseteq 0 .. Len(c)
    BY <1>1
  <2> HIDE DEF S
  <2> QED
    BY <1>1, <2>1, GreatestNumber
<1>3. EndsAt(c, m)
  <2>1. ASSUME NEW i \in m + 1 .. Len(c), c[i] \notin Newlines PROVE FALSE
    <3>1. i \in S
      BY <1>1, <2>1
    <3> QED
      BY <1>1, <1>2, <2>1, <3>1
  <2> QED
    BY <1>1, <2>1 DEF EndsAt
<1>4. ASSUME NEW n, NEW k, EndsAt(c, n), EndsAt(c, k) PROVE n = k
  BY <1>1, <1>4 DEF EndsAt
<1>5. TextLength(c) = CHOOSE n \in 0 .. Len(c) : EndsAt(c, n)
  BY Zenon DEF TextLength, EndsAt
<1>6. m \in 0 .. Len(c)
  BY <1>1
<1>7. EndsAt(c, TextLength(c))
  BY <1>3, <1>5, <1>6
<1> QED
  BY <1>4, <1>7

\* What normalizing leaves.
LEMMA NormalizedText ==
  ASSUME NEW c \in Texts, NEW eol \in Newlines
  PROVE  /\ Normalized(c, eol) \in Texts
         /\ Len(Normalized(c, eol)) = TextLength(c) + 1
         /\ \A i \in 1 .. TextLength(c) + 1 :
              Normalized(c, eol)[i] = IF i > TextLength(c) \/ c[i] \in Newlines THEN eol ELSE c[i]
         /\ TextLength(c) \in 0 .. Len(c)
<1> DEFINE n == TextLength(c)
           At(i) == IF i > n \/ c[i] \in Newlines THEN eol ELSE c[i]
<1>1. Len(c) \in Nat /\ EndsAt(c, n)
  BY TextEnds DEF Texts
<1> HIDE DEF n
<1>2. n \in 0 .. Len(c) /\ n + 1 \in Nat
  BY <1>1 DEF EndsAt
<1>3. \A i \in 1 .. n + 1 : At(i) \in Tokens
  BY <1>1, <1>2, WorkspaceAssumption DEF Texts
<1>4. Normalized(c, eol) = [i \in 1 .. n + 1 |-> At(i)]
  BY Zenon DEF Normalized, n
<1> HIDE DEF At
<1>5. Normalized(c, eol) \in Texts /\ Len(Normalized(c, eol)) = n + 1
  BY <1>2, <1>3, <1>4 DEF Texts
<1>6. \A i \in 1 .. n + 1 : Normalized(c, eol)[i] = At(i)
  BY <1>4
<1> QED
  BY <1>2, <1>5, <1>6 DEF At, n

\* A text that has been normalized is normalized.
LEMMA NormalizedTwice ==
  ASSUME NEW c \in Texts, NEW eol \in Newlines
  PROVE  Normalized(Normalized(c, eol), eol) = Normalized(c, eol)
<1> DEFINE n == TextLength(c)
           d == Normalized(c, eol)
<1>1. /\ d \in Texts /\ Len(d) = n + 1 /\ n \in Nat
      /\ \A i \in 1 .. n + 1 : d[i] = IF i > n \/ c[i] \in Newlines THEN eol ELSE c[i]
  BY NormalizedText DEF Texts
<1>2. EndsAt(c, n)
  BY TextEnds
<1> HIDE DEF n, d
<1>3. EndsAt(d, n)
  BY <1>1, <1>2 DEF EndsAt
<1>4. TextLength(d) = n
  BY <1>1, <1>3, TextEnds
<1> DEFINE e == Normalized(d, eol)
<1>5. /\ e \in Texts /\ Len(e) = n + 1
      /\ \A i \in 1 .. n + 1 : e[i] = IF i > n \/ d[i] \in Newlines THEN eol ELSE d[i]
  BY <1>1, <1>4, NormalizedText
<1> HIDE DEF e
<1>6. \A i \in 1 .. n + 1 : e[i] = d[i]
  BY <1>1, <1>5
<1>7. e = d
  BY <1>1, <1>5, <1>6, SeqEqual DEF Texts
<1> QED
  BY <1>7 DEF e, d

-----------------------------------------------------------------------------
(* Managed sections.                                                       *)

\* The intent i has markers between which a section can stand.
HasMarkers(i) ==
  /\ IsIntent(i) /\ i.ownership = "managed-section"
  /\ i.markers[1] # i.markers[2] /\ i.markers[1] \notin Newlines /\ i.markers[2] \notin Newlines
  /\ ~Marked(i.content, i.markers)

\* Neither marker of i occurs in c.
Plain(c, i) == c \in Texts /\ \A j \in 1 .. Len(c) : c[j] # i.markers[1] /\ c[j] # i.markers[2]

\* t is the section of i, after a and before b.
Framed(t, i, eol, a, b) ==
  LET n == Len(a)
      k == Len(a) + Len(i.content)
  IN  /\ t \in Texts /\ Len(t) = k + 4 + Len(b)
      /\ \A j \in 1 .. n : t[j] = a[j]
      /\ t[n + 1] = i.markers[1] /\ t[n + 2] = eol
      /\ \A j \in n + 3 .. k + 2 : t[j] = i.content[j - n - 2]
      /\ t[k + 3] = i.markers[2] /\ t[k + 4] = eol
      /\ \A j \in k + 5 .. k + 4 + Len(b) : t[j] = b[j - k - 4]

\* Where a place in a framed text can be.
LEMMA FrameParts ==
  ASSUME NEW n \in Nat, NEW k \in Nat, n <= k, NEW l \in Nat, NEW j \in 1 .. k + 4 + l
  PROVE  \/ j \in 1 .. n /\ j # n + 1 /\ j # k + 3
         \/ j = n + 1 /\ j # k + 3
         \/ j \in {n + 2, k + 4} /\ j # n + 1 /\ j # k + 3
         \/ j = k + 3 /\ j # n + 1
         \/ j \in n + 3 .. k + 2 /\ j # n + 1 /\ j # k + 3 /\ j - n - 2 \in 1 .. k - n
         \/ j \in k + 5 .. k + 4 + l /\ j # n + 1 /\ j # k + 3 /\ j - k - 4 \in 1 .. l
  OBVIOUS

\* The fields of such an intent.
LEMMA Markers ==
  ASSUME NEW i, HasMarkers(i)
  PROVE  /\ i.content \in Texts /\ i.markers[1] \in Tokens /\ i.markers[2] \in Tokens
         /\ Plain(i.content, i)
  BY DEF HasMarkers, IsIntent, Plain, Marked, Positions, Texts

\* A text has no markers just in case it is plain.
LEMMA PlainMeans ==
  ASSUME NEW i, NEW c \in Texts
  PROVE  Marked(c, i.markers) <=> ~Plain(c, i)
  BY DEF Plain, Marked, Positions

\* A section after a text, and before another one.
LEMMA Frames ==
  ASSUME NEW i, HasMarkers(i), NEW eol \in Newlines, NEW a \in Texts, NEW b \in Texts
  PROVE  /\ Framed(a \o Section(i, eol) \o b, i, eol, a, b)
         /\ Framed(a \o Section(i, eol), i, eol, a, <<>>)
         /\ Framed(Section(i, eol), i, eol, <<>>, <<>>)
<1> DEFINE x == i.content
           open == <<i.markers[1], eol>>
           close == <<i.markers[2], eol>>
           head == open \o x
           s == Section(i, eol)
<1>1. /\ x \in Texts /\ open \in Texts /\ close \in Texts /\ Len(open) = 2 /\ Len(close) = 2
      /\ open[1] = i.markers[1] /\ open[2] = eol /\ close[1] = i.markers[2] /\ close[2] = eol
  BY Markers, ShortText, WorkspaceAssumption
<1>2. s = head \o close
  BY DEF Section
<1> HIDE DEF open, close, x, s
<1>4. Len(x) \in Nat /\ Len(a) \in Nat /\ Len(b) \in Nat
  BY <1>1, TextType
<1>3. /\ head \in Texts /\ Len(head) = 2 + Len(x)
      /\ \A j \in 1 .. 2 : head[j] = open[j]
      /\ \A j \in 3 .. 2 + Len(x) : head[j] = x[j - 2]
  <2>1. /\ head \in Texts /\ Len(head) = Len(open) + Len(x)
        /\ \A j \in 1 .. Len(open) : head[j] = open[j]
        /\ \A j \in Len(open) + 1 .. Len(open) + Len(x) : head[j] = x[j - Len(open)]
    BY <1>1, TwoTexts
  <2> QED
    BY <1>1, <1>4, <2>1
<1> HIDE DEF head
<1>5. /\ s \in Texts /\ Len(s) = Len(x) + 4
      /\ \A j \in 1 .. Len(x) + 2 : s[j] = head[j]
      /\ \A j \in Len(x) + 3 .. Len(x) + 4 : s[j] = close[j - (Len(x) + 2)]
  <2>1. /\ s \in Texts /\ Len(s) = Len(head) + Len(close)
        /\ \A j \in 1 .. Len(head) : s[j] = head[j]
        /\ \A j \in Len(head) + 1 .. Len(head) + Len(close) : s[j] = close[j - Len(head)]
    <3>1. /\ head \o close \in Texts /\ Len(head \o close) = Len(head) + Len(close)
          /\ \A j \in 1 .. Len(head) : (head \o close)[j] = head[j]
          /\ \A j \in Len(head) + 1 .. Len(head) + Len(close) : (head \o close)[j] = close[j - Len(head)]
      BY <1>1, <1>3, TwoTexts
    <3> QED
      BY <1>2, <3>1
  <2> QED
    BY <1>1, <1>3, <1>4, <2>1
<1>6. /\ s[1] = i.markers[1] /\ s[2] = eol
      /\ \A j \in 3 .. Len(x) + 2 : s[j] = x[j - 2]
      /\ s[Len(x) + 3] = i.markers[2] /\ s[Len(x) + 4] = eol
  BY <1>1, <1>3, <1>4, <1>5
<1> DEFINE t == a \o s
           u == t \o b
<1>7. /\ t \in Texts /\ Len(t) = Len(a) + Len(x) + 4
      /\ \A j \in 1 .. Len(a) : t[j] = a[j]
      /\ \A j \in Len(a) + 1 .. Len(a) + Len(x) + 4 : t[j] = s[j - Len(a)]
  <2>1. /\ t \in Texts /\ Len(t) = Len(a) + Len(s)
        /\ \A j \in 1 .. Len(a) : t[j] = a[j]
        /\ \A j \in Len(a) + 1 .. Len(a) + Len(s) : t[j] = s[j - Len(a)]
    BY <1>5, TwoTexts
  <2> QED
    BY <1>4, <1>5, <2>1
<1> HIDE DEF t
<1>8. /\ u \in Texts /\ Len(u) = Len(a) + Len(x) + 4 + Len(b)
      /\ \A j \in 1 .. Len(a) + Len(x) + 4 : u[j] = t[j]
      /\ \A j \in Len(a) + Len(x) + 5 .. Len(a) + Len(x) + 4 + Len(b) :
           u[j] = b[j - (Len(a) + Len(x) + 4)]
  <2>1. /\ u \in Texts /\ Len(u) = Len(t) + Len(b)
        /\ \A j \in 1 .. Len(t) : u[j] = t[j]
        /\ \A j \in Len(t) + 1 .. Len(t) + Len(b) : u[j] = b[j - Len(t)]
    BY <1>7, TwoTexts
  <2> QED
    BY <1>4, <1>7, <2>1
<1> HIDE DEF u
<1>9. /\ t[Len(a) + 1] = i.markers[1] /\ t[Len(a) + 2] = eol
      /\ \A j \in Len(a) + 3 .. Len(a) + Len(x) + 2 : t[j] = x[j - Len(a) - 2]
      /\ t[Len(a) + Len(x) + 3] = i.markers[2] /\ t[Len(a) + Len(x) + 4] = eol
  <2>1. t[Len(a) + 1] = s[1] /\ t[Len(a) + 2] = s[2]
    BY <1>4, <1>7
  <2>2. t[Len(a) + Len(x) + 3] = s[Len(x) + 3] /\ t[Len(a) + Len(x) + 4] = s[Len(x) + 4]
    BY <1>4, <1>7
  <2>3. ASSUME NEW j \in Len(a) + 3 .. Len(a) + Len(x) + 2 PROVE t[j] = x[j - Len(a) - 2]
    <3>1. t[j] = s[j - Len(a)] /\ j - Len(a) \in 3 .. Len(x) + 2
      BY <1>4, <1>7
    <3>2. (j - Len(a)) - 2 = j - Len(a) - 2
      BY <1>4
    <3> QED
      BY <1>6, <3>1, <3>2
  <2> QED
    BY <1>6, <2>1, <2>2, <2>3
<1>10. Framed(u, i, eol, a, b)
  <2>1. ASSUME NEW j \in Len(a) + Len(x) + 5 .. Len(a) + Len(x) + 4 + Len(b)
        PROVE  u[j] = b[j - (Len(a) + Len(x)) - 4]
    <3>1. j - (Len(a) + Len(x)) - 4 = j - (Len(a) + Len(x) + 4)
      BY <1>4
    <3> QED
      BY <1>8, <3>1
  <2>2. \A j \in 1 .. Len(a) + Len(x) + 4 : u[j] = t[j]
    BY <1>8
  <2>4. \A j \in 1 .. Len(a) : u[j] = a[j]
    BY <1>4, <1>7, <2>2
  <2>3. /\ u[Len(a) + 1] = i.markers[1] /\ u[Len(a) + 2] = eol
        /\ \A j \in Len(a) + 3 .. Len(a) + Len(x) + 2 : u[j] = x[j - Len(a) - 2]
        /\ u[Len(a) + Len(x) + 3] = i.markers[2] /\ u[Len(a) + Len(x) + 4] = eol
    BY <1>4, <1>9, <2>2
  <2> QED
    BY <1>4, <1>8, <2>1, <2>3, <2>4 DEF Framed, x
<1>11. Framed(t, i, eol, a, <<>>)
  <2>1. Len(<<>>) = 0 /\ Len(t) = Len(a) + Len(x) + 4 + Len(<<>>)
    BY <1>4, <1>7, ShortText
  <2>2. (Len(a) + Len(x)) + 5 .. (Len(a) + Len(x)) + 4 + Len(<<>>) = {}
    BY <1>4, <2>1
  <2> QED
    BY <1>7, <1>9, <2>1, <2>2 DEF Framed, x
<1>12. Framed(s, i, eol, <<>>, <<>>)
  BY <1>4, <1>5, <1>6, ShortText DEF Framed, x
<1> QED
  BY <1>10, <1>11, <1>12 DEF s, t, u

\* Two texts that are framed alike are the same.
LEMMA SameFrame ==
  ASSUME NEW i, HasMarkers(i), NEW eol \in Newlines, NEW a \in Texts, NEW b \in Texts,
         NEW t, NEW u, Framed(t, i, eol, a, b), Framed(u, i, eol, a, b)
  PROVE  t = u
<1>1. Len(a) \in Nat /\ Len(b) \in Nat /\ Len(i.content) \in Nat
  BY Markers, TextType
<1>2. t \in Texts /\ u \in Texts /\ Len(t) = Len(u) /\ Len(t) = Len(a) + Len(i.content) + 4 + Len(b)
  BY DEF Framed
<1>3. ASSUME NEW j \in 1 .. Len(t) PROVE t[j] = u[j]
  <2> DEFINE n == Len(a)
             k == Len(a) + Len(i.content)
  <2>1. \/ j \in 1 .. n \/ j = n + 1 \/ j = n + 2 \/ j \in n + 3 .. k + 2
        \/ j = k + 3 \/ j = k + 4 \/ j \in k + 5 .. k + 4 + Len(b)
    BY <1>1, <1>2
  <2> QED
    BY <1>2, <2>1 DEF Framed
<1> QED
  BY <1>2, <1>3, SameText

\* A section from its start marker to its end marker.
Between(i, eol) == <<i.markers[1], eol>> \o i.content \o <<i.markers[2]>>

\* What the merge of a framed section finds: the section, and what is around it.
LEMMA FrameFound ==
  ASSUME NEW i, HasMarkers(i), NEW eol \in Newlines, NEW a, Plain(a, i), NEW b, Plain(b, i),
         NEW t, Framed(t, i, eol, a, b)
  PROVE  /\ Marked(t, i.markers) /\ Delimited(t, i.markers)
         /\ Start(t, i.markers) = Len(a) + 1
         /\ End(t, i.markers) = Len(a) + Len(i.content) + 3
         /\ Before(t, i.markers) = a
         /\ After(t, i.markers) = <<eol>> \o b
         /\ SubSeq(t, Start(t, i.markers), End(t, i.markers)) = Between(i, eol)
<1> DEFINE n == Len(a)
           k == Len(a) + Len(i.content)
           m == i.markers
<1>1. /\ a \in Texts /\ b \in Texts /\ i.content \in Texts /\ Plain(i.content, i)
      /\ n \in Nat /\ Len(b) \in Nat /\ k \in Nat /\ n <= k /\ k = n + Len(i.content)
  BY Markers, TextType DEF Plain
<1>2. t \in Texts /\ Len(t) = k + 4 + Len(b) /\ m[1] # m[2] /\ eol # m[1] /\ eol # m[2]
  BY DEF Framed, HasMarkers
<1>0. /\ \A j \in 1 .. n : t[j] = a[j]
      /\ t[n + 1] = m[1] /\ t[n + 2] = eol
      /\ \A j \in n + 3 .. k + 2 : t[j] = i.content[j - n - 2]
      /\ t[k + 3] = m[2] /\ t[k + 4] = eol
      /\ \A j \in k + 5 .. k + 4 + Len(b) : t[j] = b[j - k - 4]
  BY DEF Framed
<1>13. n = Len(a)
  OBVIOUS
<1>14. Len(i.content) \in Nat
  BY <1>1, TextType
<1> HIDE DEF n, k
<1>3. ASSUME NEW j \in 1 .. Len(t)
      PROVE  (t[j] = m[1] <=> j = n + 1) /\ (t[j] = m[2] <=> j = k + 3)
  <2>1. j \in 1 .. k + 4 + Len(b)
    BY <1>2
  <2>2. CASE j \in 1 .. n /\ j # n + 1 /\ j # k + 3
    BY <1>0, <1>13, <2>2 DEF Plain
  <2>3. CASE j = n + 1 /\ j # k + 3
    BY <1>0, <1>2, <2>3
  <2>4. CASE j \in {n + 2, k + 4} /\ j # n + 1 /\ j # k + 3
    BY <1>0, <1>2, <2>4
  <2>5. CASE j = k + 3 /\ j # n + 1
    BY <1>0, <1>2, <2>5
  <2>6. CASE j \in n + 3 .. k + 2 /\ j # n + 1 /\ j # k + 3 /\ j - n - 2 \in 1 .. k - n
    <3>1. k - n = Len(i.content)
      BY <1>1, <1>14
    <3> QED
      BY <1>0, <1>1, <2>6, <3>1 DEF Plain
  <2>7. CASE j \in k + 5 .. k + 4 + Len(b) /\ j # n + 1 /\ j # k + 3 /\ j - k - 4 \in 1 .. Len(b)
    BY <1>0, <2>7 DEF Plain
  <2>8. \/ j \in 1 .. n /\ j # n + 1 /\ j # k + 3
        \/ j = n + 1 /\ j # k + 3
        \/ j \in {n + 2, k + 4} /\ j # n + 1 /\ j # k + 3
        \/ j = k + 3 /\ j # n + 1
        \/ j \in n + 3 .. k + 2 /\ j # n + 1 /\ j # k + 3 /\ j - n - 2 \in 1 .. k - n
        \/ j \in k + 5 .. k + 4 + Len(b) /\ j # n + 1 /\ j # k + 3 /\ j - k - 4 \in 1 .. Len(b)
    <3>1. n \in Nat /\ k \in Nat /\ n <= k /\ Len(b) \in Nat
      BY <1>1
    <3> QED
      BY <2>1, <3>1, FrameParts
  <2> QED
    BY <2>2, <2>3, <2>4, <2>5, <2>6, <2>7, <2>8
<1>4. n + 1 \in 1 .. Len(t) /\ k + 3 \in 1 .. Len(t)
  BY <1>1, <1>2
<1>5. Positions(t, m[1]) = {n + 1} /\ Positions(t, m[2]) = {k + 3}
  BY <1>3, <1>4 DEF Positions
<1>6. Start(t, m) = n + 1 /\ End(t, m) = k + 3
  BY <1>5 DEF Start, End
<1>7. Marked(t, m)
  BY <1>5 DEF Marked
<1>8. Delimited(t, m)
  BY <1>1, <1>4, <1>5 DEF Delimited
<1>9. Before(t, m) = a
  <2>1. Before(t, m) = SubSeq(t, 1, n)
    BY <1>1, <1>6 DEF Before
  <2>2. /\ SubSeq(t, 1, n) \in Texts /\ Len(SubSeq(t, 1, n)) = n
        /\ \A j \in 1 .. n : SubSeq(t, 1, n)[j] = t[1 + j - 1]
    <3>1. 1 \in 1 .. Len(t) + 1 /\ n \in 1 - 1 .. Len(t) /\ n - 1 + 1 = n
      BY <1>1, <1>2
    <3>2. /\ SubSeq(t, 1, n) \in Texts /\ Len(SubSeq(t, 1, n)) = n - 1 + 1
          /\ \A j \in 1 .. n - 1 + 1 : SubSeq(t, 1, n)[j] = t[1 + j - 1]
      BY <1>2, <3>1, PartOfText
    <3> QED
      BY <3>1, <3>2
  <2>3. \A j \in 1 .. n : SubSeq(t, 1, n)[j] = t[j]
    BY <1>1, <2>2
  <2>4. \A j \in 1 .. n : t[j] = a[j]
    BY <1>0
  <2> QED
    BY <1>1, <1>13, <2>1, <2>2, <2>3, <2>4, SameText
<1>10. After(t, m) = <<eol>> \o b
  <2> DEFINE rest == SubSeq(t, k + 4, Len(t))
  <2>1. After(t, m) = rest
    BY <1>1, <1>6 DEF After
  <2>2. /\ rest \in Texts /\ Len(rest) = Len(b) + 1
        /\ \A j \in 1 .. Len(b) + 1 : rest[j] = t[k + 4 + j - 1]
    <3>1. k + 4 \in 1 .. Len(t) + 1 /\ Len(t) \in (k + 4) - 1 .. Len(t) /\ Len(t) - (k + 4) + 1 = Len(b) + 1
      BY <1>1, <1>2
    <3>2. /\ rest \in Texts /\ Len(rest) = Len(t) - (k + 4) + 1
          /\ \A j \in 1 .. Len(t) - (k + 4) + 1 : rest[j] = t[(k + 4) + j - 1]
      BY <1>2, <3>1, PartOfText
    <3> QED
      BY <3>1, <3>2
  <2> HIDE DEF rest
  <2>3. <<eol>> \in Texts /\ Len(<<eol>>) = 1 /\ <<eol>>[1] = eol
    BY ShortText, WorkspaceAssumption
  <2>4. /\ <<eol>> \o b \in Texts /\ Len(<<eol>> \o b) = Len(b) + 1
        /\ (<<eol>> \o b)[1] = eol
        /\ \A j \in 2 .. Len(b) + 1 : (<<eol>> \o b)[j] = b[j - 1]
    BY <1>1, <2>3, TwoTexts
  <2>5. t[k + 4] = eol /\ \A j \in k + 5 .. k + 4 + Len(b) : t[j] = b[j - k - 4]
    BY <1>0
  <2>6. ASSUME NEW j \in 1 .. Len(b) + 1 PROVE rest[j] = (<<eol>> \o b)[j]
    <3>1. CASE j = 1
      <4>1. k + 4 + 1 - 1 = k + 4
        BY <1>1
      <4> QED
        BY <2>2, <2>4, <2>5, <3>1, <4>1
    <3>2. CASE j # 1
      <4> DEFINE p == k + 4 + j - 1
      <4>1. p \in k + 5 .. k + 4 + Len(b) /\ p - k - 4 = j - 1 /\ j \in 2 .. Len(b) + 1
        BY <1>1, <3>2
      <4>2. rest[j] = t[p]
        BY <2>2
      <4> HIDE DEF p
      <4>3. t[p] = b[j - 1]
        BY <2>5, <4>1
      <4> QED
        BY <2>4, <4>1, <4>2, <4>3
    <3> QED
      BY <3>1, <3>2
  <2> QED
    BY <1>1, <2>1, <2>2, <2>4, <2>6, SameText
<1>11. SubSeq(t, Start(t, m), End(t, m)) = Between(i, eol)
  <2> DEFINE x == i.content
             l == Len(i.content)
             open == <<m[1], eol>>
             close == <<m[2]>>
             head == open \o x
             whole == head \o close
             part == SubSeq(t, n + 1, k + 3)
  <2>1. /\ open \in Texts /\ Len(open) = 2 /\ open[1] = m[1] /\ open[2] = eol
        /\ close \in Texts /\ Len(close) = 1 /\ close[1] = m[2]
    BY Markers, ShortText, WorkspaceAssumption
  <2>2. x \in Texts /\ l = Len(x) /\ l \in Nat /\ k = n + l
    BY <1>1, <1>14
  <2>3. \A j \in n + 3 .. k + 2 : t[j] = x[j - n - 2]
    BY <1>0
  <2> HIDE DEF open, close, x, l
  <2>4. /\ head \in Texts /\ Len(head) = l + 2
        /\ \A j \in 1 .. 2 : head[j] = open[j]
        /\ \A j \in 3 .. l + 2 : head[j] = x[j - 2]
    <3>1. /\ head \in Texts /\ Len(head) = Len(open) + Len(x)
          /\ \A j \in 1 .. Len(open) : head[j] = open[j]
          /\ \A j \in Len(open) + 1 .. Len(open) + Len(x) : head[j] = x[j - Len(open)]
      BY <2>1, <2>2, TwoTexts
    <3> QED
      BY <2>1, <2>2, <3>1
  <2> HIDE DEF head
  <2>5. /\ whole \in Texts /\ Len(whole) = l + 3
        /\ \A j \in 1 .. l + 2 : whole[j] = head[j]
        /\ whole[l + 3] = m[2]
    <3>1. /\ whole \in Texts /\ Len(whole) = Len(head) + Len(close)
          /\ \A j \in 1 .. Len(head) : whole[j] = head[j]
          /\ \A j \in Len(head) + 1 .. Len(head) + Len(close) : whole[j] = close[j - Len(head)]
      BY <2>1, <2>4, TwoTexts
    <3> QED
      BY <2>1, <2>2, <2>4, <3>1
  <2> HIDE DEF whole
  <2>6. /\ part \in Texts /\ Len(part) = l + 3
        /\ \A j \in 1 .. l + 3 : part[j] = t[n + 1 + j - 1]
    <3>1. n + 1 \in 1 .. Len(t) + 1 /\ k + 3 \in (n + 1) - 1 .. Len(t) /\ (k + 3) - (n + 1) + 1 = l + 3
      BY <1>1, <1>2, <2>2
    <3>2. /\ part \in Texts /\ Len(part) = (k + 3) - (n + 1) + 1
          /\ \A j \in 1 .. (k + 3) - (n + 1) + 1 : part[j] = t[(n + 1) + j - 1]
      BY <1>2, <3>1, PartOfText
    <3> QED
      BY <3>1, <3>2
  <2> HIDE DEF part
  <2>7. ASSUME NEW j \in 1 .. l + 3 PROVE part[j] = whole[j]
    <3>0. n + 1 + 1 - 1 = n + 1 /\ n + 1 + 2 - 1 = n + 2 /\ n + 1 + (l + 3) - 1 = k + 3
      BY <1>1, <2>2
    <3>1. CASE j = 1 \/ j = 2
      BY <1>0, <2>1, <2>2, <2>4, <2>5, <2>6, <3>0, <3>1
    <3>2. CASE j = l + 3
      BY <1>0, <2>5, <2>6, <3>0, <3>2
    <3>3. CASE j \in 3 .. l + 2
      <4> DEFINE q == n + 1 + j - 1
      <4>1. q \in n + 3 .. k + 2 /\ q - n - 2 = j - 2 /\ j \in 1 .. l + 2
        BY <1>1, <2>2, <3>3
      <4>2. part[j] = t[q]
        BY <2>6
      <4> HIDE DEF q
      <4> QED
        BY <2>3, <2>4, <2>5, <3>3, <4>1, <4>2
    <3> QED
      BY <2>2, <3>1, <3>2, <3>3
  <2>8. part = whole
    BY <2>5, <2>6, <2>7, SameText
  <2> QED
    BY <1>6, <2>8 DEF part, whole, head, open, close, x, Between
<1>12. n + 1 = Len(a) + 1 /\ k + 3 = Len(a) + Len(i.content) + 3
  BY DEF n, k
<1> QED
  BY <1>6, <1>7, <1>8, <1>9, <1>10, <1>11, <1>12

\* The parts of a text around one pair of markers have no markers.
LEMMA Surroundings ==
  ASSUME NEW i, HasMarkers(i), NEW c \in Texts, Delimited(c, i.markers)
  PROVE  Plain(Before(c, i.markers), i) /\ Plain(After(c, i.markers), i)
<1> DEFINE m == i.markers
<1>1. PICK s \in 1 .. Len(c), e \in 1 .. Len(c) :
        s < e /\ Positions(c, m[1]) = {s} /\ Positions(c, m[2]) = {e}
  BY DEF Delimited
<1>2. Start(c, m) = s /\ End(c, m) = e /\ Len(c) \in Nat
  BY <1>1, TextType DEF Start, End
<1>3. \A j \in 1 .. Len(c) : (c[j] = m[1] => j = s) /\ (c[j] = m[2] => j = e)
  BY <1>1 DEF Positions
<1>4. /\ Before(c, m) \in Texts /\ Len(Before(c, m)) = s - 1
      /\ \A j \in 1 .. s - 1 : Before(c, m)[j] = c[j]
  <2>1. 1 \in 1 .. Len(c) + 1 /\ s - 1 \in 1 - 1 .. Len(c) /\ s - 1 - 1 + 1 = s - 1
    BY <1>1, <1>2
  <2>2. /\ SubSeq(c, 1, s - 1) \in Texts /\ Len(SubSeq(c, 1, s - 1)) = s - 1 - 1 + 1
        /\ \A j \in 1 .. s - 1 - 1 + 1 : SubSeq(c, 1, s - 1)[j] = c[1 + j - 1]
    BY <2>1, PartOfText
  <2>3. \A j \in 1 .. s - 1 : 1 + j - 1 = j
    BY <1>1
  <2> QED
    BY <1>2, <2>1, <2>2, <2>3 DEF Before
<1>5. /\ After(c, m) \in Texts /\ Len(After(c, m)) = Len(c) - e
      /\ \A j \in 1 .. Len(c) - e : After(c, m)[j] = c[e + j]
  <2>1. e + 1 \in 1 .. Len(c) + 1 /\ Len(c) \in (e + 1) - 1 .. Len(c) /\ Len(c) - (e + 1) + 1 = Len(c) - e
    BY <1>1, <1>2
  <2>2. /\ SubSeq(c, e + 1, Len(c)) \in Texts /\ Len(SubSeq(c, e + 1, Len(c))) = Len(c) - (e + 1) + 1
        /\ \A j \in 1 .. Len(c) - (e + 1) + 1 : SubSeq(c, e + 1, Len(c))[j] = c[(e + 1) + j - 1]
    BY <2>1, PartOfText
  <2>3. \A j \in 1 .. Len(c) - e : (e + 1) + j - 1 = e + j
    BY <1>1, <1>2
  <2> QED
    BY <1>2, <2>1, <2>2, <2>3 DEF After
<1> HIDE DEF m
<1>6. \A j \in 1 .. s - 1 : j \in 1 .. Len(c) /\ j # s /\ j # e
  BY <1>1, <1>2
<1>7. \A j \in 1 .. Len(c) - e : e + j \in 1 .. Len(c) /\ e + j # s /\ e + j # e
  BY <1>1, <1>2
<1>8. Plain(Before(c, m), i)
  BY <1>3, <1>4, <1>6 DEF Plain, m
<1>9. Plain(After(c, m), i)
  <2>1. ASSUME NEW j \in 1 .. Len(c) - e
        PROVE  After(c, m)[j] # m[1] /\ After(c, m)[j] # m[2]
    BY <1>3, <1>5, <1>7
  <2> QED
    BY <1>5, <2>1 DEF Plain, m
<1> QED
  BY <1>8, <1>9 DEF m

\* What follows a section, less one line break.
LEMMA WithoutBreak ==
  ASSUME NEW i, NEW r, Plain(r, i)
  PROVE  Plain(IF r # <<>> /\ Head(r) \in Newlines THEN Tail(r) ELSE r, i)
<1>1. r \in Texts /\ Len(r) \in Nat
  BY TextType DEF Plain
<1>2. CASE r # <<>> /\ Head(r) \in Newlines
  <2>1. /\ Tail(r) \in Texts /\ Len(Tail(r)) = Len(r) - 1
        /\ \A j \in 1 .. Len(Tail(r)) : Tail(r)[j] = r[j + 1]
    BY <1>1, <1>2, HeadTailProperties DEF Texts
  <2>2. \A j \in 1 .. Len(Tail(r)) : j + 1 \in 1 .. Len(r)
    BY <1>1, <2>1
  <2>3. Plain(Tail(r), i)
    BY <2>1, <2>2 DEF Plain
  <2> QED
    BY <1>2, <2>3
<1> QED
  BY <1>2

\* A line break before a text is its head.
LEMMA AfterBreak ==
  ASSUME NEW eol \in Newlines, NEW b \in Texts
  PROVE  /\ <<eol>> \o b \in Texts /\ <<eol>> \o b # <<>>
         /\ Head(<<eol>> \o b) = eol /\ Tail(<<eol>> \o b) = b
<1>1. b \in Texts /\ <<eol>> \in Texts /\ Len(<<eol>>) = 1 /\ <<eol>>[1] = eol /\ Len(b) \in Nat
  BY ShortText, TextType, WorkspaceAssumption
<1> DEFINE t == <<eol>> \o b
<1>2. /\ t \in Texts /\ Len(t) = Len(<<eol>>) + Len(b)
      /\ \A j \in 1 .. Len(<<eol>>) : t[j] = <<eol>>[j]
      /\ \A j \in Len(<<eol>>) + 1 .. Len(<<eol>>) + Len(b) : t[j] = b[j - Len(<<eol>>)]
  BY <1>1, TwoTexts
<1> HIDE DEF t
<1>3. t \in Texts /\ Len(t) = Len(b) + 1 /\ t[1] = eol /\ t # <<>>
  BY <1>1, <1>2, ShortText
<1>4. \A j \in 1 .. Len(b) : t[j + 1] = b[j]
  <2> SUFFICES ASSUME NEW j \in 1 .. Len(b) PROVE t[j + 1] = b[j]
    OBVIOUS
  <2>1. j + 1 \in Len(<<eol>>) + 1 .. Len(<<eol>>) + Len(b) /\ (j + 1) - Len(<<eol>>) = j
    BY <1>1
  <2> QED
    BY <1>2, <2>1
<1>5. /\ Tail(t) \in Texts /\ Len(Tail(t)) = Len(t) - 1
      /\ \A j \in 1 .. Len(Tail(t)) : Tail(t)[j] = t[j + 1]
  BY <1>3, HeadTailProperties DEF Texts
<1>6. Tail(t) = b
  <2>1. Len(Tail(t)) = Len(b)
    BY <1>1, <1>3, <1>5
  <2>2. \A j \in 1 .. Len(Tail(t)) : Tail(t)[j] = b[j]
    BY <1>4, <1>5, <2>1
  <2> QED
    BY <1>1, <1>5, <2>1, <2>2, SameText
<1>7. Head(t) = eol
  BY <1>3 DEF Texts
<1> QED
  BY <1>3, <1>6, <1>7 DEF t

\* A merge that is not refused has markers to work with.
LEMMA Mergeable ==
  ASSUME NEW i, IsIntent(i), i.ownership = "managed-section", NEW eol, NEW c, ~Unmergeable(c, i, eol)
  PROVE  HasMarkers(i) /\ (Marked(c, i.markers) => Delimited(c, i.markers))
  BY DEF Unmergeable, HasMarkers

\* The separator is made of line breaks.
LEMMA Separators ==
  ASSUME NEW i, HasMarkers(i), NEW eol \in Newlines, NEW c
  PROVE  Plain(Separator(c, eol), i)
<1>1. eol # i.markers[1] /\ eol # i.markers[2] /\ eol \in Tokens
  BY WorkspaceAssumption DEF HasMarkers
<1>2. Plain(<<>>, i)
  BY ShortText DEF Plain
<1>3. Plain(<<eol>>, i)
  BY <1>1, ShortText DEF Plain
<1>4. Plain(<<eol, eol>>, i)
  <2>1. \A j \in 1 .. Len(<<eol, eol>>) : <<eol, eol>>[j] = eol
    BY <1>1, ShortText
  <2> QED
    BY <1>1, <2>1, ShortText DEF Plain
<1> QED
  BY <1>2, <1>3, <1>4 DEF Separator

\* Two plain texts, one after the other.
LEMMA PlainTexts ==
  ASSUME NEW i, NEW a, Plain(a, i), NEW b, Plain(b, i)
  PROVE  Plain(a \o b, i)
<1>1. a \in Texts /\ b \in Texts /\ Len(a) \in Nat /\ Len(b) \in Nat
  BY TextType DEF Plain
<1>2. /\ a \o b \in Texts /\ Len(a \o b) = Len(a) + Len(b)
      /\ \A j \in 1 .. Len(a) : (a \o b)[j] = a[j]
      /\ \A j \in Len(a) + 1 .. Len(a) + Len(b) : (a \o b)[j] = b[j - Len(a)]
  BY <1>1, TwoTexts
<1>3. ASSUME NEW j \in 1 .. Len(a \o b)
      PROVE  (a \o b)[j] # i.markers[1] /\ (a \o b)[j] # i.markers[2]
  <2>1. CASE j \in 1 .. Len(a)
    BY <1>2, <2>1 DEF Plain
  <2>2. CASE j \in Len(a) + 1 .. Len(a) + Len(b)
    <3>1. j - Len(a) \in 1 .. Len(b)
      BY <1>1, <2>2
    <3> QED
      BY <1>2, <2>2, <3>1 DEF Plain
  <2> QED
    BY <1>1, <1>2, <2>1, <2>2
<1> QED
  BY <1>2, <1>3 DEF Plain

\* The merge puts the section into the developer's text: in place of the one that
\* is there, in place of its own text, or after everything.
LEMMA Merges ==
  ASSUME NEW i, IsIntent(i), i.ownership = "managed-section", NEW eol \in Newlines,
         NEW c \in Texts, ~Unmergeable(c, i, eol)
  PROVE  \E a, b :
           /\ Plain(a, i) /\ Plain(b, i) /\ Framed(Merged(c, i, eol), i, eol, a, b)
           /\ Marked(c, i.markers) => a = Before(c, i.markers) /\ b = Suffix(c, i.markers)
           /\ ~Marked(c, i.markers) =>
                Normalized(c, eol) = i.content \/ a = c \o Separator(c, eol)
<1>1. HasMarkers(i)
  BY Mergeable
<1>2. CASE Marked(c, i.markers)
  <2> DEFINE a == Before(c, i.markers)
             r == After(c, i.markers)
             b == Suffix(c, i.markers)
  <2>1. Plain(a, i) /\ Plain(r, i)
    BY <1>1, <1>2, Mergeable, Surroundings
  <2>2. b = IF r # <<>> /\ Head(r) \in Newlines THEN Tail(r) ELSE r
    BY DEF Suffix
  <2> HIDE DEF a, r, b
  <2>3. Plain(b, i)
    BY <2>1, <2>2, WithoutBreak
  <2>4. Merged(c, i, eol) = a \o Section(i, eol) \o b
    BY <1>2 DEF Merged, a, b
  <2>5. a \in Texts /\ b \in Texts
    BY <2>1, <2>3 DEF Plain
  <2>6. Framed(Merged(c, i, eol), i, eol, a, b)
    BY <1>1, <2>4, <2>5, Frames
  <2>7. a = Before(c, i.markers) /\ b = Suffix(c, i.markers)
    BY DEF a, b
  <2> QED
    BY <1>2, <2>1, <2>3, <2>6, <2>7
<1>3. CASE ~Marked(c, i.markers) /\ Normalized(c, eol) = i.content
  <2>1. Merged(c, i, eol) = Section(i, eol) /\ Plain(<<>>, i)
    BY <1>3, ShortText DEF Merged, Plain
  <2>2. Framed(Merged(c, i, eol), i, eol, <<>>, <<>>)
    BY <1>1, <2>1, Frames
  <2> QED
    BY <1>3, <2>1, <2>2
<1>4. CASE ~Marked(c, i.markers) /\ Normalized(c, eol) # i.content
  <2> DEFINE a == c \o Separator(c, eol)
  <2>1. Plain(<<>>, i)
    BY ShortText DEF Plain
  <2>2. Plain(a, i)
    BY <1>1, <1>4, PlainMeans, PlainTexts, Separators
  <2>3. Merged(c, i, eol) = a \o Section(i, eol)
    BY <1>4 DEF Merged
  <2> HIDE DEF a
  <2>4. a \in Texts
    BY <2>2 DEF Plain
  <2>5. Framed(Merged(c, i, eol), i, eol, a, <<>>)
    BY <1>1, <2>3, <2>4, Frames
  <2>6. a = c \o Separator(c, eol)
    BY DEF a
  <2> QED
    BY <1>4, <2>1, <2>2, <2>5, <2>6
<1> QED
  BY <1>2, <1>3, <1>4

\* What has been merged once is as it was when it is merged again.
LEMMA MergedTwice ==
  ASSUME NEW i, IsIntent(i), i.ownership = "managed-section", NEW eol \in Newlines,
         NEW c \in Texts, ~Unmergeable(c, i, eol)
  PROVE  LET t == Merged(c, i, eol)
         IN  t \in Texts /\ ~Unmergeable(t, i, eol) /\ Merged(t, i, eol) = t
<1> DEFINE t == Merged(c, i, eol)
<1>1. HasMarkers(i)
  BY Mergeable
<1>2. PICK a, b : Plain(a, i) /\ Plain(b, i) /\ Framed(t, i, eol, a, b)
  BY Merges
<1> HIDE DEF t
<1>3. /\ Marked(t, i.markers) /\ Delimited(t, i.markers)
      /\ Before(t, i.markers) = a /\ After(t, i.markers) = <<eol>> \o b
  BY <1>1, <1>2, FrameFound
<1>4. t \in Texts /\ a \in Texts /\ b \in Texts
  BY <1>2 DEF Framed, Plain
<1>5. ~Unmergeable(t, i, eol)
  BY <1>1, <1>3 DEF Unmergeable, HasMarkers
<1>6. Suffix(t, i.markers) = b
  <2>1. <<eol>> \o b # <<>> /\ Head(<<eol>> \o b) \in Newlines /\ Tail(<<eol>> \o b) = b
    BY <1>4, AfterBreak
  <2> QED
    BY <1>3, <2>1 DEF Suffix
<1>7. Framed(Merged(t, i, eol), i, eol, a, b)
  <2>1. Merged(t, i, eol) = a \o Section(i, eol) \o b
    BY <1>3, <1>6 DEF Merged
  <2> QED
    BY <1>1, <1>4, <2>1, Frames
<1>8. Merged(t, i, eol) = t
  BY <1>1, <1>2, <1>4, <1>7, SameFrame
<1> QED
  BY <1>4, <1>5, <1>8 DEF t

\* What the developer wrote below a section is what the merge keeps.
LEMMA BelowIsSuffix ==
  ASSUME NEW c, NEW m, After(c, m) \in Texts
  PROVE  Below(c, m) = Suffix(c, m)
<1> DEFINE r == After(c, m)
<1>1. r \in Texts /\ Len(r) \in Nat /\ (r = <<>> <=> Len(r) = 0) /\ Head(r) = r[1]
  BY TextType DEF Texts
<1>2. Suffix(c, m) = IF r # <<>> /\ Head(r) \in Newlines THEN Tail(r) ELSE r
  BY DEF Suffix
<1>3. Below(c, m) = SubSeq(r, IF Len(r) > 0 /\ r[1] \in Newlines THEN 2 ELSE 1, Len(r))
  BY DEF Below
<1> HIDE DEF r
<1>4. CASE r # <<>> /\ r[1] \in Newlines
  <2>1. /\ Tail(r) \in Texts /\ Len(Tail(r)) = Len(r) - 1
        /\ \A j \in 1 .. Len(Tail(r)) : Tail(r)[j] = r[j + 1]
    BY <1>1, <1>4, HeadTailProperties DEF Texts
  <2>2. 2 \in 1 .. Len(r) + 1 /\ Len(r) \in 2 - 1 .. Len(r) /\ Len(r) - 2 + 1 = Len(r) - 1
    BY <1>1, <1>4
  <2>3. /\ SubSeq(r, 2, Len(r)) \in Texts /\ Len(SubSeq(r, 2, Len(r))) = Len(r) - 2 + 1
        /\ \A j \in 1 .. Len(r) - 2 + 1 : SubSeq(r, 2, Len(r))[j] = r[2 + j - 1]
    BY <1>1, <2>2, PartOfText
  <2>4. \A j \in 1 .. Len(r) - 1 : 2 + j - 1 = j + 1
    BY <1>1
  <2>5. SubSeq(r, 2, Len(r)) = Tail(r)
    BY <2>1, <2>2, <2>3, <2>4, SameText
  <2> QED
    BY <1>1, <1>2, <1>3, <1>4, <2>5
<1>5. CASE ~(r # <<>> /\ r[1] \in Newlines)
  <2>1. 1 \in 1 .. Len(r) + 1 /\ Len(r) \in 1 - 1 .. Len(r) /\ Len(r) - 1 + 1 = Len(r)
    BY <1>1
  <2>2. /\ SubSeq(r, 1, Len(r)) \in Texts /\ Len(SubSeq(r, 1, Len(r))) = Len(r) - 1 + 1
        /\ \A j \in 1 .. Len(r) - 1 + 1 : SubSeq(r, 1, Len(r))[j] = r[1 + j - 1]
    BY <1>1, <2>1, PartOfText
  <2>3. \A j \in 1 .. Len(r) : 1 + j - 1 = j
    BY <1>1
  <2>4. \A j \in 1 .. Len(r) : SubSeq(r, 1, Len(r))[j] = r[j]
    BY <2>1, <2>2, <2>3
  <2>5. Len(SubSeq(r, 1, Len(r))) = Len(r)
    BY <2>1, <2>2
  <2>6. SubSeq(r, 1, Len(r)) = r
    BY <1>1, <2>2, <2>4, <2>5, SameText
  <2> QED
    BY <1>1, <1>2, <1>3, <1>5, <2>6
<1> QED
  BY <1>4, <1>5

\* A text stands at the start of every frame that has it, and more, before it.
LEMMA FramedAfter ==
  ASSUME NEW i, HasMarkers(i), NEW eol \in Newlines, NEW c \in Texts, NEW x \in Texts,
         NEW b \in Texts, NEW t, Framed(t, i, eol, c \o x, b)
  PROVE  SubSeq(t, 1, Len(c)) = c
<1> DEFINE a == c \o x
<1>1. /\ Len(c) \in Nat /\ Len(x) \in Nat /\ Len(b) \in Nat
      /\ i.content \in Texts /\ Len(i.content) \in Nat
  BY Markers, TextType
<1>2. /\ a \in Texts /\ Len(a) = Len(c) + Len(x)
      /\ \A j \in 1 .. Len(c) : a[j] = c[j]
  BY TwoTexts
<1>3. Framed(t, i, eol, a, b)
  OBVIOUS
<1> HIDE DEF a
<1>4. /\ t \in Texts /\ Len(t) = Len(a) + Len(i.content) + 4 + Len(b)
      /\ \A j \in 1 .. Len(a) : t[j] = a[j]
  BY <1>3 DEF Framed
<1>5. 1 \in 1 .. Len(t) + 1 /\ Len(c) \in 1 - 1 .. Len(t) /\ Len(c) - 1 + 1 = Len(c)
  <2>1. ASSUME NEW k \in Nat, NEW l \in Nat, NEW m \in Nat, NEW n \in Nat, NEW q, q = k + l + m + 4 + n
        PROVE  1 \in 1 .. q + 1 /\ k \in 1 - 1 .. q /\ k - 1 + 1 = k
    BY <2>1
  <2>2. Len(t) = Len(c) + Len(x) + Len(i.content) + 4 + Len(b)
    BY <1>2, <1>4
  <2> QED
    BY <1>1, <2>1, <2>2
<1>6. /\ SubSeq(t, 1, Len(c)) \in Texts /\ Len(SubSeq(t, 1, Len(c))) = Len(c) - 1 + 1
      /\ \A j \in 1 .. Len(c) - 1 + 1 : SubSeq(t, 1, Len(c))[j] = t[1 + j - 1]
  BY <1>4, <1>5, PartOfText
<1>7. \A j \in 1 .. Len(c) : 1 + j - 1 = j /\ j \in 1 .. Len(a)
  BY <1>1, <1>2
<1>8. \A j \in 1 .. Len(c) : SubSeq(t, 1, Len(c))[j] = c[j]
  BY <1>2, <1>4, <1>5, <1>6, <1>7
<1> QED
  BY <1>5, <1>6, <1>8, SameText

\* What a merge keeps of the text it is made into.
LEMMA MergeKeeps ==
  ASSUME NEW i, IsIntent(i), i.ownership = "managed-section", NEW eol \in Newlines,
         NEW c \in Texts, ~Unmergeable(c, i, eol)
  PROVE  LET t == Merged(c, i, eol)
         IN  IF Marked(c, i.markers)
             THEN /\ Delimited(c, i.markers) /\ Delimited(t, i.markers)
                  /\ Before(t, i.markers) = Before(c, i.markers)
                  /\ Below(t, i.markers) = Below(c, i.markers)
             ELSE \/ Normalized(c, eol) = i.content
                  \/ SubSeq(t, 1, Len(c)) = c
<1> DEFINE t == Merged(c, i, eol)
<1>1. HasMarkers(i) /\ (Marked(c, i.markers) => Delimited(c, i.markers))
  BY Mergeable
<1>2. PICK a, b :
        /\ Plain(a, i) /\ Plain(b, i) /\ Framed(t, i, eol, a, b)
        /\ Marked(c, i.markers) => a = Before(c, i.markers) /\ b = Suffix(c, i.markers)
        /\ ~Marked(c, i.markers) =>
             Normalized(c, eol) = i.content \/ a = c \o Separator(c, eol)
  BY Merges
<1> HIDE DEF t
<1>3. /\ Delimited(t, i.markers)
      /\ Before(t, i.markers) = a /\ After(t, i.markers) = <<eol>> \o b
  BY <1>1, <1>2, FrameFound
<1>4. a \in Texts /\ b \in Texts
  BY <1>2 DEF Plain
<1>5. CASE Marked(c, i.markers)
  <2>1. <<eol>> \o b \in Texts /\ <<eol>> \o b # <<>> /\ Head(<<eol>> \o b) \in Newlines /\ Tail(<<eol>> \o b) = b
    BY <1>4, AfterBreak
  <2>2. Suffix(t, i.markers) = b
    BY <1>3, <2>1 DEF Suffix
  <2>3. After(c, i.markers) \in Texts /\ After(t, i.markers) \in Texts
    BY <1>1, <1>3, <1>5, <2>1, Surroundings DEF Plain
  <2>4. Below(t, i.markers) = b /\ Below(c, i.markers) = Suffix(c, i.markers)
    BY <2>2, <2>3, BelowIsSuffix
  <2> QED
    BY <1>1, <1>2, <1>3, <1>5, <2>4 DEF t
<1>6. CASE ~Marked(c, i.markers) /\ Normalized(c, eol) # i.content
  <2> DEFINE x == Separator(c, eol)
  <2>1. x \in Texts
    BY <1>1, Separators DEF Plain
  <2>2. Framed(t, i, eol, c \o x, b)
    BY <1>2, <1>6
  <2> HIDE DEF x
  <2>3. SubSeq(t, 1, Len(c)) = c
    BY <1>1, <1>4, <2>1, <2>2, FramedAfter
  <2> QED
    BY <1>6, <2>3 DEF t
<1>7. CASE ~Marked(c, i.markers) /\ Normalized(c, eol) = i.content
  BY <1>7
<1> QED
  BY <1>5, <1>6, <1>7

-----------------------------------------------------------------------------
(* Operations.                                                             *)

\* What a renderer wants, once its line breaks are normalized.
Tidy(i, eol) == [i EXCEPT !.content = Normalized(@, eol)]

\* It is an intent, at the same path and of the same kind.
LEMMA TidyIntent ==
  ASSUME NEW i, IsIntent(i), NEW eol \in Newlines
  PROVE  /\ IsIntent(Tidy(i, eol))
         /\ Tidy(i, eol).path = i.path /\ Tidy(i, eol).ownership = i.ownership
         /\ Tidy(i, eol).markers = i.markers
         /\ Tidy(i, eol).content = Normalized(i.content, eol)
         /\ Normalized(Tidy(i, eol).content, eol) = Tidy(i, eol).content
<1>1. i.content \in Texts
  BY DEF IsIntent
<1>2. Normalized(i.content, eol) \in Texts
  BY <1>1, NormalizedText
<1>3. Normalized(Normalized(i.content, eol), eol) = Normalized(i.content, eol)
  BY <1>1, NormalizedTwice
<1> DEFINE t == Normalized(i.content, eol)
<1> HIDE DEF t
<1>4. Tidy(i, eol) = [i EXCEPT !.content = t]
  BY DEF Tidy, t
<1>5. t \in Texts
  BY <1>2 DEF t
<1> DEFINE d == [i EXCEPT !.content = t]
<1>6. IsIntent(d) /\ d.path = i.path /\ d.ownership = i.ownership /\ d.markers = i.markers /\ d.content = t
  BY <1>5 DEF IsIntent
<1> HIDE DEF d
<1> QED
  BY <1>3, <1>4, <1>6 DEF d, t

\* The candidates of a specification are intents, and finitely many.
LEMMA CandidateTypes ==
  ASSUME NEW s \in Specs
  PROVE  /\ \A i \in Candidates(s) : IsIntent(i)
         /\ IsFiniteSet(Candidates(s))
         /\ s.eol \in Newlines
<1>1. s.eol \in Newlines /\ s.digest \in Tokens /\ IsFiniteSet(s.intents) /\ \A i \in s.intents : IsIntent(i)
  BY SpecsAssumption
<1> DEFINE l == [path |-> LockFile, ownership |-> "generated", markers |-> <<>>, content |-> <<s.digest>>]
<1>2. IsIntent(l)
  <2>1. <<s.digest>> \in Texts /\ <<>> \in Seq(Tokens)
    BY <1>1, ShortText
  <2> QED
    BY <2>1, WorkspaceAssumption DEF IsIntent
<1>3. Candidates(s) = s.intents \cup {l}
  BY DEF Candidates
<1> HIDE DEF l
<1>4. IsFiniteSet(Candidates(s))
  BY <1>1, <1>3, FS_AddElement
<1> QED
  BY <1>1, <1>2, <1>3, <1>4

\* What is wanted in a path.
LEMMA WantedIs ==
  ASSUME NEW s \in Specs, NEW p
  PROVE  /\ \A j \in Wanted(s, p) :
              /\ IsIntent(j) /\ j.path = p
              /\ j.content \in Texts /\ Normalized(j.content, s.eol) = j.content
         /\ \A i \in Candidates(s) : i.path = p => Tidy(i, s.eol) \in Wanted(s, p)
         /\ p \in PathsOf(s) => Wanted(s, p) # {}
<1>1. Wanted(s, p) = {Tidy(i, s.eol) : i \in {j \in Candidates(s) : j.path = p}}
  BY DEF Wanted, Tidy
<1>2. ASSUME NEW j \in Wanted(s, p)
      PROVE  /\ IsIntent(j) /\ j.path = p
             /\ j.content \in Texts /\ Normalized(j.content, s.eol) = j.content
  <2>1. PICK i \in Candidates(s) : i.path = p /\ j = Tidy(i, s.eol)
    BY <1>1
  <2>2. IsIntent(i) /\ s.eol \in Newlines
    BY CandidateTypes
  <2>3. IsIntent(j) /\ j.path = p /\ Normalized(j.content, s.eol) = j.content
    BY <2>1, <2>2, TidyIntent
  <2> QED
    BY <2>3 DEF IsIntent
<1>3. p \in PathsOf(s) => Wanted(s, p) # {}
  BY <1>1 DEF PathsOf
<1> QED
  BY <1>1, <1>2, <1>3

\* Where the renderers do not disagree, they want one thing.
LEMMA OneIsWanted ==
  ASSUME NEW s \in Specs, NEW p, ~Incompatible(s, p), NEW j \in Wanted(s, p), NEW k \in Wanted(s, p)
  PROVE  j = k
<1> DEFINE S == {i \in Candidates(s) : i.path = p}
           f == [i \in S |-> Tidy(i, s.eol)]
<1>1. IsFiniteSet(S)
  <2>1. S \in SUBSET Candidates(s)
    OBVIOUS
  <2> HIDE DEF S
  <2> QED
    BY <2>1, CandidateTypes, FS_Subset
<1>2. Wanted(s, p) = {Tidy(i, s.eol) : i \in S}
  BY DEF Wanted, Tidy
<1> HIDE DEF S
<1>3. f \in Surjection(S, Wanted(s, p))
  BY <1>2 DEF Surjection
<1>4. IsFiniteSet(Wanted(s, p))
  <2> HIDE DEF f
  <2> QED
    BY <1>1, <1>3, FS_Surjection
<1>5. Cardinality(Wanted(s, p)) \in Nat /\ ~(Cardinality(Wanted(s, p)) > 1)
  BY <1>4, FS_CardinalityType DEF Incompatible
<1>6. Cardinality(Wanted(s, p)) = 1
  BY <1>4, <1>5, FS_EmptySet
<1>7. PICK x : Wanted(s, p) = {x}
  BY <1>4, <1>6, FS_Singleton
<1> QED
  BY <1>7

\* What #operations decides for the intent i over the content c: what it would
\* leave, whether that is there, and whether it refuses.
TextOf(c) == IF c = Absent THEN <<>> ELSE c
\* What it leaves.
Left(s, i, c) ==
  IF i.ownership = "managed-section" THEN Merged(TextOf(c), i, s.eol) ELSE i.content
\* Is that there already?
There(s, i, c) ==
  c # Absent /\ IF i.ownership = "managed-section" THEN c = Left(s, i, c)
                ELSE Normalized(c, s.eol) = Left(s, i, c)
\* Does it refuse to write?
Refuses(s, p, i, c) ==
  \/ Incompatible(s, p)
  \/ i.ownership = "managed-section" /\ Unmergeable(TextOf(c), i, s.eol)
  \/ i.ownership = "user-owned" /\ c # Absent /\ ~There(s, i, c)
\* The kind of operation if it does not.
KindOf(s, i, c) == IF c = Absent THEN "create" ELSE IF There(s, i, c) THEN "unchanged" ELSE "update"

\* The operation for p is decided for one of the intents that are wanted.
LEMMA OperationIs ==
  ASSUME NEW s \in Specs, NEW p \in PathsOf(s)
  PROVE  \E i \in Wanted(s, p) : \A c :
           Operation(s, p, c) = IF Refuses(s, p, i, c) THEN Conflict
                                ELSE [kind |-> KindOf(s, i, c), previous |-> c, content |-> Left(s, i, c)]
<1> DEFINE i == CHOOSE j \in Wanted(s, p) : TRUE
<1>1. i \in Wanted(s, p)
  BY WantedIs
<1>2. ASSUME NEW c
      PROVE  Operation(s, p, c) = IF Refuses(s, p, i, c) THEN Conflict
                                  ELSE [kind |-> KindOf(s, i, c), previous |-> c, content |-> Left(s, i, c)]
  BY DEF Operation, Refuses, KindOf, Left, There, TextOf, i
<1> QED
  BY <1>1, <1>2

\* What an operation leaves is a text, that is there when it is planned again.
LEMMA LeftIsThere ==
  ASSUME NEW s \in Specs, NEW p, NEW i \in Wanted(s, p), NEW c \in Texts \cup {Absent},
         ~Refuses(s, p, i, c)
  PROVE  /\ Left(s, i, c) \in Texts
         /\ ~Refuses(s, p, i, Left(s, i, c))
         /\ There(s, i, Left(s, i, c))
<1> DEFINE t == TextOf(c)
           n == Left(s, i, c)
<1>1. IsIntent(i) /\ i.content \in Texts /\ Normalized(i.content, s.eol) = i.content /\ s.eol \in Newlines
  BY WantedIs, CandidateTypes
<1>2. t \in Texts /\ Absent \notin Texts
  BY ShortText, WorkspaceAssumption DEF TextOf
<1> HIDE DEF t
<1>3. CASE i.ownership = "managed-section"
  <2>1. n = Merged(t, i, s.eol) /\ ~Unmergeable(t, i, s.eol)
    BY <1>3 DEF Left, Refuses, t
  <2>2. n \in Texts /\ ~Unmergeable(n, i, s.eol) /\ Merged(n, i, s.eol) = n
    BY <1>1, <1>2, <1>3, <2>1, MergedTwice
  <2> HIDE DEF n
  <2>3. n # Absent /\ TextOf(n) = n
    BY <1>2, <2>2 DEF TextOf
  <2>4. Left(s, i, n) = n
    BY <1>3, <2>2, <2>3 DEF Left
  <2>5. There(s, i, n)
    BY <1>3, <2>3, <2>4 DEF There
  <2>6. ~Refuses(s, p, i, n)
    BY <1>3, <2>2, <2>3, <2>5 DEF Refuses
  <2> QED
    BY <2>2, <2>5, <2>6 DEF n
<1>4. CASE i.ownership # "managed-section"
  <2>1. n = i.content
    BY <1>4 DEF Left
  <2> HIDE DEF n
  <2>2. n \in Texts /\ n # Absent /\ Left(s, i, n) = n
    BY <1>1, <1>2, <1>4, <2>1 DEF Left
  <2>3. There(s, i, n)
    BY <1>1, <1>4, <2>1, <2>2 DEF There
  <2>4. ~Refuses(s, p, i, n)
    BY <1>4, <2>3 DEF Refuses
  <2> QED
    BY <2>2, <2>3, <2>4 DEF n
<1> QED
  BY <1>3, <1>4

\* An operation that is not a conflict: what it was made for, and what a second
\* plan finds in what it leaves.
LEMMA OperationSettles ==
  ASSUME NEW s \in Specs, NEW p \in PathsOf(s), NEW c \in Texts \cup {Absent}
  PROVE  LET o == Operation(s, p, c)
         IN  \/ o = Conflict
             \/ /\ o \in [kind : {"create", "update", "unchanged"}, previous : Texts \cup {Absent},
                          content : Texts]
                /\ o.previous = c
                /\ o.kind = "create" <=> c = Absent
                /\ Operation(s, p, o.content).kind = "unchanged"
<1>1. PICK i \in Wanted(s, p) : \A d :
        Operation(s, p, d) = IF Refuses(s, p, i, d) THEN Conflict
                             ELSE [kind |-> KindOf(s, i, d), previous |-> d, content |-> Left(s, i, d)]
  BY OperationIs
<1>2. CASE Refuses(s, p, i, c)
  BY <1>1, <1>2
<1>3. CASE ~Refuses(s, p, i, c)
  <2> DEFINE n == Left(s, i, c)
  <2>1. n \in Texts /\ ~Refuses(s, p, i, n) /\ There(s, i, n) /\ n # Absent
    BY <1>3, LeftIsThere, WorkspaceAssumption
  <2> HIDE DEF n
  <2>2. Operation(s, p, c) = [kind |-> KindOf(s, i, c), previous |-> c, content |-> n]
    BY <1>1, <1>3 DEF n
  <2>3. KindOf(s, i, c) \in {"create", "update", "unchanged"} /\ (KindOf(s, i, c) = "create" <=> c = Absent)
    BY DEF KindOf
  <2>4. Operation(s, p, n) = [kind |-> KindOf(s, i, n), previous |-> n, content |-> Left(s, i, n)]
    BY <1>1, <2>1
  <2>5. KindOf(s, i, n) = "unchanged"
    BY <2>1 DEF KindOf
  <2>6. Operation(s, p, n).kind = "unchanged"
    BY <2>4, <2>5
  <2> HIDE DEF KindOf
  <2> QED
    BY <2>1, <2>2, <2>3, <2>6
<1> QED
  BY <1>2, <1>3

\* Where nothing is to be done, every renderer finds what it wants.
LEMMA UnchangedHolds ==
  ASSUME NEW s \in Specs, NEW p \in PathsOf(s), NEW c \in Texts \cup {Absent},
         Operation(s, p, c).kind = "unchanged"
  PROVE  \A i \in Candidates(s) : i.path = p => c # Absent /\ Holds(c, i, s.eol)
<1>1. PICK j \in Wanted(s, p) : \A d :
        Operation(s, p, d) = IF Refuses(s, p, j, d) THEN Conflict
                             ELSE [kind |-> KindOf(s, j, d), previous |-> d, content |-> Left(s, j, d)]
  BY OperationIs
<1>2. ~Refuses(s, p, j, c) /\ KindOf(s, j, c) = "unchanged"
  BY <1>1 DEF Conflict
<1>3. c # Absent /\ There(s, j, c) /\ c \in Texts /\ TextOf(c) = c
  BY <1>2 DEF KindOf, TextOf
<1> SUFFICES ASSUME NEW i \in Candidates(s), i.path = p PROVE Holds(c, i, s.eol)
  BY <1>3
<1> DEFINE eol == s.eol
           t == Tidy(i, eol)
<1>4. IsIntent(i) /\ eol \in Newlines
  BY CandidateTypes
<1>5. t = j
  BY <1>2, OneIsWanted, WantedIs DEF Refuses
<1>6. /\ j.ownership = i.ownership /\ j.markers = i.markers /\ j.content = Normalized(i.content, eol)
      /\ IsIntent(j)
  BY <1>4, <1>5, TidyIntent
<1> HIDE DEF eol, t
<1>7. CASE i.ownership # "managed-section"
  BY <1>3, <1>6, <1>7 DEF Holds, There, Left, eol
<1>8. CASE i.ownership = "managed-section"
  <2>1. c = Merged(c, j, eol) /\ ~Unmergeable(c, j, eol)
    BY <1>2, <1>3, <1>6, <1>8 DEF There, Left, Refuses, eol
  <2>2. PICK a, b : Plain(a, j) /\ Plain(b, j) /\ Framed(c, j, eol, a, b)
    BY <1>3, <1>4, <1>6, <1>8, <2>1, Merges
  <2>3. HasMarkers(j)
    BY <1>6, <1>8, <2>1, Mergeable
  <2>4. /\ Delimited(c, j.markers)
        /\ SubSeq(c, Start(c, j.markers), End(c, j.markers)) = Between(j, eol)
    BY <1>4, <2>2, <2>3, FrameFound
  <2> QED
    BY <1>6, <1>8, <2>4 DEF Holds, Between, eol
<1> QED
  BY <1>7, <1>8

-----------------------------------------------------------------------------
(* The steps.                                                              *)

\* The inductive invariant: what a plan is, and what is left when it is applied.
PlanInv == CompilerInv /\ ApplyIsIdempotent

\* The paths of a specification.
LEMMA PathTypes ==
  ASSUME NEW s \in Specs
  PROVE  PathsOf(s) \subseteq Paths /\ \A i \in Candidates(s) : i.path \in PathsOf(s)
  BY CandidateTypes DEF PathsOf, IsIntent

\* Where every file is as it is planned, every renderer finds its artifact.
LEMMA SettledHolds ==
  ASSUME NEW s \in Specs, NEW f \in [Paths -> Texts \cup {Absent}],
         \A p \in PathsOf(s) : Operation(s, p, f[p]).kind = "unchanged"
  PROVE  \A i \in Candidates(s) : f[i.path] # Absent /\ Holds(f[i.path], i, s.eol)
<1> SUFFICES ASSUME NEW i \in Candidates(s)
             PROVE  f[i.path] # Absent /\ Holds(f[i.path], i, s.eol)
  OBVIOUS
<1> DEFINE p == i.path
<1>1. p \in PathsOf(s) /\ f[p] \in Texts \cup {Absent} /\ i.path = p
  BY PathTypes
<1> HIDE DEF p
<1>2. f[p] # Absent /\ Holds(f[p], i, s.eol)
  BY <1>1, UnchangedHolds
<1> QED
  BY <1>1, <1>2

\* It holds at the start.
LEMMA CompilerBegins == Init => PlanInv
<1> SUFFICES ASSUME Init PROVE PlanInv
  OBVIOUS
<1>1. TypeOK
  <2>1. Unplanned \in Operations
    BY DEF Operations
  <2>2. files \in [Paths -> Texts \cup {Absent}] /\ MaxEdits \in Nat
    BY WorkspaceAssumption DEF Init
  <2>3. \A p \in Paths : ops[p] = Unplanned /\ Unplanned.kind # "create"
    BY DEF Init, Unplanned
  <2> QED
    BY <2>1, <2>2, <2>3 DEF Init, TypeOK, Resting
<1>2. PlanFollowsFiles /\ AppliedMeansGenerated /\ CheckedMeansGenerated /\ ApplyIsIdempotent
  BY DEF Init, PlanFollowsFiles, AppliedMeansGenerated, CheckedMeansGenerated, ApplyIsIdempotent
<1> QED
  BY <1>1, <1>2 DEF PlanInv, CompilerInv

\* Planning starts.
LEMMA StartKeeps == ASSUME PlanInv, StartPlan PROVE PlanInv'
<1>1. TypeOK'
  <2>1. Unplanned \in Operations /\ Unplanned.kind # "create"
    BY DEF Operations, Unplanned
  <2>2. \A p \in Paths : ops'[p] = Unplanned
    BY DEF StartPlan
  <2>3. ~Refused(spec) => PathsOf(spec) # {}
    BY DEF PathsOf, Candidates
  <2> QED
    BY <2>1, <2>2, <2>3 DEF PlanInv, CompilerInv, TypeOK, StartPlan, Resting
<1>2. PlanFollowsFiles'
  BY DEF PlanFollowsFiles, StartPlan
<1>3. AppliedMeansGenerated' /\ CheckedMeansGenerated' /\ ApplyIsIdempotent'
  BY DEF AppliedMeansGenerated, CheckedMeansGenerated, ApplyIsIdempotent, StartPlan
<1> QED
  BY <1>1, <1>2, <1>3 DEF PlanInv, CompilerInv

\* One path is planned.
LEMMA PlanPathKeeps == ASSUME PlanInv, NEW p \in Paths, PlanPath(p) PROVE PlanInv'
<1> DEFINE o == Operation(planned, p, files[p])
<1>1. planned \in Specs /\ p \in PathsOf(planned) /\ files[p] \in Texts \cup {Absent}
  BY DEF PlanInv, CompilerInv, TypeOK, PlanPath
<1>2. /\ o \in Operations /\ o # Unplanned
      /\ o.kind = "create" => o.previous = Absent
      /\ o # Conflict => o = Operation(planned, p, o.previous)
  <2>1. \/ o = Conflict
        \/ /\ o \in [kind : {"create", "update", "unchanged"}, previous : Texts \cup {Absent},
                     content : Texts]
           /\ o.previous = files[p]
           /\ o.kind = "create" <=> files[p] = Absent
    BY <1>1, OperationSettles
  <2>2. CASE o = Conflict
    <3>1. o.kind = "conflict"
      BY <2>2 DEF Conflict
    <3> HIDE DEF o
    <3> QED
      BY <2>2, <3>1 DEF Operations, Unplanned
  <2>3. CASE o \in [kind : {"create", "update", "unchanged"}, previous : Texts \cup {Absent},
                    content : Texts]
    <3>1. o.kind \in {"create", "update", "unchanged"}
      BY <2>3
    <3>2. o # Unplanned /\ o # Conflict
      BY <3>1 DEF Unplanned, Conflict
    <3>3. o.previous = files[p] /\ (o.kind = "create" <=> files[p] = Absent)
      BY <2>1, <3>2
    <3> QED
      BY <2>3, <3>2, <3>3 DEF Operations
  <2> QED
    BY <2>1, <2>2, <2>3
<1>3. ops' = [ops EXCEPT ![p] = o]
  BY DEF PlanPath
<1> HIDE DEF o
<1>4. TypeOK'
  <2>1. ops' \in [Paths -> Operations]
    BY <1>2, <1>3 DEF PlanInv, CompilerInv, TypeOK
  <2>2. \A q \in todo' : p < q
    <3>1. \A q \in todo : q \in Int /\ p \in Int
      BY <1>1, WorkspaceAssumption, PathTypes DEF PlanInv, CompilerInv, TypeOK
    <3> QED
      BY <3>1 DEF PlanPath
  <2>3. ASSUME NEW q \in Paths
        PROVE  /\ ops'[q] # Unplanned => q \in PathsOf(planned) /\ \A x \in todo' : q < x
               /\ ops'[q].kind = "create" => ops'[q].previous = Absent
    <3>1. CASE q = p
      BY <1>1, <1>2, <1>3, <2>2, <3>1 DEF PlanInv, CompilerInv, TypeOK
    <3>2. CASE q # p
      <4>1. ops'[q] = ops[q] /\ todo' \subseteq todo
        BY <1>3, <3>2 DEF PlanInv, CompilerInv, TypeOK, PlanPath
      <4> QED
        BY <4>1 DEF PlanInv, CompilerInv, TypeOK
    <3> QED
      BY <3>1, <3>2
  <2>4. /\ todo' \subseteq PathsOf(planned) /\ (phase' = "planning" <=> todo' # {})
        /\ phase' \in {"planning", "planned"} \cup Resting
    BY DEF PlanInv, CompilerInv, TypeOK, PlanPath
  <2>5. /\ files' \in [Paths -> Texts \cup {Absent}] /\ spec' \in Specs /\ planned' \in Specs
        /\ edits' \in 0 .. MaxEdits /\ (findings' # {} => phase' = "checked") /\ quiet' \in BOOLEAN
        /\ planned' = planned
    BY DEF PlanInv, CompilerInv, TypeOK, PlanPath
  <2> QED
    BY <2>1, <2>3, <2>4, <2>5 DEF TypeOK
<1>5. PlanFollowsFiles'
  <2>1. ~Refused(planned') /\ planned' = planned /\ files' = files /\ quiet' = quiet
    BY DEF PlanInv, CompilerInv, PlanFollowsFiles, PlanPath
  <2>2. ASSUME NEW q \in PathsOf(planned) \ todo'
        PROVE  /\ ops'[q] # Unplanned
               /\ ops'[q] # Conflict => ops'[q] = Operation(planned, q, ops'[q].previous)
               /\ quiet => ops'[q] = Operation(planned, q, files[q])
    <3>1. CASE q = p
      <4>1. ops'[q] = o
        BY <1>1, <1>3, <3>1 DEF PlanInv, CompilerInv, TypeOK
      <4> QED
        BY <1>2, <3>1, <4>1 DEF o
    <3>2. CASE q # p
      <4>1. ops'[q] = ops[q] /\ q \in PathsOf(planned) \ todo
        BY <1>1, <1>3, <3>2, PathTypes DEF PlanInv, CompilerInv, TypeOK, PlanPath
      <4> QED
        BY <4>1 DEF PlanInv, CompilerInv, PlanFollowsFiles, PlanPath
    <3> QED
      BY <3>1, <3>2
  <2> QED
    BY <2>1, <2>2 DEF PlanFollowsFiles
<1>6. AppliedMeansGenerated' /\ CheckedMeansGenerated' /\ ApplyIsIdempotent'
  BY DEF AppliedMeansGenerated, CheckedMeansGenerated, ApplyIsIdempotent, PlanPath
<1> QED
  BY <1>4, <1>5, <1>6 DEF PlanInv, CompilerInv

\* What the finished plan says of a path: what is written leaves nothing to do.
LEMMA PlanIsReady ==
  ASSUME PlanInv, phase = "planned", NEW p \in PathsOf(planned), ops[p].kind # "conflict"
  PROVE  /\ p \in Paths /\ ops[p].kind \in {"create", "update", "unchanged"}
         /\ ops[p].content \in Texts
         /\ ops[p] = Operation(planned, p, ops[p].previous)
         /\ Operation(planned, p, ops[p].content).kind = "unchanged"
         /\ quiet => ops[p] = Operation(planned, p, files[p])
<1>1. planned \in Specs /\ p \in Paths /\ ops[p] \in Operations /\ todo = {}
  BY PathTypes DEF PlanInv, CompilerInv, TypeOK
<1>2. ops[p] # Conflict /\ ops[p] # Unplanned
  <2>1. Conflict.kind = "conflict"
    BY DEF Conflict
  <2>2. ops[p] # Unplanned
    BY <1>1 DEF PlanInv, CompilerInv, PlanFollowsFiles
  <2> QED
    BY <2>1, <2>2
<1>3. /\ ops[p] = Operation(planned, p, ops[p].previous)
      /\ quiet => ops[p] = Operation(planned, p, files[p])
  BY <1>1, <1>2 DEF PlanInv, CompilerInv, PlanFollowsFiles
<1>4. ops[p] \in [kind : {"create", "update", "unchanged"}, previous : Texts \cup {Absent}, content : Texts]
  BY <1>1, <1>2 DEF Operations
<1> DEFINE o == ops[p]
           c == o.previous
<1>5. c \in Texts \cup {Absent} /\ o.kind \in {"create", "update", "unchanged"} /\ o.content \in Texts
  BY <1>4
<1>6. o = Operation(planned, p, c) /\ o # Conflict
  BY <1>2, <1>3
<1> HIDE DEF o, c
<1>7. Operation(planned, p, o.content).kind = "unchanged"
  BY <1>1, <1>5, <1>6, OperationSettles
<1> QED
  BY <1>1, <1>3, <1>5, <1>7 DEF o

\* The plan is applied.
LEMMA ApplyKeeps == ASSUME PlanInv, Apply PROVE PlanInv'
<1>0. /\ planned \in Specs /\ PathsOf(planned) \subseteq Paths /\ phase = "planned"
      /\ \A p \in PathsOf(planned) : ops[p].kind # "conflict"
      /\ files' = [p \in Paths |-> IF p \in Written THEN ops[p].content ELSE files[p]]
  BY PathTypes DEF PlanInv, CompilerInv, TypeOK, Apply
<1>1. ASSUME NEW p \in Written PROVE p \in PathsOf(planned) /\ ops[p].content \in Texts
  <2>1. p \in Paths /\ ops[p].kind \in {"create", "update"}
    BY DEF Written
  <2>2. ops[p] # Unplanned
    BY <2>1 DEF Unplanned
  <2>3. p \in PathsOf(planned)
    BY <2>1, <2>2 DEF PlanInv, CompilerInv, TypeOK
  <2> QED
    BY <1>0, <2>3, PlanIsReady
<1>2. files' \in [Paths -> Texts \cup {Absent}]
  BY <1>0, <1>1 DEF PlanInv, CompilerInv, TypeOK
<1>3. TypeOK'
  BY <1>2 DEF PlanInv, CompilerInv, TypeOK, Apply, plan, Resting
<1>4. ApplyIsIdempotent'
  <2> SUFFICES ASSUME quiet, NEW p \in PathsOf(planned)
               PROVE  Operation(planned, p, files'[p]).kind = "unchanged"
    BY DEF ApplyIsIdempotent, Apply, plan
  <2>1. /\ p \in Paths /\ ops[p].kind \in {"create", "update", "unchanged"}
        /\ Operation(planned, p, ops[p].content).kind = "unchanged"
        /\ ops[p] = Operation(planned, p, files[p])
    BY <1>0, PlanIsReady
  <2>2. CASE p \in Written
    BY <1>0, <2>1, <2>2
  <2>3. CASE p \notin Written
    <3>1. ops[p].kind = "unchanged"
      BY <2>1, <2>3 DEF Written
    <3>2. files'[p] = files[p]
      BY <1>0, <2>1, <2>3
    <3>3. Operation(planned, p, files[p]).kind = "unchanged"
      BY <2>1, <3>1
    <3> QED
      BY <3>2, <3>3
  <2> QED
    BY <2>2, <2>3
<1>5. AppliedMeansGenerated'
  <2> SUFFICES ASSUME quiet
               PROVE  \A i \in Candidates(planned) :
                        files'[i.path] # Absent /\ Holds(files'[i.path], i, planned.eol)
    BY DEF AppliedMeansGenerated, Apply, plan
  <2>1. \A p \in PathsOf(planned) : Operation(planned, p, files'[p]).kind = "unchanged"
    BY <1>4 DEF ApplyIsIdempotent, Apply, plan
  <2> QED
    BY <1>0, <1>2, <2>1, SettledHolds
<1>6. PlanFollowsFiles' /\ CheckedMeansGenerated'
  BY DEF PlanFollowsFiles, CheckedMeansGenerated, Apply
<1> QED
  BY <1>3, <1>4, <1>5, <1>6 DEF PlanInv, CompilerInv

\* The plan is dropped.
LEMMA DropKeeps == ASSUME PlanInv, Drop PROVE PlanInv'
<1>1. TypeOK'
  BY DEF PlanInv, CompilerInv, TypeOK, Drop, plan, Resting
<1> QED
  BY <1>1 DEF PlanInv, CompilerInv, PlanFollowsFiles, AppliedMeansGenerated, CheckedMeansGenerated,
              ApplyIsIdempotent, Drop

\* What a report is made of is in it.
LEMMA ReportTells ==
  ASSUME NEW s, NEW found, Report(s, found), ~Failed(findings')
  PROVE  \A code : Error(code) \notin found
<1>1. found \subseteq findings'
  BY DEF Report, Diagnosis
<1>2. \A code : Error(code).severity = "error"
  BY DEF Error
<1> QED
  BY <1>1, <1>2 DEF Failed

\* `check` and `doctor` report on the plan.
LEMMA CheckKeeps == ASSUME PlanInv, Check PROVE PlanInv'
<1>1. TypeOK'
  BY DEF PlanInv, CompilerInv, TypeOK, Check, Report, plan, Resting
<1>2. CheckedMeansGenerated'
  <2> SUFFICES ASSUME quiet, ~Failed(findings')
               PROVE  /\ ~Refused(planned)
                      /\ \A i \in Candidates(planned) :
                           files[i.path] # Absent /\ Holds(files[i.path], i, planned.eol)
    BY DEF CheckedMeansGenerated, Check, plan
  <2>1. \A code : Error(code) \notin Differences
    BY ReportTells DEF Check
  <2>2. \A q \in Paths : ops[q].kind \notin Drift /\ ops[q].kind # "conflict"
    BY <2>1 DEF Differences
  <2>3. planned \in Specs /\ PathsOf(planned) \subseteq Paths /\ phase = "planned"
    BY PathTypes DEF PlanInv, CompilerInv, TypeOK, Check
  <2>4. ASSUME NEW p \in PathsOf(planned) PROVE Operation(planned, p, files[p]).kind = "unchanged"
    <3>1. ops[p].kind # "conflict" /\ ops[p].kind \notin {"create", "update"}
      BY <2>2, <2>3 DEF Drift
    <3>2. ops[p].kind \in {"create", "update", "unchanged"} /\ ops[p] = Operation(planned, p, files[p])
      BY <2>3, <3>1, PlanIsReady
    <3>3. ops[p].kind = "unchanged"
      BY <3>1, <3>2
    <3> QED
      BY <3>2, <3>3
  <2>5. files \in [Paths -> Texts \cup {Absent}]
    BY DEF PlanInv, CompilerInv, TypeOK
  <2>6. ~Refused(planned)
    BY <2>3 DEF PlanInv, CompilerInv, PlanFollowsFiles
  <2> QED
    BY <2>3, <2>4, <2>5, <2>6, SettledHolds
<1>3. PlanFollowsFiles' /\ AppliedMeansGenerated' /\ ApplyIsIdempotent'
  BY DEF PlanFollowsFiles, AppliedMeansGenerated, ApplyIsIdempotent, Check, Report
<1> QED
  BY <1>1, <1>2, <1>3 DEF PlanInv, CompilerInv

\* ... or on the modules that keep them from making one.
LEMMA CheckModulesKeeps == ASSUME PlanInv, CheckModules PROVE PlanInv'
<1>1. TypeOK'
  <2>1. Unplanned \in Operations /\ Unplanned.kind # "create" /\ todo = {}
    BY DEF Operations, Unplanned, PlanInv, CompilerInv, TypeOK, CheckModules, Resting
  <2>2. \A p \in Paths : ops'[p] = Unplanned
    BY DEF CheckModules
  <2> QED
    BY <2>1, <2>2 DEF PlanInv, CompilerInv, TypeOK, CheckModules, Report, Resting
<1>2. Failed(findings')
  BY ReportTells DEF CheckModules
<1>3. phase' = "checked"
  BY DEF CheckModules, Report
<1> QED
  BY <1>1, <1>2, <1>3 DEF PlanInv, CompilerInv, PlanFollowsFiles, AppliedMeansGenerated,
                          CheckedMeansGenerated, ApplyIsIdempotent

\* The developer edits.
LEMMA EditsKeep == ASSUME PlanInv, EditSpec \/ \E p \in Paths : EditFile(p) PROVE PlanInv'
<1>1. CASE EditSpec
  <2>1. TypeOK'
    BY <1>1, WorkspaceAssumption DEF PlanInv, CompilerInv, TypeOK, EditSpec, plan, Resting
  <2> QED
    BY <1>1, <2>1 DEF PlanInv, CompilerInv, PlanFollowsFiles, AppliedMeansGenerated,
                      CheckedMeansGenerated, ApplyIsIdempotent, EditSpec, plan
<1>2. ASSUME NEW p \in Paths, EditFile(p) PROVE PlanInv'
  <2>1. files' \in [Paths -> Texts \cup {Absent}]
    <3>1. PICK c \in Edits : files' = [files EXCEPT ![p] = c]
      BY <1>2 DEF EditFile
    <3>2. c \in Texts \cup {Absent}
      BY WorkspaceAssumption
    <3> QED
      BY <3>1, <3>2 DEF PlanInv, CompilerInv, TypeOK
  <2>2. /\ spec' = spec /\ planned' = planned /\ ops' = ops /\ todo' = todo /\ phase' = phase
        /\ findings' = findings /\ quiet' = FALSE
    BY <1>2 DEF EditFile, plan
  <2>3. edits' \in 0 .. MaxEdits
    BY <1>2, WorkspaceAssumption DEF PlanInv, CompilerInv, TypeOK, EditFile
  <2>4. TypeOK'
    BY <2>1, <2>2, <2>3 DEF PlanInv, CompilerInv, TypeOK
  <2> QED
    BY <2>2, <2>4 DEF PlanInv, CompilerInv, PlanFollowsFiles, AppliedMeansGenerated,
                      CheckedMeansGenerated, ApplyIsIdempotent
<1> QED
  BY <1>1, <1>2

\* Every step preserves it.
LEMMA CompilerStep == PlanInv /\ [Next]_vars => PlanInv'
<1> SUFFICES ASSUME PlanInv, [Next]_vars PROVE PlanInv'
  OBVIOUS
<1>1. CASE UNCHANGED vars
  BY <1>1 DEF vars, plan, PlanInv, CompilerInv, TypeOK, PlanFollowsFiles, AppliedMeansGenerated,
              CheckedMeansGenerated, ApplyIsIdempotent
<1> QED
  BY <1>1, StartKeeps, PlanPathKeeps, ApplyKeeps, DropKeeps, CheckKeeps, CheckModulesKeeps, EditsKeep
     DEF Next

\* Whatever the texts, the specifications and the edits: an applied plan leaves
\* what its specification generates, and a check that finds nothing has found it.
THEOREM CompilerIsSound == Spec => []CompilerInv
<1>1. PlanInv => CompilerInv
  BY DEF PlanInv
<1> QED
  BY <1>1, CompilerBegins, CompilerStep, PTL DEF Spec

\* A second apply writes nothing, whatever the first one found.
THEOREM ApplySettles == Spec => []ApplyIsIdempotent
<1>1. PlanInv => ApplyIsIdempotent
  BY DEF PlanInv
<1> QED
  BY <1>1, CompilerBegins, CompilerStep, PTL DEF Spec

-----------------------------------------------------------------------------
(* What a step may never do.                                               *)

\* What is written to a path was planned for what is there.
LEMMA WritesWhatWasPlanned ==
  ASSUME PlanInv, Apply, NEW p \in Paths
  PROVE  IF p \in Written
         THEN /\ p \in PathsOf(planned) /\ files[p] = ops[p].previous
              /\ ops[p] = Operation(planned, p, files[p]) /\ files'[p] = ops[p].content
         ELSE files'[p] = files[p]
<1>1. /\ phase = "planned" /\ \A q \in Paths : ops[q].kind # "conflict"
      /\ \A q \in Written : files[q] = ops[q].previous
      /\ files' = [q \in Paths |-> IF q \in Written THEN ops[q].content ELSE files[q]]
  BY DEF Apply
<1>2. CASE p \in Written
  <2>1. ops[p] # Unplanned
    BY <1>2 DEF Written, Unplanned
  <2>2. p \in PathsOf(planned)
    BY <2>1 DEF PlanInv, CompilerInv, TypeOK
  <2>3. ops[p] = Operation(planned, p, ops[p].previous)
    BY <1>1, <2>2, PlanIsReady
  <2> QED
    BY <1>1, <1>2, <2>2, <2>3
<1> QED
  BY <1>1, <1>2

\* What a plan does to a file for which the intent i is planned.
LEMMA KeepsText ==
  ASSUME PlanInv, Apply, NEW p \in Paths, NEW i \in IntentsFor(p), files[p] # Absent
  PROVE  /\ i.ownership = "user-owned" => files'[p] = files[p]
         /\ i.ownership = "managed-section" /\ files'[p] # files[p] =>
              IF Marked(files[p], i.markers)
              THEN /\ Delimited(files[p], i.markers) /\ Delimited(files'[p], i.markers)
                   /\ Before(files'[p], i.markers) = Before(files[p], i.markers)
                   /\ Below(files'[p], i.markers) = Below(files[p], i.markers)
              ELSE \/ Normalized(files[p], planned.eol) = Normalized(i.content, planned.eol)
                   \/ SubSeq(files'[p], 1, Len(files[p])) = files[p]
<1> DEFINE c == files[p]
           d == files'[p]
           s == planned
           eol == planned.eol
<1>1. s \in Specs /\ i \in Candidates(s) /\ i.path = p /\ c \in Texts /\ c # Absent
  BY DEF IntentsFor, PlanInv, CompilerInv, TypeOK
<1>2. CASE p \notin Written
  <2>1. d = c
    BY <1>2, WritesWhatWasPlanned
  <2> QED
    BY <2>1
<1>3. CASE p \in Written
  <2> DEFINE o == ops[p]
  <2>1. /\ p \in PathsOf(s) /\ o = Operation(s, p, c) /\ d = o.content
        /\ o.kind \in {"create", "update"}
    BY <1>3, WritesWhatWasPlanned DEF Written
  <2> HIDE DEF c, d, s, o
  <2>2. PICK j \in Wanted(s, p) : \A e :
          Operation(s, p, e) = IF Refuses(s, p, j, e) THEN Conflict
                               ELSE [kind |-> KindOf(s, j, e), previous |-> e, content |-> Left(s, j, e)]
    BY <1>1, <2>1, OperationIs
  <2>3. o = IF Refuses(s, p, j, c) THEN Conflict
            ELSE [kind |-> KindOf(s, j, c), previous |-> c, content |-> Left(s, j, c)]
    BY <2>1, <2>2
  <2>4. ~Refuses(s, p, j, c) /\ o.kind = KindOf(s, j, c) /\ d = Left(s, j, c)
    BY <2>1, <2>3 DEF Conflict
  <2>5. ~There(s, j, c)
    BY <1>1, <2>1, <2>4 DEF KindOf
  <2>6. j = Tidy(i, eol) /\ eol = s.eol
    BY <1>1, <2>4, OneIsWanted, WantedIs DEF Refuses, s
  <2>7. /\ j.ownership = i.ownership /\ j.markers = i.markers
        /\ j.content = Normalized(i.content, eol) /\ IsIntent(j) /\ eol \in Newlines
    BY <1>1, <2>6, CandidateTypes, TidyIntent
  <2> HIDE DEF eol
  <2>8. i.ownership # "user-owned"
    BY <1>1, <2>4, <2>5, <2>7 DEF Refuses
  <2>9. CASE i.ownership = "managed-section"
    <3>1. ~Unmergeable(c, j, eol) /\ d = Merged(c, j, eol)
      BY <1>1, <2>4, <2>6, <2>7, <2>9 DEF Refuses, Left, TextOf
    <3>2. IF Marked(c, j.markers)
          THEN /\ Delimited(c, j.markers) /\ Delimited(d, j.markers)
               /\ Before(d, j.markers) = Before(c, j.markers)
               /\ Below(d, j.markers) = Below(c, j.markers)
          ELSE \/ Normalized(c, eol) = j.content
               \/ SubSeq(d, 1, Len(c)) = c
      BY <1>1, <2>7, <2>9, <3>1, MergeKeeps
    <3> QED
      BY <2>7, <2>8, <3>2 DEF c, d, eol
  <2> QED
    BY <2>8, <2>9
<1> QED
  BY <1>2, <1>3

\* What the developer wrote outside the generated files is never taken.
THEOREM DeveloperTextIsKept == Spec => DeveloperTextStays
<1>1. ASSUME PlanInv, [Next]_vars
      PROVE  [Apply => \A p \in Paths : \A i \in IntentsFor(p) : files[p] # Absent =>
                /\ i.ownership = "user-owned" => files'[p] = files[p]
                /\ i.ownership = "managed-section" /\ files'[p] # files[p] =>
                     IF Marked(files[p], i.markers)
                     THEN /\ Delimited(files[p], i.markers) /\ Delimited(files'[p], i.markers)
                          /\ Before(files'[p], i.markers) = Before(files[p], i.markers)
                          /\ Below(files'[p], i.markers) = Below(files[p], i.markers)
                     ELSE \/ Normalized(files[p], planned.eol) = Normalized(i.content, planned.eol)
                          \/ SubSeq(files'[p], 1, Len(files[p])) = files[p]]_vars
  BY <1>1, KeepsText
<1> QED
  BY <1>1, CompilerBegins, CompilerStep, PTL DEF Spec, DeveloperTextStays
=============================================================================
