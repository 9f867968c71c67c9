----------------------- MODULE ConcurrencyGate_proofs -----------------------
(***************************************************************************)
(* Proofs about ConcurrencyGate, for any finite set of requests, any       *)
(* capacity and any signals, shared or not.  The parameters are hypotheses *)
(* of the theorems, so that whoever instantiates the gate can cite them.   *)
(***************************************************************************)
EXTENDS ConcurrencyGate, TLAPS, FiniteSetTheorems, SequenceTheorems, WellFoundedInduction

\* Finitely many requests, each with a signal, and at least one slot.
GateParameters ==
  /\ IsFiniteSet(Requests)
  /\ Maximum \in Nat \ {0}
  /\ SignalOf \in [Requests -> Signals]

-----------------------------------------------------------------------------
(* Induction over the natural numbers, for a set.                          *)

\* Every set of natural numbers that is not empty has a least element.
LEMMA LeastNumber ==
  ASSUME NEW T, T \subseteq Nat, T # {}
  PROVE  \E m \in T : \A k \in T : m <= k
<1> DEFINE R == OpToRel(<, Nat)
<1>1. IsWellFoundedOn(R, Nat)
  BY NatLessThanWellFounded
<1>2. \A a, b \in Nat : <<a, b>> \in R <=> a < b
  <2>1. R = {p \in Nat \X Nat : p[1] < p[2]}
    BY Zenon DEF OpToRel
  <2> HIDE DEF R
  <2> QED
    BY <2>1
<1> HIDE DEF R
<1>3. PICK m \in T : \A k \in T : <<k, m>> \notin R
  BY <1>1, WFMin
<1>4. \A k \in T : ~(k < m)
  BY <1>2, <1>3
<1> QED
  BY <1>4

\* A set that contains 0, and with each number the next one, contains them all.
LEMMA EveryNumber ==
  ASSUME NEW S, 0 \in S, \A n \in Nat : n \in S => n + 1 \in S
  PROVE  Nat \subseteq S
<1> SUFFICES ASSUME ~(Nat \subseteq S) PROVE FALSE
  OBVIOUS
<1> DEFINE T == {n \in Nat : n \notin S}
<1>1. PICK m \in T : \A k \in T : m <= k
  BY LeastNumber
<1>2. m - 1 \in Nat /\ (m - 1) + 1 = m /\ ~(m <= m - 1)
  BY <1>1
<1> QED
  BY <1>1, <1>2

-----------------------------------------------------------------------------
(* The queue.                                                              *)

\* The requests in the queue q.
Elements(q) == {q[i] : i \in 1 .. Len(q)}
\* No request waits twice.
Distinct(q) == \A i, j \in 1 .. Len(q) : q[i] = q[j] => i = j

\* How Without goes through the queue.
Step(q, s, before, i) == IF SignalOf[q[i]] = s THEN before ELSE Append(before, q[i])
\* f is what it has kept after each of the first n places.
Upto(q, s, n, f) == f = [i \in 0 .. n |-> IF i = 0 THEN <<>> ELSE Step(q, s, f[i - 1], i)]

\* The recursion of Without can be followed to the end of any queue.
LEMMA WithoutUnfolds ==
  ASSUME NEW q, Len(q) \in Nat, NEW s
  PROVE  \E f : Upto(q, s, Len(q), f) /\ Without(q, s) = f[Len(q)]
<1> DEFINE Defined == {n \in Nat : \E f : Upto(q, s, n, f)}
<1>1. 0 \in Defined
  <2> DEFINE f == [i \in 0 .. 0 |-> <<>>]
  <2>1. Upto(q, s, 0, f)
    BY DEF Upto
  <2> QED
    BY <2>1
<1>2. ASSUME NEW n \in Nat, n \in Defined PROVE n + 1 \in Defined
  <2> PICK f : Upto(q, s, n, f)
    BY <1>2
  <2> DEFINE g == [i \in 0 .. n + 1 |-> IF i <= n THEN f[i] ELSE Step(q, s, f[n], i)]
  <2>1. \A i \in 0 .. n : f[i] = IF i = 0 THEN <<>> ELSE Step(q, s, f[i - 1], i)
    BY DEF Upto
  <2>2. \A i \in 0 .. n + 1 : g[i] = IF i = 0 THEN <<>> ELSE Step(q, s, g[i - 1], i)
    <3> SUFFICES ASSUME NEW i \in 0 .. n + 1 PROVE g[i] = IF i = 0 THEN <<>> ELSE Step(q, s, g[i - 1], i)
      OBVIOUS
    <3>1. CASE i <= n
      BY <2>1, <3>1
    <3>2. CASE i = n + 1
      BY <3>2
    <3> QED
      BY <3>1, <3>2
  <2>3. Upto(q, s, n + 1, g)
    <3>1. g = [i \in 0 .. n + 1 |-> g[i]]
      OBVIOUS
    <3> HIDE DEF g
    <3> QED
      BY <2>2, <3>1 DEF Upto
  <2> QED
    BY <2>3
<1> HIDE DEF Defined
<1>3. Len(q) \in Defined
  BY <1>1, <1>2, EveryNumber
<1> DEFINE kept == CHOOSE f : Upto(q, s, Len(q), f)
<1>4. Upto(q, s, Len(q), kept)
  BY <1>3 DEF Defined
<1>5. Without(q, s) = kept[Len(q)]
  BY DEF Without, Upto, Step
<1> QED
  BY <1>4, <1>5

\* The queue without the waiters of a signal holds exactly the others, each once.
LEMMA WithoutEffect ==
  ASSUME NEW q \in Seq(Requests), Distinct(q), NEW s
  PROVE  /\ Without(q, s) \in Seq(Requests)
         /\ Elements(Without(q, s)) = {r \in Elements(q) : SignalOf[r] # s}
         /\ Distinct(Without(q, s))
<1>1. PICK f : Upto(q, s, Len(q), f) /\ Without(q, s) = f[Len(q)]
  BY WithoutUnfolds
<1> DEFINE Kept(n) == {q[i] : i \in {k \in 1 .. n : SignalOf[q[k]] # s}}
           IsKept(n) == f[n] \in Seq(Requests) /\ Elements(f[n]) = Kept(n) /\ Distinct(f[n])
           Right == {n \in Nat : n <= Len(q) => IsKept(n)}
<1>2. /\ f[0] = <<>>
      /\ \A i \in 1 .. Len(q) : f[i] = Step(q, s, f[i - 1], i)
  BY <1>1 DEF Upto
<1>3. IsKept(0)
  BY <1>2 DEF Elements, Distinct
<1>4. ASSUME NEW n \in Nat, n + 1 <= Len(q), IsKept(n) PROVE IsKept(n + 1)
  <2> DEFINE k == f[n]
             a == Append(k, q[n + 1])
  <2>1. k \in Seq(Requests) /\ Elements(k) = Kept(n) /\ Distinct(k)
    BY <1>4
  <2>2. f[n + 1] = Step(q, s, k, n + 1) /\ q[n + 1] \in Requests
    BY <1>2, <1>4
  <2> HIDE DEF k
  <2>3. CASE SignalOf[q[n + 1]] = s
    <3>1. Kept(n + 1) = Kept(n)
      BY <2>3
    <3>2. f[n + 1] = k
      BY <2>2, <2>3 DEF Step
    <3> QED
      BY <2>1, <3>1, <3>2
  <2>4. CASE SignalOf[q[n + 1]] # s
    <3>1. f[n + 1] = a
      BY <2>2, <2>4 DEF Step
    <3>2. /\ a \in Seq(Requests)
          /\ Len(a) = Len(k) + 1 /\ Len(k) \in Nat
          /\ \A i \in 1 .. Len(k) : a[i] = k[i]
          /\ a[Len(k) + 1] = q[n + 1]
      BY <2>1, <2>2, AppendProperties
    <3> HIDE DEF a
    <3>3. Elements(a) = Elements(k) \cup {q[n + 1]}
      <4>1. 1 .. Len(a) = (1 .. Len(k)) \cup {Len(k) + 1}
        BY <3>2
      <4> QED
        BY <3>2, <4>1 DEF Elements
    <3>4. Kept(n + 1) = Kept(n) \cup {q[n + 1]}
      <4>1. 1 .. n + 1 = (1 .. n) \cup {n + 1}
        OBVIOUS
      <4> QED
        BY <2>4, <4>1
    <3>5. q[n + 1] \notin Kept(n)
      <4>1. \A i \in 1 .. n : q[i] # q[n + 1]
        BY <1>4 DEF Distinct
      <4> QED
        BY <4>1
    <3> HIDE DEF Kept
    <3>6. Distinct(a)
      <4> SUFFICES ASSUME NEW i \in 1 .. Len(a), NEW j \in 1 .. Len(a), a[i] = a[j] PROVE i = j
        BY DEF Distinct
      <4>1. \A l \in 1 .. Len(k) : k[l] # q[n + 1]
        BY <2>1, <3>5 DEF Elements
      <4> QED
        BY <2>1, <3>2, <4>1 DEF Distinct
    <3> QED
      BY <2>1, <3>1, <3>2, <3>3, <3>4, <3>6
  <2> QED
    BY <2>3, <2>4
<1> HIDE DEF IsKept
<1>5. Len(q) \in Right
  <2>1. 0 \in Right /\ \A n \in Nat : n \in Right => n + 1 \in Right
    BY <1>3, <1>4
  <2> HIDE DEF Right
  <2> QED
    BY <2>1, EveryNumber
<1>6. Kept(Len(q)) = {r \in Elements(q) : SignalOf[r] # s}
  BY DEF Elements
<1> HIDE DEF Kept
<1> QED
  BY <1>1, <1>5, <1>6 DEF IsKept

-----------------------------------------------------------------------------
(* The steps.                                                              *)

\* Taking the first element off the queue leaves the others, each once.
LEMMA TailEffect ==
  ASSUME NEW q \in Seq(Requests), q # <<>>, Distinct(q)
  PROVE  /\ Head(q) \in Elements(q) /\ Tail(q) \in Seq(Requests)
         /\ Elements(Tail(q)) = Elements(q) \ {Head(q)}
         /\ Distinct(Tail(q))
<1>1. /\ Tail(q) \in Seq(Requests) /\ Len(Tail(q)) = Len(q) - 1 /\ Len(q) \in Nat \ {0}
      /\ \A i \in 1 .. Len(q) - 1 : Tail(q)[i] = q[i + 1]
      /\ Head(q) = q[1]
  BY HeadTailProperties, EmptySeq, LenProperties
<1> DEFINE u == Tail(q)
<1> HIDE DEF u
<1>2. Elements(u) = {q[i] : i \in 2 .. Len(q)}
  <2>1. \A i \in 1 .. Len(u) : \E j \in 2 .. Len(q) : u[i] = q[j]
    <3> SUFFICES ASSUME NEW i \in 1 .. Len(u) PROVE \E j \in 2 .. Len(q) : u[i] = q[j]
      OBVIOUS
    <3>1. i + 1 \in 2 .. Len(q) /\ u[i] = q[i + 1]
      BY <1>1 DEF u
    <3> QED
      BY <3>1
  <2>2. \A j \in 2 .. Len(q) : \E i \in 1 .. Len(u) : u[i] = q[j]
    <3> SUFFICES ASSUME NEW j \in 2 .. Len(q) PROVE \E i \in 1 .. Len(u) : u[i] = q[j]
      OBVIOUS
    <3>1. j - 1 \in 1 .. Len(u) /\ u[j - 1] = q[j]
      BY <1>1 DEF u
    <3> QED
      BY <3>1
  <2> QED
    <3>1. ASSUME NEW x \in Elements(u) PROVE x \in {q[i] : i \in 2 .. Len(q)}
      <4>1. PICK i \in 1 .. Len(u) : x = u[i]
        BY <3>1 DEF Elements
      <4>2. PICK j \in 2 .. Len(q) : u[i] = q[j]
        BY <2>1
      <4> QED
        BY <4>1, <4>2
    <3>2. ASSUME NEW x \in {q[i] : i \in 2 .. Len(q)} PROVE x \in Elements(u)
      <4>1. PICK j \in 2 .. Len(q) : x = q[j]
        BY <3>2
      <4>2. PICK i \in 1 .. Len(u) : u[i] = q[j]
        BY <2>2
      <4> QED
        BY <4>1, <4>2 DEF Elements
    <3> QED
      BY <3>1, <3>2
<1>3. Elements(u) = Elements(q) \ {q[1]}
  <2>1. \A i \in 2 .. Len(q) : q[i] # q[1]
    BY <1>1 DEF Distinct
  <2>2. \A i \in 1 .. Len(q) : i = 1 \/ i \in 2 .. Len(q)
    BY <1>1
  <2>3. \A i \in 2 .. Len(q) : i \in 1 .. Len(q)
    BY <1>1
  <2> QED
    BY <1>2, <2>1, <2>2, <2>3 DEF Elements
<1>4. Distinct(u)
  <2> SUFFICES ASSUME NEW i \in 1 .. Len(u), NEW j \in 1 .. Len(u), u[i] = u[j] PROVE i = j
    BY DEF Distinct
  <2>1. q[i + 1] = q[j + 1] /\ i + 1 \in 1 .. Len(q) /\ j + 1 \in 1 .. Len(q)
    BY <1>1 DEF u
  <2>2. i + 1 = j + 1
    BY <2>1 DEF Distinct
  <2> QED
    BY <2>2
<1>5. Head(q) \in Elements(q)
  <2>1. 1 \in 1 .. Len(q)
    BY <1>1
  <2> QED
    BY <1>1, <2>1 DEF Elements
<1> QED
  BY <1>1, <1>3, <1>4, <1>5 DEF u

\* Putting a new element at the end of the queue.
LEMMA AppendEffect ==
  ASSUME NEW q \in Seq(Requests), Distinct(q), NEW r \in Requests, r \notin Elements(q)
  PROVE  /\ Append(q, r) \in Seq(Requests)
         /\ Elements(Append(q, r)) = Elements(q) \cup {r}
         /\ Distinct(Append(q, r))
<1> DEFINE a == Append(q, r)
<1>1. /\ a \in Seq(Requests) /\ Len(a) = Len(q) + 1 /\ Len(q) \in Nat
      /\ \A i \in 1 .. Len(q) : a[i] = q[i]
      /\ a[Len(q) + 1] = r
  BY AppendProperties
<1> HIDE DEF a
<1>2. Elements(a) = Elements(q) \cup {r}
  <2>1. 1 .. Len(a) = (1 .. Len(q)) \cup {Len(q) + 1}
    BY <1>1
  <2> QED
    BY <1>1, <2>1 DEF Elements
<1>3. Distinct(a)
  <2>1. \A i \in 1 .. Len(q) : q[i] # r
    BY DEF Elements
  <2> QED
    BY <1>1, <2>1 DEF Distinct
<1> QED
  BY <1>1, <1>2, <1>3 DEF a

\* The type invariant in terms of the queue.
LEMMA TypeMeans ==
  TypeOK <=> /\ aborted \subseteq Signals
             /\ active \in 0 .. Maximum
             /\ waiting \in Seq(Requests)
             /\ place \in [Requests -> {"outside", "waiting", "inside", "refused", "left"}]
             /\ Elements(waiting) = {r \in Requests : place[r] = "waiting"}
             /\ Distinct(waiting)
BY DEF TypeOK, Queued, Elements, Distinct

\* The same of the next state.
LEMMA TypeMeansNext ==
  TypeOK' <=> /\ aborted' \subseteq Signals
              /\ active' \in 0 .. Maximum
              /\ waiting' \in Seq(Requests)
              /\ place' \in [Requests -> {"outside", "waiting", "inside", "refused", "left"}]
              /\ Elements(waiting') = {r \in Requests : place'[r] = "waiting"}
              /\ Distinct(waiting')
BY DEF TypeOK, Queued, Elements, Distinct

\* A queue without elements is empty.
LEMMA NobodyQueued ==
  ASSUME NEW q \in Seq(Requests)
  PROVE  q = <<>> <=> Elements(q) = {}
<1>1. Len(q) \in Nat /\ (q = <<>> <=> Len(q) = 0)
  BY LenProperties, EmptySeq
<1>2. CASE Len(q) = 0
  BY <1>1, <1>2 DEF Elements
<1>3. CASE Len(q) # 0
  <2>1. q[1] \in Elements(q)
    BY <1>1, <1>3 DEF Elements
  <2> QED
    BY <1>1, <1>3, <2>1
<1> QED
  BY <1>2, <1>3

\* Initially nobody is inside.
LEMMA GateBegins == GateParameters /\ Init => GateInv
<1> SUFFICES ASSUME GateParameters, Init PROVE GateInv
  OBVIOUS
<1>1. TypeOK
  BY TypeMeans DEF Init, GateParameters, Elements, Distinct
<1>2. Inside = {}
  BY DEF Init, Inside
<1>3. SlotsAreAccountedFor
  BY <1>2, FS_EmptySet DEF Init, SlotsAreAccountedFor
<1>4. NoIdleSlot
  BY DEF Init, NoIdleSlot, Queued
<1> QED
  BY <1>1, <1>3, <1>4 DEF GateInv

\* acquire keeps the count and the queue.
LEMMA AcquireKeeps ==
  ASSUME GateParameters, GateInv, NEW r \in Requests, Acquire(r)
  PROVE  GateInv'
<1> USE DEF GateInv, Acquire, GateParameters
<1>0. /\ aborted \subseteq Signals /\ active \in 0 .. Maximum /\ waiting \in Seq(Requests)
      /\ place \in [Requests -> {"outside", "waiting", "inside", "refused", "left"}]
      /\ Elements(waiting) = {x \in Requests : place[x] = "waiting"}
      /\ Distinct(waiting)
  BY TypeMeans
<1>5. Inside \subseteq Requests /\ IsFiniteSet(Inside) /\ r \notin Inside /\ r \notin Elements(waiting)
  BY <1>0, FS_Subset DEF Inside
<1>6. NoIdleSlot /\ active = Cardinality(Inside)
  BY DEF SlotsAreAccountedFor
<1>7. Queued = Elements(waiting) /\ Queued' = Elements(waiting')
  BY DEF Queued, Elements
<1>1. CASE Aborted(r)
  <2>1. TypeOK'
    BY <1>0, <1>1, TypeMeansNext
  <2>2. Inside' = Inside
    BY <1>0, <1>1 DEF Inside
  <2> QED
    BY <1>1, <1>6, <2>1, <2>2 DEF SlotsAreAccountedFor, NoIdleSlot, Queued, Aborted
<1>2. CASE ~Aborted(r) /\ active < Maximum
  <2>1. TypeOK'
    BY <1>0, <1>2, TypeMeansNext
  <2>2. Inside' = Inside \cup {r}
    BY <1>0, <1>2 DEF Inside
  <2>3. Cardinality(Inside') = Cardinality(Inside) + 1
    BY <1>5, <2>2, FS_AddElement
  <2>4. NoIdleSlot'
    BY <1>0, <1>2, <1>6 DEF NoIdleSlot, Queued, Aborted
  <2> QED
    BY <1>2, <1>6, <2>1, <2>3, <2>4 DEF SlotsAreAccountedFor
<1>3. CASE ~Aborted(r) /\ ~(active < Maximum)
  <2>1. waiting' = Append(waiting, r) /\ place' = [place EXCEPT ![r] = "waiting"] /\ active' = active /\ aborted' = aborted
    BY <1>3
  <2>2. waiting' \in Seq(Requests) /\ Elements(waiting') = Elements(waiting) \cup {r} /\ Distinct(waiting')
    BY <1>0, <1>5, <2>1, AppendEffect
  <2>3. TypeOK'
    BY <1>0, <2>1, <2>2, TypeMeansNext
  <2>4. Inside' = Inside
    BY <1>0, <2>1, <1>5 DEF Inside
  <2>5. NoIdleSlot'
    BY <1>0, <1>3, <1>6, <1>7, <2>1, <2>2 DEF NoIdleSlot, Aborted
  <2> QED
    BY <1>6, <2>1, <2>3, <2>4, <2>5 DEF SlotsAreAccountedFor
<1> QED
  BY <1>1, <1>2, <1>3

\* release keeps them too: the slot is given up, or handed over.
LEMMA ReleaseKeeps ==
  ASSUME GateParameters, GateInv, NEW r \in Requests, Release(r)
  PROVE  GateInv'
<1> USE DEF GateInv, Release, GateParameters
<1>0. /\ aborted \subseteq Signals /\ active \in 0 .. Maximum /\ waiting \in Seq(Requests)
      /\ place \in [Requests -> {"outside", "waiting", "inside", "refused", "left"}]
      /\ Elements(waiting) = {x \in Requests : place[x] = "waiting"}
      /\ Distinct(waiting)
  BY TypeMeans
<1>5. Inside \subseteq Requests /\ IsFiniteSet(Inside) /\ r \in Inside
  BY <1>0, FS_Subset DEF Inside
<1>6. NoIdleSlot /\ active = Cardinality(Inside)
  BY DEF SlotsAreAccountedFor
<1>7. Queued = Elements(waiting) /\ Queued' = Elements(waiting')
  BY DEF Queued, Elements
<1>8. /\ IsFiniteSet(Inside \ {r}) /\ Cardinality(Inside \ {r}) = Cardinality(Inside) - 1
      /\ Cardinality(Inside \ {r}) \in Nat
  BY <1>5, FS_RemoveElement, FS_CardinalityType
<1>1. CASE waiting = <<>>
  <2>1. place' = [place EXCEPT ![r] = "left"] /\ active' = active - 1 /\ waiting' = waiting /\ aborted' = aborted
    BY <1>1
  <2>2. active' \in 0 .. Maximum
    BY <1>0, <1>6, <1>8, <2>1
  <2>3. TypeOK'
    BY <1>0, <1>5, <2>1, <2>2, TypeMeansNext DEF Inside
  <2>4. Inside' = Inside \ {r}
    BY <1>0, <2>1 DEF Inside
  <2>5. NoIdleSlot'
    BY <1>1, <2>1 DEF NoIdleSlot, Queued
  <2> QED
    BY <1>6, <1>8, <2>1, <2>3, <2>4, <2>5 DEF SlotsAreAccountedFor
<1>2. CASE waiting # <<>>
  <2> DEFINE h == Head(waiting)
  <2>1. /\ place' = [place EXCEPT ![r] = "left", ![h] = "inside"] /\ active' = active /\ aborted' = aborted
        /\ waiting' = Tail(waiting)
    BY <1>2
  <2>2. /\ h \in Elements(waiting) /\ waiting' \in Seq(Requests)
        /\ Elements(waiting') = Elements(waiting) \ {h}
        /\ Distinct(waiting')
    BY <1>0, <1>2, <2>1, TailEffect
  <2> HIDE DEF h
  <2>3. h \in Requests /\ place[h] = "waiting" /\ h # r
    BY <1>0, <1>5, <2>2 DEF Inside
  <2>4. \A x \in Requests : place'[x] = IF x = h THEN "inside" ELSE IF x = r THEN "left" ELSE place[x]
    BY <1>0, <2>1, <2>3
  <2>5. place' \in [Requests -> {"outside", "waiting", "inside", "refused", "left"}]
    BY <1>0, <2>1
  <2>6. TypeOK'
    BY <1>0, <1>5, <2>1, <2>2, <2>3, <2>4, <2>5, TypeMeansNext DEF Inside
  <2>7. Inside' = (Inside \ {r}) \cup {h} /\ h \notin Inside
    BY <1>0, <2>3, <2>4 DEF Inside
  <2>8. Cardinality(Inside') = Cardinality(Inside)
    <3>1. Cardinality((Inside \ {r}) \cup {h}) = Cardinality(Inside \ {r}) + 1
      BY <1>8, <2>7, FS_AddElement
    <3>2. Cardinality(Inside) \in Nat
      BY <1>5, FS_CardinalityType
    <3> QED
      BY <1>8, <2>7, <3>1, <3>2
  <2>9. NoIdleSlot'
    BY <1>0, <1>2, <1>6, <1>7, <2>1, <2>2 DEF NoIdleSlot, Aborted
  <2> QED
    BY <1>6, <2>1, <2>6, <2>8, <2>9 DEF SlotsAreAccountedFor
<1> QED
  BY <1>1, <1>2

\* An abort takes its waiters out of the queue and touches no slot.
LEMMA AbortKeeps ==
  ASSUME GateParameters, GateInv, NEW s \in Signals, Abort(s)
  PROVE  GateInv'
<1> USE DEF GateInv, GateParameters
<1>0. /\ aborted \subseteq Signals /\ active \in 0 .. Maximum /\ waiting \in Seq(Requests)
      /\ place \in [Requests -> {"outside", "waiting", "inside", "refused", "left"}]
      /\ Elements(waiting) = {x \in Requests : place[x] = "waiting"}
      /\ Distinct(waiting)
  BY TypeMeans
<1>1. /\ aborted' = aborted \cup {s} /\ waiting' = Without(waiting, s) /\ active' = active
      /\ place' = [x \in Requests |-> IF SignalOf[x] = s /\ place[x] = "waiting" THEN "refused" ELSE place[x]]
  BY DEF Abort
<1>2. /\ waiting' \in Seq(Requests)
      /\ Elements(waiting') = {x \in Elements(waiting) : SignalOf[x] # s}
      /\ Distinct(waiting')
  BY <1>0, <1>1, WithoutEffect
<1>3. TypeOK'
  BY <1>0, <1>1, <1>2, TypeMeansNext
<1>4. Inside' = Inside
  BY <1>0, <1>1 DEF Inside
<1>5. NoIdleSlot'
  <2>1. Queued = Elements(waiting) /\ Queued' = Elements(waiting')
    BY DEF Queued, Elements
  <2>2. waiting' # <<>> => waiting # <<>>
    BY <1>0, <1>2, NobodyQueued
  <2> QED
    BY <1>1, <1>2, <2>1, <2>2 DEF NoIdleSlot, Aborted
<1> QED
  BY <1>1, <1>3, <1>4, <1>5 DEF SlotsAreAccountedFor

\* Every step of the gate preserves its invariant.
LEMMA GateStep == GateParameters /\ GateInv /\ [Next]_vars => GateInv'
<1> SUFFICES ASSUME GateParameters, GateInv, [Next]_vars PROVE GateInv'
  OBVIOUS
<1>1. CASE Next
  BY <1>1, AcquireKeeps, ReleaseKeeps, AbortKeeps DEF Next
<1>2. CASE UNCHANGED vars
  BY <1>2 DEF vars, GateInv, TypeOK, Queued, SlotsAreAccountedFor, Inside, NoIdleSlot, Aborted
<1> QED
  BY <1>1, <1>2

\* Through every hand-over, abort and release no slot is lost, used twice or left
\* idle, and the queue holds exactly the waiting requests, none of them aborted.
THEOREM GateIsSound == GateParameters => (Spec => []GateInv)
<1> SUFFICES ASSUME GateParameters PROVE Spec => []GateInv
  OBVIOUS
<1> QED
  BY GateBegins, GateStep, PTL DEF Spec

\* Slots are given in the order of arrival.
THEOREM ArrivalOrder == GateParameters => (Spec => FirstComeFirstServed)
<1> SUFFICES ASSUME GateParameters PROVE Spec => FirstComeFirstServed
  OBVIOUS
<1>1. ASSUME GateInv, [Next]_vars, NEW q \in Requests, NEW r \in Requests,
             place[q] # "inside", place'[q] = "inside", place[r] = "waiting", place'[r] = "waiting"
      PROVE  \E i, j \in 1 .. Len(waiting) : i < j /\ waiting[i] = q /\ waiting[j] = r
  <2>1. /\ waiting \in Seq(Requests)
        /\ place \in [Requests -> {"outside", "waiting", "inside", "refused", "left"}]
        /\ Elements(waiting) = {x \in Requests : place[x] = "waiting"}
    BY <1>1, TypeMeans DEF GateInv
  <2>2. Next
    BY <1>1 DEF vars
  <2>3. CASE \E s \in Signals : Abort(s)
    BY <1>1, <2>1, <2>3 DEF Abort
  <2>4. ASSUME NEW x \in Requests, Acquire(x) PROVE FALSE
    <3>1. waiting # <<>>
      BY <1>1, <2>1, NobodyQueued
    <3>2. ~(active < Maximum)
      BY <1>1, <3>1 DEF GateInv, NoIdleSlot, TypeOK, GateParameters
    <3> QED
      BY <1>1, <2>1, <2>4, <3>2 DEF Acquire
  <2>5. ASSUME NEW x \in Requests, Release(x)
        PROVE  \E i, j \in 1 .. Len(waiting) : i < j /\ waiting[i] = q /\ waiting[j] = r
    <3>1. waiting # <<>>
      BY <1>1, <2>1, NobodyQueued
    <3>2. q = Head(waiting)
      BY <1>1, <2>1, <2>5, <3>1 DEF Release
    <3>3. Head(waiting) = waiting[1] /\ Len(waiting) \in Nat \ {0}
      BY <2>1, <3>1, HeadTailProperties, EmptySeq, LenProperties
    <3>4. PICK j \in 1 .. Len(waiting) : waiting[j] = r
      BY <1>1, <2>1 DEF Elements
    <3>5. j # 1
      BY <1>1, <3>2, <3>3, <3>4
    <3> QED
      BY <3>2, <3>3, <3>4, <3>5
  <2> QED
    BY <2>2, <2>3, <2>4, <2>5 DEF Next
<1>2. GateInv /\ [Next]_vars =>
        [\A q, r \in Requests :
           place[q] # "inside" /\ place'[q] = "inside" /\ place[r] = "waiting" /\ place'[r] = "waiting" =>
             \E i, j \in 1 .. Len(waiting) : i < j /\ waiting[i] = q /\ waiting[j] = r]_vars
  BY <1>1
<1> QED
  BY <1>2, GateIsSound, PTL DEF Spec, FirstComeFirstServed

-----------------------------------------------------------------------------
(* The abstract limit.                                                     *)

\* Every step of the gate is one of the concurrency limit it implements.
LEMMA GateStepIsBounded == GateParameters /\ GateInv /\ [Next]_vars => [Slots!Next]_place
<1> SUFFICES ASSUME GateParameters, GateInv, Next PROVE [Slots!Next]_place
  BY DEF vars
<1>0. /\ active \in 0 .. Maximum /\ waiting \in Seq(Requests)
      /\ place \in [Requests -> {"outside", "waiting", "inside", "refused", "left"}]
      /\ Elements(waiting) = {x \in Requests : place[x] = "waiting"}
      /\ Distinct(waiting) /\ active = Cardinality(Inside) /\ Maximum \in Nat
  BY TypeMeans DEF GateInv, SlotsAreAccountedFor, GateParameters
<1>1. ASSUME NEW r \in Requests, Acquire(r) PROVE Slots!Next
  <2>1. CASE Aborted(r)
    <3>1. Slots!TurnAway({r})
      BY <1>0, <1>1, <2>1 DEF Acquire, Slots!TurnAway
    <3> QED
      BY <3>1 DEF Slots!Next
  <2>2. CASE ~Aborted(r) /\ active < Maximum
    <3>1. Slots!Enter(r)
      BY <1>0, <1>1, <2>2 DEF Acquire, Slots!Enter, Slots!Inside, Inside, Slots!Cardinality, Cardinality
    <3> QED
      BY <3>1 DEF Slots!Next
  <2>3. CASE ~Aborted(r) /\ ~(active < Maximum)
    <3>1. Slots!Knock(r)
      BY <1>1, <2>3 DEF Acquire, Slots!Knock
    <3> QED
      BY <3>1 DEF Slots!Next
  <2> QED
    BY <2>1, <2>2, <2>3
<1>2. ASSUME NEW r \in Requests, Release(r) PROVE Slots!Next
  <2>1. CASE waiting = <<>>
    <3>1. place' = [x \in Requests |-> IF x = r THEN "left" ELSE IF x \in {} THEN "inside" ELSE place[x]]
      BY <1>0, <1>2, <2>1 DEF Release
    <3>2. Cardinality({}) <= 1
      BY FS_EmptySet
    <3>3. Slots!Leave(r)
      BY <1>2, <3>1, <3>2 DEF Release, Slots!Leave, Slots!Cardinality, Cardinality
    <3> QED
      BY <3>3 DEF Slots!Next
  <2>2. CASE waiting # <<>>
    <3> DEFINE h == Head(waiting)
    <3>1. h \in Elements(waiting)
      BY <1>0, <2>2, TailEffect
    <3>2. place' = [place EXCEPT ![r] = "left", ![h] = "inside"] /\ place[r] = "inside"
      BY <1>2, <2>2 DEF Release
    <3> HIDE DEF h
    <3>3. h \in Requests /\ place[h] = "waiting" /\ h # r
      BY <1>0, <3>1, <3>2
    <3>4. place' = [x \in Requests |-> IF x = r THEN "left" ELSE IF x \in {h} THEN "inside" ELSE place[x]]
      BY <1>0, <3>2, <3>3
    <3>5. Cardinality({h}) <= 1
      BY FS_Singleton
    <3>6. {h} \in SUBSET {x \in Requests : place[x] = "waiting"}
      BY <3>3
    <3>7. Slots!Leave(r)
      BY <3>2, <3>4, <3>5, <3>6 DEF Slots!Leave, Slots!Cardinality, Cardinality
    <3> QED
      BY <3>7 DEF Slots!Next
  <2> QED
    BY <2>1, <2>2
<1>3. ASSUME NEW s \in Signals, Abort(s) PROVE [Slots!Next]_place
  <2> DEFINE R == {x \in Requests : SignalOf[x] = s /\ place[x] = "waiting"}
  <2>1. place' = [x \in Requests |-> IF x \in R THEN "refused" ELSE place[x]]
    BY <1>0, <1>3 DEF Abort
  <2>2. CASE R = {}
    BY <1>0, <2>1, <2>2
  <2>3. CASE R # {}
    <3>1. R \in (SUBSET Requests) \ {{}}
      BY <2>3
    <3>2. Slots!TurnAway(R)
      BY <2>1 DEF Slots!TurnAway
    <3> QED
      BY <3>1, <3>2 DEF Slots!Next
  <2> QED
    BY <2>2, <2>3
<1> QED
  BY <1>1, <1>2, <1>3 DEF Next

\* With the counter and the queue hidden the gate is a concurrency limit: at most
\* Maximum requests are inside, and a slot passes to one that waits at most.  (That
\* nobody waits forever needs fairness: TLC checks it.)
THEOREM GateBoundsSlots == GateParameters => (Spec => Slots!Bounded)
<1> SUFFICES ASSUME GateParameters PROVE Spec => Slots!Bounded
  OBVIOUS
<1>1. Init => Slots!Init
  BY DEF Init, Slots!Init
<1> QED
  BY <1>1, GateIsSound, GateStepIsBounded, PTL DEF Spec, Slots!Bounded
=============================================================================
