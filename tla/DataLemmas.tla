----------------------------- MODULE DataLemmas -----------------------------
(***************************************************************************)
(* What the operators on data that the models share compute for every      *)
(* input: sums over a set of indices, and the concatenation of a sequence  *)
(* of sequences.  Induction is over a set of natural numbers, which        *)
(* follows from the well-foundedness of <.                                 *)
(***************************************************************************)
EXTENDS Integers, Sequences, SequencesExt, FiniteSetTheorems, SequenceTheorems, TLAPS

------------------------------------------------------------------------------
(* Induction *)

\* A set of natural numbers that has 0 and every successor has them all.
LEMMA NatSetInduction ==
    ASSUME NEW T, 0 \in T, \A n \in Nat : n \in T => n + 1 \in T
    PROVE  Nat \subseteq T
<1> DEFINE out == {n \in Nat : n \notin T}
<1> SUFFICES ASSUME out # {} PROVE FALSE
  OBVIOUS
<1>1. \E m \in out : \A k \in out : ~(k < m)
  <2>1. IsWellFoundedOn(OpToRel(<, Nat), Nat)
    BY NatLessThanWellFounded
  <2>2. \E m \in out : \A k \in out : ~(<<k, m>> \in OpToRel(<, Nat))
    BY <2>1, WFMin
  <2> QED BY <2>2 DEF OpToRel
<1>2. PICK m \in out : \A k \in out : ~(k < m)
  BY <1>1
<1>3. m \in Nat /\ m \notin T
  OBVIOUS
<1>4. m # 0 /\ m - 1 \in Nat
  BY <1>3
<1>5. m - 1 \in T
  BY <1>2, <1>3, <1>4
<1>6. (m - 1) + 1 \in T
  BY <1>4, <1>5
<1> QED BY <1>3, <1>6

------------------------------------------------------------------------------
(* Sums over a set of indices *)

\* The element that the sum over s begins with.
First(s) == CHOOSE x \in s : TRUE

\* g has the partial sums of f over the subsets of D.
IsSum(g, f, D) ==
    g = [s \in SUBSET D |-> IF s = {} THEN 0 ELSE f[First(s)] + g[s \ {First(s)}]]

\* A nonempty set shrinks by its first element.
LEMMA FirstIn ==
    ASSUME NEW s, s # {}
    PROVE  First(s) \in s
BY DEF First

\* Partial sums exist over every finite set.
LEMMA SumExists ==
    ASSUME NEW D, IsFiniteSet(D), NEW f, \A x \in D : f[x] \in Int
    PROVE  \E g : IsSum(g, f, D) /\ g \in [SUBSET D -> Int]
<1> DEFINE Level(k) == {s \in SUBSET D : Cardinality(s) <= k}
           Partial(g, k) == \A s \in Level(k) :
               g[s] = IF s = {} THEN 0 ELSE f[First(s)] + g[s \ {First(s)}]
           T == {k \in Nat : \E g \in [Level(k) -> Int] : Partial(g, k)}
<1>1. \A s \in SUBSET D : IsFiniteSet(s) /\ Cardinality(s) \in Nat /\ (Cardinality(s) = 0 <=> s = {})
  BY FS_Subset, FS_CardinalityType, FS_EmptySet
<1>2. 0 \in T
  <2> DEFINE g == [s \in Level(0) |-> 0]
  <2>1. \A s \in Level(0) : s = {}
    BY <1>1
  <2>2. g \in [Level(0) -> Int] /\ Partial(g, 0)
    BY <2>1
  <2> QED BY <2>2
<1>3. ASSUME NEW k \in Nat, k \in T PROVE k + 1 \in T
  <2>1. PICK g \in [Level(k) -> Int] : Partial(g, k)
    BY <1>3
  <2> DEFINE h == [s \in Level(k + 1) |->
                     IF s \in Level(k) THEN g[s] ELSE f[First(s)] + g[s \ {First(s)}]]
  <2>2. \A s \in Level(k + 1) : s # {} =>
            First(s) \in D /\ s \ {First(s)} \in Level(k)
    <3> SUFFICES ASSUME NEW s \in Level(k + 1), s # {}
                 PROVE  First(s) \in D /\ s \ {First(s)} \in Level(k)
      OBVIOUS
    <3>1. First(s) \in s
      BY FirstIn
    <3>2. Cardinality(s \ {First(s)}) = Cardinality(s) - 1
      BY <1>1, <3>1, FS_RemoveElement
    <3> QED BY <1>1, <3>1, <3>2
  <2>3. h \in [Level(k + 1) -> Int]
    <3> SUFFICES ASSUME NEW s \in Level(k + 1) PROVE h[s] \in Int
      OBVIOUS
    <3>1. CASE s \in Level(k)
      BY <3>1
    <3>2. CASE s \notin Level(k)
      <4>1. s # {}
        BY <1>1, <3>2
      <4>2. f[First(s)] \in Int /\ g[s \ {First(s)}] \in Int
        BY <2>2, <4>1
      <4> QED BY <3>2, <4>2
    <3> QED BY <3>1, <3>2
  <2>4. Partial(h, k + 1)
    <3> SUFFICES ASSUME NEW s \in Level(k + 1)
                 PROVE  h[s] = IF s = {} THEN 0 ELSE f[First(s)] + h[s \ {First(s)}]
      OBVIOUS
    <3>1. \A t \in Level(k) : t \in Level(k + 1) /\ h[t] = g[t]
      BY <1>1
    <3>2. CASE s \in Level(k)
      <4>1. s # {} => s \ {First(s)} \in Level(k)
        <5> SUFFICES ASSUME s # {} PROVE s \ {First(s)} \in Level(k)
          OBVIOUS
        <5>1. First(s) \in s
          BY FirstIn
        <5>2. Cardinality(s \ {First(s)}) = Cardinality(s) - 1
          BY <1>1, <5>1, FS_RemoveElement
        <5> QED BY <1>1, <3>2, <5>2
      <4> QED BY <2>1, <3>1, <3>2, <4>1
    <3>3. CASE s \notin Level(k)
      <4>1. s # {}
        BY <1>1, <3>3
      <4> QED BY <2>2, <3>1, <3>3, <4>1
    <3> QED BY <3>2, <3>3
  <2>5. k + 1 \in Nat /\ \E u \in [Level(k + 1) -> Int] : Partial(u, k + 1)
    <3> HIDE DEF h, Partial, Level
    <3> QED BY <2>3, <2>4
  <2> QED BY <2>5
<1>4. Nat \subseteq T
  <2> HIDE DEF T
  <2> QED BY <1>2, <1>3, NatSetInduction
<1>5. Cardinality(D) \in Nat /\ Level(Cardinality(D)) = SUBSET D
  BY <1>1, FS_Subset
<1>6. PICK g \in [SUBSET D -> Int] : Partial(g, Cardinality(D))
  BY <1>4, <1>5
<1>7. IsSum(g, f, D)
  BY <1>5, <1>6 DEF IsSum
<1> QED BY <1>6, <1>7

\* Partial sums of functions that agree on S agree on S.
LEMMA SumAgrees ==
    ASSUME NEW S, IsFiniteSet(S), NEW D, NEW E, S \subseteq D, S \subseteq E,
           NEW f, NEW h, \A x \in S : f[x] = h[x],
           NEW u, IsSum(u, f, D), NEW v, IsSum(v, h, E)
    PROVE  u[S] = v[S]
<1> DEFINE T == {k \in Nat : \A s \in SUBSET S : Cardinality(s) <= k => u[s] = v[s]}
<1>1. \A s \in SUBSET S : IsFiniteSet(s) /\ Cardinality(s) \in Nat /\ (Cardinality(s) = 0 <=> s = {})
  BY FS_Subset, FS_CardinalityType, FS_EmptySet
<1>2. \A s \in SUBSET S :
        /\ u[s] = IF s = {} THEN 0 ELSE f[First(s)] + u[s \ {First(s)}]
        /\ v[s] = IF s = {} THEN 0 ELSE h[First(s)] + v[s \ {First(s)}]
  <2> SUFFICES ASSUME NEW s \in SUBSET S
               PROVE  /\ u[s] = IF s = {} THEN 0 ELSE f[First(s)] + u[s \ {First(s)}]
                      /\ v[s] = IF s = {} THEN 0 ELSE h[First(s)] + v[s \ {First(s)}]
    OBVIOUS
  <2>1. s \in SUBSET D /\ s \in SUBSET E
    OBVIOUS
  <2>2. u[s] = IF s = {} THEN 0 ELSE f[First(s)] + u[s \ {First(s)}]
    BY <2>1 DEF IsSum
  <2>3. v[s] = IF s = {} THEN 0 ELSE h[First(s)] + v[s \ {First(s)}]
    BY <2>1 DEF IsSum
  <2> QED BY <2>2, <2>3
<1>3. 0 \in T
  BY <1>1, <1>2
<1>4. ASSUME NEW k \in Nat, k \in T PROVE k + 1 \in T
  <2> SUFFICES ASSUME NEW s \in SUBSET S, Cardinality(s) <= k + 1
               PROVE  u[s] = v[s]
    OBVIOUS
  <2>1. CASE s = {}
    BY <1>2, <2>1
  <2>2. CASE s # {}
    <3>1. First(s) \in s
      BY <2>2, FirstIn
    <3>2. Cardinality(s \ {First(s)}) = Cardinality(s) - 1
      BY <1>1, <3>1, FS_RemoveElement
    <3>3. u[s \ {First(s)}] = v[s \ {First(s)}]
      BY <1>1, <1>4, <3>2
    <3> QED BY <1>2, <2>2, <3>1, <3>3
  <2> QED BY <2>1, <2>2
<1>5. Nat \subseteq T
  <2> HIDE DEF T
  <2> QED BY <1>3, <1>4, NatSetInduction
<1>6. Cardinality(S) \in T
  BY <1>1, <1>5
<1> QED BY <1>1, <1>6

\* What SumFunctionOnSet sums up.
LEMMA SumIs ==
    ASSUME NEW S, IsFiniteSet(S), NEW f, \A x \in S : f[x] \in Int,
           NEW D, IsFiniteSet(D), S \subseteq D, NEW u, IsSum(u, f, D)
    PROVE  SumFunctionOnSet(f, S) = u[S]
<1> DEFINE g == CHOOSE g : IsSum(g, f, S)
<1>1. SumFunctionOnSet(f, S) = g[S]
  BY DEF SumFunctionOnSet, FoldFunctionOnSet, MapThenFoldSet, IsSum, First
<1>2. IsSum(g, f, S)
  <2>1. \E u1 : IsSum(u1, f, S)
    BY SumExists
  <2> QED BY <2>1
<1> HIDE DEF g
<1> QED BY <1>1, <1>2, SumAgrees

\* The sum over no index.
LEMMA SumOfNone ==
    ASSUME NEW f
    PROVE  SumFunctionOnSet(f, {}) = 0
<1>1. IsFiniteSet({})
  BY FS_EmptySet
<1>2. PICK u : IsSum(u, f, {})
  BY <1>1, SumExists
<1>3. SumFunctionOnSet(f, {}) = u[{}]
  BY <1>1, <1>2, SumIs
<1> QED BY <1>2, <1>3 DEF IsSum

\* A sum of integers is an integer.
LEMMA SumInt ==
    ASSUME NEW S, IsFiniteSet(S), NEW f, \A x \in S : f[x] \in Int
    PROVE  SumFunctionOnSet(f, S) \in Int
<1>1. PICK u : IsSum(u, f, S) /\ u \in [SUBSET S -> Int]
  BY SumExists
<1>2. SumFunctionOnSet(f, S) = u[S]
  BY <1>1, SumIs
<1> QED BY <1>1, <1>2

\* Functions that agree on S have the same sum over S.
LEMMA SumSame ==
    ASSUME NEW S, IsFiniteSet(S), NEW f, \A x \in S : f[x] \in Int,
           NEW h, \A x \in S : h[x] = f[x]
    PROVE  SumFunctionOnSet(h, S) = SumFunctionOnSet(f, S)
<1>1. PICK u : IsSum(u, f, S)
  BY SumExists
<1>2. PICK v : IsSum(v, h, S)
  BY SumExists
<1>3. SumFunctionOnSet(f, S) = u[S] /\ SumFunctionOnSet(h, S) = v[S]
  BY <1>1, <1>2, SumIs
<1> QED BY <1>1, <1>2, <1>3, SumAgrees

\* Any index may be the first one.
LEMMA SumRemove ==
    ASSUME NEW S, IsFiniteSet(S), NEW f, \A x \in S : f[x] \in Int, NEW x \in S
    PROVE  SumFunctionOnSet(f, S) = f[x] + SumFunctionOnSet(f, S \ {x})
<1>1. PICK u : IsSum(u, f, S) /\ u \in [SUBSET S -> Int]
  BY SumExists
<1> DEFINE T == {k \in Nat : \A s \in SUBSET S : Cardinality(s) <= k =>
                     \A y \in s : u[s] = f[y] + u[s \ {y}]}
<1>2. \A s \in SUBSET S : IsFiniteSet(s) /\ Cardinality(s) \in Nat /\ (Cardinality(s) = 0 <=> s = {})
  BY FS_Subset, FS_CardinalityType, FS_EmptySet
<1>3. 0 \in T
  BY <1>2
<1>4. ASSUME NEW k \in Nat, k \in T PROVE k + 1 \in T
  <2> SUFFICES ASSUME NEW s \in SUBSET S, Cardinality(s) <= k + 1, NEW y \in s
               PROVE  u[s] = f[y] + u[s \ {y}]
    OBVIOUS
  <2> DEFINE c == First(s)
  <2>1. c \in s
    BY FirstIn
  <2>2. u[s] = f[c] + u[s \ {c}]
    BY <1>1, <2>1 DEF IsSum
  <2> HIDE DEF c
  <2>3. CASE y = c
    BY <2>2, <2>3
  <2>4. CASE y # c
    <3>1. Cardinality(s \ {c}) = Cardinality(s) - 1 /\ Cardinality(s \ {y}) = Cardinality(s) - 1
      BY <1>2, <2>1, FS_RemoveElement
    <3>2. Cardinality(s \ {c}) <= k /\ Cardinality(s \ {y}) <= k
      BY <1>2, <3>1
    <3>3. u[s \ {c}] = f[y] + u[(s \ {c}) \ {y}]
      BY <1>4, <2>4, <3>2
    <3>4. u[s \ {y}] = f[c] + u[(s \ {y}) \ {c}]
      BY <1>4, <2>1, <2>4, <3>2
    <3>5. (s \ {c}) \ {y} = (s \ {y}) \ {c}
      OBVIOUS
    <3> DEFINE w == u[(s \ {y}) \ {c}]
    <3>6. w \in Int /\ f[c] \in Int /\ f[y] \in Int
      BY <1>1, <2>1
    <3>7. u[s] = f[c] + (f[y] + w) /\ u[s \ {y}] = f[c] + w
      BY <2>2, <3>3, <3>4, <3>5
    <3> HIDE DEF w
    <3> QED BY <3>6, <3>7
  <2> QED BY <2>3, <2>4
<1>5. Nat \subseteq T
  <2> HIDE DEF T
  <2> QED BY <1>3, <1>4, NatSetInduction
<1>6. u[S] = f[x] + u[S \ {x}]
  BY <1>2, <1>5
<1>7. IsFiniteSet(S \ {x})
  BY FS_RemoveElement
<1>8. SumFunctionOnSet(f, S) = u[S]
  BY <1>1, SumIs
<1>9. SumFunctionOnSet(f, S \ {x}) = u[S \ {x}]
  BY <1>1, <1>7, SumIs
<1> QED BY <1>6, <1>8, <1>9

\* One more index adds its value.
LEMMA SumAdd ==
    ASSUME NEW S, IsFiniteSet(S), NEW f, \A y \in S : f[y] \in Int,
           NEW x, x \notin S, f[x] \in Int
    PROVE  SumFunctionOnSet(f, S \cup {x}) = f[x] + SumFunctionOnSet(f, S)
<1>1. IsFiniteSet(S \cup {x}) /\ (S \cup {x}) \ {x} = S
  BY FS_AddElement
<1> QED BY <1>1, SumRemove

------------------------------------------------------------------------------
(* The concatenation of a sequence of sequences *)

\* g has the concatenations of the prefixes of seqs.
IsFlat(g, seqs) ==
    g = [i \in 1 .. Len(seqs) |-> IF i = 1 THEN seqs[i] ELSE g[i - 1] \o seqs[i]]

\* The concatenations of prefixes exist, and are sequences.
LEMMA FlatExists ==
    ASSUME NEW S, NEW seqs \in Seq(Seq(S))
    PROVE  \E g : IsFlat(g, seqs) /\ g \in [1 .. Len(seqs) -> Seq(S)]
<1> DEFINE n == Len(seqs)
           Partial(g, k) == \A i \in 1 .. k :
               g[i] = IF i = 1 THEN seqs[i] ELSE g[i - 1] \o seqs[i]
           T == {k \in Nat : k <= n => \E g \in [1 .. k -> Seq(S)] : Partial(g, k)}
<1>1. n \in Nat /\ \A i \in 1 .. n : seqs[i] \in Seq(S)
  OBVIOUS
<1> HIDE DEF n
<1>2. 0 \in T
  <2> DEFINE g == [i \in 1 .. 0 |-> <<>>]
  <2>1. g \in [1 .. 0 -> Seq(S)] /\ Partial(g, 0)
    OBVIOUS
  <2> QED BY <2>1
<1>3. ASSUME NEW k \in Nat, k \in T PROVE k + 1 \in T
  <2> SUFFICES ASSUME k + 1 <= n PROVE \E g \in [1 .. k + 1 -> Seq(S)] : Partial(g, k + 1)
    <3> HIDE DEF Partial
    <3> QED OBVIOUS
  <2>1. PICK g \in [1 .. k -> Seq(S)] : Partial(g, k)
    BY <1>1, <1>3
  <2> DEFINE h == [i \in 1 .. k + 1 |->
                     IF i \in 1 .. k THEN g[i]
                     ELSE IF i = 1 THEN seqs[i] ELSE g[i - 1] \o seqs[i]]
  <2>2. \A i \in 1 .. k : h[i] = g[i]
    OBVIOUS
  <2>3. h[k + 1] = IF k + 1 = 1 THEN seqs[k + 1] ELSE g[k] \o seqs[k + 1]
    OBVIOUS
  <2>4. h[k + 1] \in Seq(S)
    <3>1. seqs[k + 1] \in Seq(S)
      BY <1>1
    <3>2. k # 0 => g[k] \in Seq(S)
      OBVIOUS
    <3> QED BY <2>3, <3>1, <3>2, ConcatProperties
  <2>5. h \in [1 .. k + 1 -> Seq(S)]
    <3>1. \A i \in 1 .. k + 1 : h[i] \in Seq(S)
      <4> SUFFICES ASSUME NEW i \in 1 .. k + 1 PROVE h[i] \in Seq(S)
        OBVIOUS
      <4>1. i \in 1 .. k \/ i = k + 1
        OBVIOUS
      <4> HIDE DEF h
      <4> QED BY <2>2, <2>4, <4>1
    <3> QED BY <3>1
  <2>6. Partial(h, k + 1)
    <3> SUFFICES ASSUME NEW i \in 1 .. k + 1
                 PROVE  h[i] = IF i = 1 THEN seqs[i] ELSE h[i - 1] \o seqs[i]
      OBVIOUS
    <3> HIDE DEF h
    <3>1. CASE i \in 1 .. k
      <4>1. i # 1 => i - 1 \in 1 .. k
        BY <3>1
      <4> QED BY <2>1, <2>2, <3>1, <4>1
    <3>2. CASE i = k + 1
      <4>1. k # 0 => k \in 1 .. k /\ i - 1 = k
        BY <3>2
      <4> QED BY <2>2, <2>3, <3>2, <4>1
    <3> QED BY <3>1, <3>2
  <2> HIDE DEF h, Partial
  <2> QED BY <2>5, <2>6
<1>4. Nat \subseteq T
  <2> HIDE DEF T
  <2> QED BY <1>2, <1>3, NatSetInduction
<1>5. PICK g \in [1 .. n -> Seq(S)] : Partial(g, n)
  <2> HIDE DEF Partial
  <2> QED BY <1>1, <1>4
<1>6. IsFlat(g, seqs)
  BY <1>5 DEF IsFlat, n
<1> QED BY <1>5, <1>6 DEF n

\* The first m elements are the same.
SamePrefix(s, t, m) ==
    /\ m \in Nat /\ m <= Len(s) /\ m <= Len(t)
    /\ \A i \in 1 .. m : s[i] = t[i]

\* The concatenation of a prefix does not depend on what follows it.
LEMMA FlatAgrees ==
    ASSUME NEW S, NEW s \in Seq(Seq(S)), NEW t \in Seq(Seq(S)), NEW m,
           SamePrefix(s, t, m),
           NEW u, IsFlat(u, s), NEW v, IsFlat(v, t)
    PROVE  \A i \in 1 .. m : u[i] = v[i]
<1> USE DEF SamePrefix
<1> DEFINE T == {k \in Nat : \A i \in 1 .. m : i <= k => u[i] = v[i]}
<1>1. ASSUME NEW i \in 1 .. m
      PROVE  /\ u[i] = IF i = 1 THEN s[i] ELSE u[i - 1] \o s[i]
             /\ v[i] = IF i = 1 THEN t[i] ELSE v[i - 1] \o t[i]
  <2>1. i \in 1 .. Len(s) /\ i \in 1 .. Len(t)
    OBVIOUS
  <2>2. u[i] = IF i = 1 THEN s[i] ELSE u[i - 1] \o s[i]
    BY <2>1, Zenon DEF IsFlat
  <2>3. v[i] = IF i = 1 THEN t[i] ELSE v[i - 1] \o t[i]
    BY <2>1, Zenon DEF IsFlat
  <2> QED BY <2>2, <2>3
<1>2. 0 \in T
  OBVIOUS
<1>3. ASSUME NEW k \in Nat, k \in T PROVE k + 1 \in T
  <2> SUFFICES ASSUME NEW i \in 1 .. m, i <= k + 1 PROVE u[i] = v[i]
    OBVIOUS
  <2>1. CASE i = 1
    BY <1>1, <2>1
  <2>2. CASE i # 1
    <3>1. i - 1 \in 1 .. m /\ i - 1 <= k
      BY <2>2
    <3>2. u[i - 1] = v[i - 1]
      BY <1>3, <3>1
    <3> QED BY <1>1, <2>2, <3>2
  <2> QED BY <2>1, <2>2
<1>4. Nat \subseteq T
  <2> HIDE DEF T
  <2> QED BY <1>2, <1>3, NatSetInduction
<1>5. m \in T
  BY <1>4
<1> QED BY <1>5

\* FlattenSeq is the last of them.
LEMMA FlattenIs ==
    ASSUME NEW S, NEW seqs \in Seq(Seq(S)), Len(seqs) # 0
    PROVE  \E g : /\ IsFlat(g, seqs)
                  /\ g \in [1 .. Len(seqs) -> Seq(S)]
                  /\ FlattenSeq(seqs) = g[Len(seqs)]
<1> DEFINE g == CHOOSE g : IsFlat(g, seqs)
<1>1. FlattenSeq(seqs) = g[Len(seqs)]
  BY DEF FlattenSeq, IsFlat
<1>2. PICK h : IsFlat(h, seqs) /\ h \in [1 .. Len(seqs) -> Seq(S)]
  BY FlatExists
<1>3. IsFlat(g, seqs)
  BY <1>2
<1> HIDE DEF g
<1>4. \A i \in 1 .. Len(seqs) : g[i] = h[i]
  <2>1. SamePrefix(seqs, seqs, Len(seqs))
    BY DEF SamePrefix
  <2> QED BY <1>2, <1>3, <2>1, FlatAgrees
<1>5. g \in [1 .. Len(seqs) -> Seq(S)]
  BY <1>2, <1>3, <1>4 DEF IsFlat
<1> QED BY <1>1, <1>3, <1>5

\* Concatenating no sequence.
LEMMA FlattenNone ==
    ASSUME NEW seqs, Len(seqs) = 0
    PROVE  FlattenSeq(seqs) = seqs
BY DEF FlattenSeq

\* A concatenation of sequences is a sequence.
LEMMA FlattenType ==
    ASSUME NEW S, NEW seqs \in Seq(Seq(S))
    PROVE  FlattenSeq(seqs) \in Seq(S)
<1>1. CASE Len(seqs) = 0
  <2>1. seqs = <<>>
    BY <1>1
  <2> QED BY <1>1, <2>1, FlattenNone, EmptySeq
<1>2. CASE Len(seqs) # 0
  <2>1. PICK g : g \in [1 .. Len(seqs) -> Seq(S)] /\ FlattenSeq(seqs) = g[Len(seqs)]
    BY <1>2, FlattenIs
  <2>2. Len(seqs) \in 1 .. Len(seqs)
    BY <1>2
  <2> QED BY <2>1, <2>2
<1> QED BY <1>1, <1>2

\* A further sequence is appended to the concatenation.
LEMMA FlattenAppend ==
    ASSUME NEW S, NEW seqs \in Seq(Seq(S)), NEW s \in Seq(S)
    PROVE  FlattenSeq(Append(seqs, s)) = FlattenSeq(seqs) \o s
<1> DEFINE more == Append(seqs, s)
           n == Len(seqs)
<1>1. /\ more \in Seq(Seq(S)) /\ n \in Nat
      /\ Len(more) = n + 1
      /\ more[n + 1] = s
      /\ \A i \in 1 .. n : more[i] = seqs[i]
  BY AppendProperties
<1> HIDE DEF more
<1>2. PICK v : IsFlat(v, more) /\ v \in [1 .. n + 1 -> Seq(S)] /\ FlattenSeq(more) = v[n + 1]
  BY <1>1, FlattenIs
<1>3. CASE n = 0
  <2>1. FlattenSeq(more) = s
    BY <1>1, <1>2, <1>3 DEF IsFlat
  <2>2. seqs = <<>> /\ FlattenSeq(seqs) = <<>>
    BY <1>3, FlattenNone
  <2>3. <<>> \o s = s
    BY ConcatEmptySeq
  <2> QED BY <2>1, <2>2, <2>3 DEF more
<1>4. CASE n # 0
  <2>1. PICK u : IsFlat(u, seqs) /\ FlattenSeq(seqs) = u[n]
    BY <1>4, FlattenIs
  <2>2. u[n] = v[n]
    <3>1. \A i \in 1 .. n : u[i] = v[i]
      <4>1. SamePrefix(seqs, more, n)
        <5>1. n \in Nat /\ n <= Len(seqs) /\ n <= Len(more)
          BY <1>1
        <5>2. \A i \in 1 .. n : seqs[i] = more[i]
          BY <1>1
        <5> HIDE DEF n
        <5> QED BY <5>1, <5>2 DEF SamePrefix
      <4> QED BY <1>1, <1>2, <2>1, <4>1, FlatAgrees
    <3> QED BY <1>1, <1>4, <3>1
  <2>3. v[n + 1] = v[n] \o s
    <3>1. n + 1 \in 1 .. Len(more) /\ n + 1 # 1 /\ (n + 1) - 1 = n
      BY <1>1, <1>4
    <3> QED BY <1>1, <1>2, <3>1 DEF IsFlat
  <2> QED BY <1>2, <2>1, <2>2, <2>3 DEF more
<1> QED BY <1>3, <1>4

\* More at the end of the last sequence is more at the end of the concatenation.
LEMMA FlattenExtend ==
    ASSUME NEW S, NEW seqs \in Seq(Seq(S)), Len(seqs) # 0, NEW x \in S,
           NEW more \in Seq(Seq(S)), Len(more) = Len(seqs),
           \A i \in 1 .. Len(seqs) - 1 : more[i] = seqs[i],
           more[Len(seqs)] = Append(seqs[Len(seqs)], x)
    PROVE  FlattenSeq(more) = Append(FlattenSeq(seqs), x)
<1> DEFINE n == Len(seqs)
           front == [i \in 1 .. n - 1 |-> seqs[i]]
<1>1. n \in Nat /\ n \in 1 .. n /\ n - 1 \in Nat /\ 1 .. n - 1 \subseteq 1 .. n
  OBVIOUS
<1>2. \A i \in 1 .. n : seqs[i] \in Seq(S)
  OBVIOUS
<1>3. front \in Seq(Seq(S)) /\ Len(front) = n - 1
  BY <1>1, <1>2
<1>4. seqs = Append(front, seqs[n])
  <2>1. Len(Append(front, seqs[n])) = n
    BY <1>1, <1>2, <1>3
  <2>2. \A i \in 1 .. n : Append(front, seqs[n])[i] = seqs[i]
    BY <1>1, <1>2, <1>3
  <2>3. Append(front, seqs[n]) \in Seq(Seq(S))
    BY <1>1, <1>2, <1>3
  <2> HIDE DEF front
  <2> QED BY <2>1, <2>2, <2>3, SeqEqual
<1>5. more = Append(front, Append(seqs[n], x))
  <2> DEFINE l == Append(seqs[n], x)
  <2>0. l \in Seq(S) /\ more[n] = l
    BY <1>1, <1>2
  <2> HIDE DEF l
  <2>1. Len(Append(front, l)) = n
    BY <1>1, <1>3, <2>0
  <2>2. \A i \in 1 .. n : Append(front, l)[i] = more[i]
    BY <1>1, <1>3, <2>0
  <2>3. Append(front, l) \in Seq(Seq(S))
    BY <1>3, <2>0
  <2> HIDE DEF front
  <2>4. more = Append(front, l)
    BY <2>1, <2>2, <2>3, SeqEqual
  <2> QED BY <2>4 DEF l
<1> HIDE DEF front
<1>6. FlattenSeq(seqs) = FlattenSeq(front) \o seqs[n]
  BY <1>1, <1>2, <1>3, <1>4, FlattenAppend
<1>7. FlattenSeq(more) = FlattenSeq(front) \o Append(seqs[n], x)
  <2>1. Append(seqs[n], x) \in Seq(S)
    BY <1>1, <1>2
  <2> QED BY <1>3, <1>5, <2>1, FlattenAppend
<1>8. FlattenSeq(front) \in Seq(S) /\ seqs[n] \in Seq(S)
  BY <1>1, <1>2, <1>3, FlattenType
<1> DEFINE f == FlattenSeq(front)
           l == seqs[n]
<1>9. f \o Append(l, x) = Append(f \o l, x)
  <2>1. f \in Seq(S) /\ l \in Seq(S)
    BY <1>8
  <2> HIDE DEF f, l
  <2>2. f \o Append(l, x) \in Seq(S) /\ Append(f \o l, x) \in Seq(S)
    BY <2>1
  <2>3. Len(f \o Append(l, x)) = Len(Append(f \o l, x))
    BY <2>1
  <2>4. \A i \in 1 .. Len(f \o Append(l, x)) : (f \o Append(l, x))[i] = Append(f \o l, x)[i]
    BY <2>1
  <2> QED BY <2>2, <2>3, <2>4, SeqEqual
<1> QED BY <1>6, <1>7, <1>9

\* A new sequence with one member is more at the end of the concatenation.
LEMMA FlattenNew ==
    ASSUME NEW S, NEW seqs \in Seq(Seq(S)), NEW x \in S,
           NEW more \in Seq(Seq(S)), Len(more) = Len(seqs) + 1,
           \A i \in 1 .. Len(seqs) : more[i] = seqs[i],
           more[Len(seqs) + 1] = <<x>>
    PROVE  FlattenSeq(more) = Append(FlattenSeq(seqs), x)
<1> DEFINE k == Len(seqs)
<1>1. k \in Nat /\ <<x>> \in Seq(S)
  OBVIOUS
<1>2. PICK longer : longer = Append(seqs, <<x>>)
  OBVIOUS
<1>3. /\ longer \in Seq(Seq(S)) /\ Len(longer) = k + 1 /\ longer[k + 1] = <<x>>
      /\ \A i \in 1 .. k : longer[i] = seqs[i]
  BY <1>1, <1>2, AppendProperties
<1>4. \A i \in 1 .. k + 1 : more[i] = longer[i]
  <2>1. \A i \in 1 .. k + 1 : i \in 1 .. k \/ i = k + 1
    BY <1>1
  <2> QED BY <1>3, <2>1
<1>5. more = longer
  BY <1>3, <1>4, SeqEqual
<1>6. FlattenSeq(more) = FlattenSeq(seqs) \o <<x>>
  BY <1>1, <1>2, <1>5, FlattenAppend
<1>7. \A all \in Seq(S) : all \o <<x>> = Append(all, x)
  OBVIOUS
<1>8. FlattenSeq(seqs) \in Seq(S)
  BY FlattenType
<1> QED BY <1>6, <1>7, <1>8

------------------------------------------------------------------------------
(* Sums over a whole function *)

\* Equal functions on finite domains, but for one value.
LEMMA SumChange ==
    ASSUME NEW f, IsFiniteSet(DOMAIN f), \A y \in DOMAIN f : f[y] \in Int,
           NEW h, DOMAIN h = DOMAIN f, NEW x \in DOMAIN f, h[x] \in Int,
           \A y \in DOMAIN f : y # x => h[y] = f[y]
    PROVE  /\ SumFunction(f) \in Int
           /\ SumFunction(h) = SumFunction(f) + (h[x] - f[x])
<1> DEFINE D == DOMAIN f
           R == D \ {x}
<1>1. IsFiniteSet(R)
  BY FS_Subset
<1>2. (\A y \in D : h[y] \in Int) /\ (\A y \in R : h[y] = f[y] /\ f[y] \in Int)
  OBVIOUS
<1>3. SumFunctionOnSet(f, D) = f[x] + SumFunctionOnSet(f, R)
  BY SumRemove
<1>4. SumFunctionOnSet(h, D) = h[x] + SumFunctionOnSet(h, R)
  BY <1>2, SumRemove
<1>5. SumFunctionOnSet(h, R) = SumFunctionOnSet(f, R)
  BY <1>1, <1>2, SumSame
<1>6. SumFunctionOnSet(f, R) \in Int /\ SumFunctionOnSet(f, D) \in Int
  BY <1>1, <1>2, SumInt
<1>7. SumFunction(f) = SumFunctionOnSet(f, D) /\ SumFunction(h) = SumFunctionOnSet(h, D)
  BY DEF SumFunction
<1> QED BY <1>3, <1>4, <1>5, <1>6, <1>7

\* A function with one value more.
LEMMA SumMore ==
    ASSUME NEW f, IsFiniteSet(DOMAIN f), \A y \in DOMAIN f : f[y] \in Int,
           NEW x, x \notin DOMAIN f, NEW h, DOMAIN h = DOMAIN f \cup {x}, h[x] \in Int,
           \A y \in DOMAIN f : h[y] = f[y]
    PROVE  /\ SumFunction(f) \in Int
           /\ SumFunction(h) = SumFunction(f) + h[x]
<1> DEFINE D == DOMAIN f
<1>1. \A y \in D : h[y] \in Int /\ h[y] = f[y] /\ f[y] \in Int
  OBVIOUS
<1>2. SumFunctionOnSet(h, D \cup {x}) = h[x] + SumFunctionOnSet(h, D)
  BY <1>1, SumAdd
<1>3. SumFunctionOnSet(h, D) = SumFunctionOnSet(f, D)
  BY <1>1, SumSame
<1>4. SumFunctionOnSet(f, D) \in Int
  BY <1>1, SumInt
<1>5. SumFunction(f) = SumFunctionOnSet(f, D) /\ SumFunction(h) = SumFunctionOnSet(h, D \cup {x})
  BY DEF SumFunction
<1> QED BY <1>2, <1>3, <1>4, <1>5


------------------------------------------------------------------------------
(* Induction over finite sets and sequences *)

\* A set of sets that has {} and, with a set, the set with one more element has them all.
LEMMA SetInduction ==
    ASSUME NEW D, IsFiniteSet(D), NEW T, {} \in T,
           \A s \in SUBSET D, x \in D : s \in T /\ x \notin s => s \cup {x} \in T
    PROVE  D \in T
<1> DEFINE K == {k \in Nat : \A s \in SUBSET D : Cardinality(s) = k => s \in T}
<1>1. \A s \in SUBSET D : IsFiniteSet(s) /\ (Cardinality(s) = 0 => s = {})
  BY FS_Subset, FS_EmptySet
<1>2. 0 \in K
  BY <1>1
<1>3. ASSUME NEW k \in Nat, k \in K PROVE k + 1 \in K
  <2> SUFFICES ASSUME NEW s \in SUBSET D, Cardinality(s) = k + 1 PROVE s \in T
    OBVIOUS
  <2>1. s # {}
    <3>1. Cardinality({}) = 0 /\ 0 # k + 1
      BY FS_EmptySet
    <3> QED BY <3>1
  <2>2. PICK x \in s : TRUE
    BY <2>1
  <2>3. Cardinality(s \ {x}) = k
    <3>1. IsFiniteSet(s)
      BY <1>1
    <3>2. Cardinality(s \ {x}) = Cardinality(s) - 1
      BY <2>2, <3>1, FS_RemoveElement
    <3> QED BY <3>2
  <2>4. s \ {x} \in T
    BY <1>3, <2>3
  <2>5. (s \ {x}) \cup {x} = s /\ x \in D
    BY <2>2
  <2> QED BY <2>4, <2>5
<1>4. Nat \subseteq K
  <2> HIDE DEF K
  <2> QED BY <1>2, <1>3, NatSetInduction
<1>5. Cardinality(D) \in Nat
  BY FS_CardinalityType
<1> QED BY <1>4, <1>5

\* A set that has <<>> and, with a sequence, the sequence with one more element at the end
\* has all sequences.
LEMMA SeqInduction ==
    ASSUME NEW S, NEW T, <<>> \in T, \A s \in Seq(S), e \in S : s \in T => Append(s, e) \in T
    PROVE  Seq(S) \subseteq T
<1> DEFINE K == {k \in Nat : \A s \in Seq(S) : Len(s) = k => s \in T}
<1>1. 0 \in K
  BY EmptySeq
<1>2. ASSUME NEW k \in Nat, k \in K PROVE k + 1 \in K
  <2> SUFFICES ASSUME NEW s \in Seq(S), Len(s) = k + 1 PROVE s \in T
    OBVIOUS
  <2>1. s # <<>>
    BY EmptySeq
  <2>2. PICK t \in Seq(S), e \in S : s = Append(t, e)
    BY <2>1, SequenceEmptyOrAppend
  <2>3. Len(t) = k
    BY <2>2, AppendProperties, LenProperties
  <2> QED BY <1>2, <2>2, <2>3
<1>3. Nat \subseteq K
  <2> HIDE DEF K
  <2> QED BY <1>1, <1>2, NatSetInduction
<1>4. \A s \in Seq(S) : Len(s) \in Nat
  BY LenProperties
<1> QED BY <1>3, <1>4

\* g has the values that are computed step by step from base.
IsRun(g, A, base, step, N) ==
    /\ g \in [0 .. N -> A]
    /\ \A i \in 0 .. N : g[i] = IF i = 0 THEN base ELSE step[i][g[i - 1]]

\* What is computed step by step from a first value exists.
LEMMA RecursionExists ==
    ASSUME NEW A, NEW base \in A, NEW N \in Nat, NEW step \in [1 .. N -> [A -> A]]
    PROVE  \E g : IsRun(g, A, base, step, N)
<1> DEFINE Partial(k) == {g \in [0 .. k -> A] :
               \A i \in 0 .. k : g[i] = IF i = 0 THEN base ELSE step[i][g[i - 1]]}
           T == {k \in Nat : k <= N => Partial(k) # {}}
<1>1. 0 \in T
  <2>1. [i \in 0 .. 0 |-> base] \in Partial(0)
    OBVIOUS
  <2> HIDE DEF Partial
  <2> QED BY <2>1
<1>2. ASSUME NEW k \in Nat, k \in T PROVE k + 1 \in T
  <2> SUFFICES ASSUME k + 1 <= N PROVE Partial(k + 1) # {}
    OBVIOUS
  <2>1. PICK g \in Partial(k) : TRUE
    BY <1>2
  <2> DEFINE h == [i \in 0 .. k + 1 |-> IF i \in 0 .. k THEN g[i] ELSE step[k + 1][g[k]]]
  <2>2. k + 1 \in 1 .. N /\ g[k] \in A
    BY <2>1
  <2>3. step[k + 1][g[k]] \in A
    BY <2>2
  <2>4. h \in [0 .. k + 1 -> A]
    BY <2>1, <2>3
  <2>5. (\A i \in 0 .. k : h[i] = g[i]) /\ h[k + 1] = step[k + 1][g[k]]
    OBVIOUS
  <2> HIDE DEF h
  <2>6. ASSUME NEW i \in 0 .. k + 1
        PROVE  h[i] = IF i = 0 THEN base ELSE step[i][h[i - 1]]
    <3>1. CASE i \in 0 .. k
      <4>1. i # 0 => i - 1 \in 0 .. k
        BY <3>1
      <4> QED BY <2>1, <2>5, <3>1, <4>1
    <3>2. CASE i = k + 1
      <4>1. k \in 0 .. k /\ i - 1 = k /\ i # 0
        BY <3>2
      <4> QED BY <2>5, <3>2, <4>1
    <3> QED BY <3>1, <3>2
  <2> QED BY <2>4, <2>6
<1>3. Nat \subseteq T
  <2> HIDE DEF T
  <2> QED BY <1>1, <1>2, NatSetInduction
<1>4. PICK g \in Partial(N) : TRUE
  <2> HIDE DEF Partial
  <2> QED BY <1>3
<1>5. g \in [0 .. N -> A]
      /\ \A i \in 0 .. N : g[i] = IF i = 0 THEN base ELSE step[i][g[i - 1]]
  BY <1>4
<1> QED BY <1>5 DEF IsRun

------------------------------------------------------------------------------
(* More about sums *)

\* A sum of natural numbers is one.
LEMMA SumNat ==
    ASSUME NEW S, IsFiniteSet(S), NEW f, \A x \in S : f[x] \in Nat
    PROVE  SumFunctionOnSet(f, S) \in Nat
<1> DEFINE T == {s \in SUBSET S : SumFunctionOnSet(f, s) \in Nat}
<1>1. {} \in T
  BY SumOfNone
<1>2. ASSUME NEW s \in SUBSET S, NEW x \in S, s \in T, x \notin s PROVE s \cup {x} \in T
  <2>1. IsFiniteSet(s) /\ (\A y \in s : f[y] \in Int) /\ f[x] \in Int
    BY FS_Subset
  <2>2. SumFunctionOnSet(f, s \cup {x}) = f[x] + SumFunctionOnSet(f, s)
    BY <1>2, <2>1, SumAdd
  <2> QED BY <1>2, <2>2
<1>3. S \in T
  <2> HIDE DEF T
  <2> QED BY <1>1, <1>2, SetInduction
<1> QED BY <1>3

\* A sum can be split.
LEMMA SumUnion ==
    ASSUME NEW A, IsFiniteSet(A), NEW B, IsFiniteSet(B), A \cap B = {},
           NEW f, \A x \in A \cup B : f[x] \in Int
    PROVE  SumFunctionOnSet(f, A \cup B) = SumFunctionOnSet(f, A) + SumFunctionOnSet(f, B)
<1> DEFINE T == {s \in SUBSET B :
              SumFunctionOnSet(f, A \cup s) = SumFunctionOnSet(f, A) + SumFunctionOnSet(f, s)}
<1>0. SumFunctionOnSet(f, A) \in Int
  BY SumInt
<1>1. {} \in T
  <2>1. A \cup {} = A
    OBVIOUS
  <2> QED BY <1>0, <2>1, SumOfNone
<1>2. ASSUME NEW s \in SUBSET B, NEW x \in B, s \in T, x \notin s PROVE s \cup {x} \in T
  <2>1. IsFiniteSet(s) /\ (\A y \in s : f[y] \in Int) /\ f[x] \in Int
    BY FS_Subset
  <2>2. IsFiniteSet(A \cup s) /\ x \notin A \cup s /\ \A y \in A \cup s : f[y] \in Int
    BY <1>2, <2>1, FS_Union
  <2>3. SumFunctionOnSet(f, s \cup {x}) = f[x] + SumFunctionOnSet(f, s)
    BY <1>2, <2>1, SumAdd
  <2>4. SumFunctionOnSet(f, (A \cup s) \cup {x}) = f[x] + SumFunctionOnSet(f, A \cup s)
    BY <2>1, <2>2, SumAdd
  <2>5. (A \cup s) \cup {x} = A \cup (s \cup {x})
    OBVIOUS
  <2>6. SumFunctionOnSet(f, s) \in Int
    BY <2>1, SumInt
  <2>7. SumFunctionOnSet(f, A \cup s) = SumFunctionOnSet(f, A) + SumFunctionOnSet(f, s)
    BY <1>2
  <2>8. SumFunctionOnSet(f, A \cup (s \cup {x}))
           = SumFunctionOnSet(f, A) + SumFunctionOnSet(f, s \cup {x})
    <3>1. ASSUME NEW a \in Int, NEW b \in Int, NEW c \in Int
          PROVE  c + (a + b) = a + (c + b)
      OBVIOUS
    <3>2. SumFunctionOnSet(f, A \cup (s \cup {x}))
             = f[x] + (SumFunctionOnSet(f, A) + SumFunctionOnSet(f, s))
      BY <2>4, <2>5, <2>7, Zenon
    <3>3. @ = SumFunctionOnSet(f, A) + (f[x] + SumFunctionOnSet(f, s))
      BY <1>0, <2>1, <2>6, <3>1
    <3> QED BY <2>3, <3>2, <3>3, Zenon
  <2> QED BY <2>8
<1>3. B \in T
  <2> HIDE DEF T
  <2> QED BY <1>1, <1>2, SetInduction
<1> QED BY <1>3

\* If every part of one sum is at most a share of the part of another, so is the sum.
LEMMA SumScale ==
    ASSUME NEW S, IsFiniteSet(S), NEW m \in Nat, NEW n \in Nat, NEW f, NEW h,
           \A x \in S : f[x] \in Nat /\ h[x] \in Nat /\ m * h[x] <= n * f[x]
    PROVE  m * SumFunctionOnSet(h, S) <= n * SumFunctionOnSet(f, S)
<1> DEFINE T == {s \in SUBSET S : m * SumFunctionOnSet(h, s) <= n * SumFunctionOnSet(f, s)}
<1>1. {} \in T
  BY SumOfNone
<1>2. ASSUME NEW s \in SUBSET S, NEW x \in S, s \in T, x \notin s PROVE s \cup {x} \in T
  <2>1. IsFiniteSet(s) /\ \A y \in s : f[y] \in Nat /\ h[y] \in Nat
    BY FS_Subset
  <2>2. SumFunctionOnSet(f, s \cup {x}) = f[x] + SumFunctionOnSet(f, s)
    BY <1>2, <2>1, SumAdd
  <2>3. SumFunctionOnSet(h, s \cup {x}) = h[x] + SumFunctionOnSet(h, s)
    BY <1>2, <2>1, SumAdd
  <2>4. SumFunctionOnSet(f, s) \in Nat /\ SumFunctionOnSet(h, s) \in Nat
    BY <2>1, SumNat
  <2>5. m * SumFunctionOnSet(h, s) <= n * SumFunctionOnSet(f, s)
    BY <1>2
  <2>6. ASSUME NEW a \in Nat, NEW b \in Nat, NEW c \in Nat, NEW d \in Nat,
               m * a <= n * b, m * c <= n * d
        PROVE  m * (a + c) <= n * (b + d)
    BY <2>6
  <2>7. f[x] \in Nat /\ h[x] \in Nat /\ m * h[x] <= n * f[x]
    OBVIOUS
  <2>8. m * (h[x] + SumFunctionOnSet(h, s)) <= n * (f[x] + SumFunctionOnSet(f, s))
    BY <2>4, <2>5, <2>6, <2>7
  <2> QED BY <2>2, <2>3, <2>8
<1>3. S \in T
  <2> HIDE DEF T
  <2> QED BY <1>1, <1>2, SetInduction
<1> QED BY <1>3

------------------------------------------------------------------------------
(* More about flattened sequences *)

\* Flattening from the front.
LEMMA FlattenFirst ==
    ASSUME NEW S, NEW seqs \in Seq(Seq(S)), seqs # <<>>
    PROVE  FlattenSeq(seqs) = Head(seqs) \o FlattenSeq(Tail(seqs))
<1> DEFINE T == {t \in Seq(Seq(S)) :
                    t # <<>> => FlattenSeq(t) = Head(t) \o FlattenSeq(Tail(t))}
<1>0. FlattenSeq(<<>>) = <<>>
  BY FlattenNone
<1>1. <<>> \in T
  BY EmptySeq
<1>2. ASSUME NEW t \in Seq(Seq(S)), NEW e \in Seq(S), t \in T PROVE Append(t, e) \in T
  <2>1. Append(t, e) \in Seq(Seq(S))
    BY AppendProperties
  <2>2. FlattenSeq(Append(t, e)) = FlattenSeq(t) \o e
    BY FlattenAppend
  <2>3. CASE t = <<>>
    <3>1. Head(Append(t, e)) = e /\ Tail(Append(t, e)) = <<>>
      BY <2>3, HeadTailAppend
    <3>2. FlattenSeq(Append(t, e)) = e /\ e \o <<>> = e
      BY <1>0, <2>2, <2>3, ConcatEmptySeq
    <3> QED BY <1>0, <2>1, <3>1, <3>2
  <2>4. CASE t # <<>>
    <3>1. Head(Append(t, e)) = Head(t) /\ Tail(Append(t, e)) = Append(Tail(t), e)
      BY <2>4, HeadTailAppend
    <3>2. Head(t) \in Seq(S) /\ Tail(t) \in Seq(Seq(S))
      BY <2>4, HeadTailProperties
    <3>3. FlattenSeq(Append(Tail(t), e)) = FlattenSeq(Tail(t)) \o e
      BY <3>2, FlattenAppend
    <3>4. FlattenSeq(Tail(t)) \in Seq(S)
      BY <3>2, FlattenType
    <3>5. FlattenSeq(t) = Head(t) \o FlattenSeq(Tail(t))
      BY <1>2, <2>4
    <3>6. (Head(t) \o FlattenSeq(Tail(t))) \o e = Head(t) \o (FlattenSeq(Tail(t)) \o e)
      <4>1. ASSUME NEW first \in Seq(S), NEW rest \in Seq(S)
            PROVE  (first \o rest) \o e = first \o (rest \o e)
        BY ConcatAssociative
      <4> QED BY <3>2, <3>4, <4>1
    <3> QED BY <2>1, <2>2, <3>1, <3>3, <3>5, <3>6
  <2> QED BY <2>3, <2>4
<1>3. Seq(Seq(S)) \subseteq T
  <2> HIDE DEF T
  <2> QED BY <1>1, <1>2, SeqInduction
<1> QED BY <1>3


------------------------------------------------------------------------------
(* Concatenations of some of the sequences *)

\* The first k sequences.
FrontOf(seqs, k) == [i \in 1 .. k |-> seqs[i]]

LEMMA FrontGrows ==
    ASSUME NEW S, NEW seqs \in Seq(Seq(S)), NEW k \in Nat, k < Len(seqs)
    PROVE  /\ FrontOf(seqs, k) \in Seq(Seq(S))
           /\ Len(FrontOf(seqs, k)) = k
           /\ FrontOf(seqs, k + 1) = Append(FrontOf(seqs, k), seqs[k + 1])
           /\ FlattenSeq(FrontOf(seqs, k + 1)) = FlattenSeq(FrontOf(seqs, k)) \o seqs[k + 1]
<1> DEFINE front == FrontOf(seqs, k)
           longer == FrontOf(seqs, k + 1)
           s == seqs[k + 1]
<1>1. s \in Seq(S) /\ \A i \in 1 .. k : seqs[i] \in Seq(S)
  <2>1. \A i \in 1 .. Len(seqs) : seqs[i] \in Seq(S)
    BY ElementOfSeq
  <2> QED BY <2>1
<1>2. front \in Seq(Seq(S)) /\ Len(front) = k /\ \A i \in 1 .. k : front[i] = seqs[i]
  BY <1>1 DEF FrontOf
<1>3. longer \in Seq(Seq(S)) /\ Len(longer) = k + 1 /\ \A i \in 1 .. k + 1 : longer[i] = seqs[i]
  <2>1. \A i \in 1 .. k + 1 : seqs[i] \in Seq(S)
    BY <1>1
  <2> QED BY <2>1 DEF FrontOf
<1> HIDE DEF front, longer, s
<1>4. /\ Append(front, s) \in Seq(Seq(S)) /\ Len(Append(front, s)) = k + 1
      /\ Append(front, s)[k + 1] = s
      /\ \A i \in 1 .. k : Append(front, s)[i] = front[i]
  BY <1>1, <1>2, AppendProperties
<1>5. \A i \in 1 .. k + 1 : longer[i] = Append(front, s)[i]
  <2>1. \A i \in 1 .. k + 1 : i \in 1 .. k \/ i = k + 1
    OBVIOUS
  <2>2. longer[k + 1] = s
    BY <1>3 DEF s
  <2> QED BY <1>2, <1>3, <1>4, <2>1, <2>2
<1>6. longer = Append(front, s)
  BY <1>3, <1>4, <1>5, SeqEqual
<1>7. FlattenSeq(longer) = FlattenSeq(front) \o s
  BY <1>1, <1>2, <1>6, FlattenAppend
<1> QED BY <1>2, <1>6, <1>7 DEF front, longer, s

LEMMA WholeFront ==
    ASSUME NEW S, NEW seqs \in Seq(S)
    PROVE  FrontOf(seqs, Len(seqs)) = seqs
BY DEF FrontOf

\* What the first k sequences contribute is a prefix of the whole.
LEMMA FlattenFront ==
    ASSUME NEW S, NEW seqs \in Seq(Seq(S)), NEW k \in 0 .. Len(seqs)
    PROVE  \E rest \in Seq(S) : FlattenSeq(seqs) = FlattenSeq(FrontOf(seqs, k)) \o rest
<1>0. ASSUME NEW first \in Seq(S), NEW then \in Seq(S), NEW last \in Seq(S)
      PROVE  (first \o then) \o last = first \o (then \o last)
  BY ConcatAssociative
<1> DEFINE n == Len(seqs)
           whole == FlattenSeq(FrontOf(seqs, k))
           T == {m \in Nat : k <= m /\ m <= n =>
                    \E rest \in Seq(S) : FlattenSeq(FrontOf(seqs, m)) = whole \o rest}
<1>1. n \in Nat /\ k \in Nat /\ k <= n
  OBVIOUS
<1>2. whole \in Seq(S)
  <2>1. \A i \in 1 .. Len(seqs) : seqs[i] \in Seq(S)
    BY ElementOfSeq
  <2>2. \A i \in 1 .. k : seqs[i] \in Seq(S)
    BY <2>1
  <2>3. FrontOf(seqs, k) \in Seq(Seq(S))
    BY <1>1, <2>2 DEF FrontOf
  <2> QED BY <2>3, FlattenType
<1>3. whole \o <<>> = whole /\ <<>> \in Seq(S)
  <2> HIDE DEF whole
  <2> QED BY <1>2, ConcatEmptySeq, EmptySeq
<1>4. k \in T
  BY <1>1, <1>3
<1>5. ASSUME NEW m \in Nat, m \in T PROVE m + 1 \in T
  <2> SUFFICES ASSUME k <= m + 1, m + 1 <= n
               PROVE  \E rest \in Seq(S) : FlattenSeq(FrontOf(seqs, m + 1)) = whole \o rest
    <3>1. m + 1 \in Nat
      OBVIOUS
    <3> HIDE DEF whole
    <3> QED BY <3>1
  <2>1. CASE k = m + 1
    BY <1>3, <2>1
  <2>2. CASE k # m + 1
    <3>1. k <= m /\ m <= n /\ m < Len(seqs)
      BY <1>1, <2>2
    <3>2. PICK rest \in Seq(S) : FlattenSeq(FrontOf(seqs, m)) = whole \o rest
      BY <1>5, <3>1
    <3>3. FlattenSeq(FrontOf(seqs, m + 1)) = FlattenSeq(FrontOf(seqs, m)) \o seqs[m + 1]
      BY <3>1, FrontGrows
    <3> HIDE DEF whole
    <3> DEFINE s == seqs[m + 1]
    <3>4. s \in Seq(S)
      <4>1. \A i \in 1 .. Len(seqs) : seqs[i] \in Seq(S)
        BY ElementOfSeq
      <4> QED BY <3>1, <4>1
    <3> HIDE DEF s
    <3>5. rest \o s \in Seq(S) /\ (whole \o rest) \o s = whole \o (rest \o s)
      <4>1. rest \o s \in Seq(S)
        BY <3>2, <3>4, ConcatProperties
      <4> QED BY <1>0, <1>2, <3>2, <3>4, <4>1, Zenon
    <3> QED BY <3>2, <3>3, <3>5 DEF s
  <2> QED BY <2>1, <2>2
<1>6. 0 \in T
  <2>1. CASE k = 0
    BY <1>4, <2>1
  <2>2. CASE ~(k <= 0)
    <3>1. 0 \in Nat
      OBVIOUS
    <3> HIDE DEF whole
    <3> QED BY <2>2, <3>1
  <2> HIDE DEF T
  <2> QED BY <1>1, <2>1, <2>2
<1> HIDE DEF T
<1>7. n \in T
  BY <1>1, <1>5, <1>6, NatSetInduction
<1>8. \E rest \in Seq(S) : FlattenSeq(FrontOf(seqs, n)) = whole \o rest
  BY <1>1, <1>7 DEF T
<1> QED BY <1>8, WholeFront

\* The length of a concatenation depends on the lengths only.
LEMMA FlattenLengths ==
    ASSUME NEW S, NEW R, NEW seqs \in Seq(Seq(S)), NEW other \in Seq(Seq(R)),
           Len(other) = Len(seqs), \A i \in 1 .. Len(seqs) : Len(other[i]) = Len(seqs[i])
    PROVE  Len(FlattenSeq(other)) = Len(FlattenSeq(seqs))
<1> DEFINE n == Len(seqs)
           T == {m \in Nat : m <= n =>
                    Len(FlattenSeq(FrontOf(other, m))) = Len(FlattenSeq(FrontOf(seqs, m)))}
<1>1. n \in Nat
  OBVIOUS
<1>2. 0 \in T
  <2>1. FrontOf(other, 0) = <<>> /\ FrontOf(seqs, 0) = <<>>
    BY DEF FrontOf
  <2> QED BY <2>1
<1>3. ASSUME NEW m \in Nat, m \in T PROVE m + 1 \in T
  <2> SUFFICES ASSUME m + 1 <= n
               PROVE  Len(FlattenSeq(FrontOf(other, m + 1))) = Len(FlattenSeq(FrontOf(seqs, m + 1)))
    BY <1>1
  <2>1. m < Len(seqs) /\ m < Len(other) /\ m <= n
    BY <1>1
  <2> DEFINE a == FlattenSeq(FrontOf(seqs, m))
             b == FlattenSeq(FrontOf(other, m))
             s == seqs[m + 1]
             t == other[m + 1]
  <2>2. a \in Seq(S) /\ b \in Seq(R)
    BY <2>1, FrontGrows, FlattenType
  <2>3. s \in Seq(S) /\ t \in Seq(R) /\ Len(t) = Len(s)
    <3>1. \A i \in 1 .. Len(seqs) : seqs[i] \in Seq(S) /\ other[i] \in Seq(R)
      BY ElementOfSeq
    <3> QED BY <2>1, <3>1
  <2>4. Len(b) = Len(a)
    BY <1>3, <2>1
  <2>5. FlattenSeq(FrontOf(seqs, m + 1)) = a \o s /\ FlattenSeq(FrontOf(other, m + 1)) = b \o t
    BY <2>1, FrontGrows
  <2> HIDE DEF a, b, s, t
  <2>6. Len(a \o s) = Len(a) + Len(s)
    BY <2>2, <2>3, ConcatProperties
  <2>7. Len(b \o t) = Len(b) + Len(t)
    <3>1. ASSUME NEW x \in Seq(R), NEW y \in Seq(R) PROVE Len(x \o y) = Len(x) + Len(y)
      BY ConcatProperties
    <3> QED BY <2>2, <2>3, <3>1, Zenon
  <2> QED BY <2>3, <2>4, <2>5, <2>6, <2>7
<1> HIDE DEF T
<1>4. n \in T
  BY <1>1, <1>2, <1>3, NatSetInduction
<1> QED BY <1>1, <1>4, WholeFront DEF T

------------------------------------------------------------------------------
(* Quorums *)

\* As many signers as the quorum, of whom fewer are faulty, include an honest one.
LEMMA QuorumMember ==
    ASSUME NEW V, NEW honest, NEW faulty, IsFiniteSet(faulty), V \subseteq honest \cup faulty,
           NEW q \in Int, Cardinality(V) >= q, Cardinality(faulty) < q
    PROVE  \E r \in honest : r \in V
<1> SUFFICES ASSUME \A r \in honest : r \notin V PROVE FALSE
  OBVIOUS
<1>1. V \subseteq faulty
  OBVIOUS
<1>2. Cardinality(V) <= Cardinality(faulty) /\ IsFiniteSet(V)
  BY <1>1, FS_Subset
<1>3. Cardinality(V) \in Nat /\ Cardinality(faulty) \in Nat
  BY <1>2, FS_CardinalityType
<1> QED BY <1>2, <1>3
==============================================================================
