--------------------------- MODULE SequenceLemmas ---------------------------
(***************************************************************************)
(* Facts about sequences and recursive functions that the proofs of        *)
(* several components share: induction, what a recursion stays within,     *)
(* what a sequence holds, and how often.                                   *)
(***************************************************************************)
EXTENDS SequencesExt, FiniteSetTheorems, NaturalsInduction, WellFoundedInduction,
        TLAPS

\* Induction over a set of numbers.
LEMMA SetInduction ==
  ASSUME NEW P, 0 \in P, \A n \in Nat : n \in P => n + 1 \in P
  PROVE  Nat \subseteq P
<1>. DEFINE T == Nat \ P
            R == OpToRel(<, Nat)
<1>. SUFFICES ASSUME T # {} PROVE FALSE
  OBVIOUS
<1>1. IsWellFoundedOn(R, Nat)
  BY NatLessThanWellFounded
<1>2. PICK x \in T : \A y \in T : ~ (<<y, x>> \in R)
  <2>. HIDE DEF R
  <2>. QED
    BY <1>1, WFMin
<1>3. x # 0 /\ x \in Nat
  OBVIOUS
<1>4. x - 1 \in Nat /\ x - 1 < x /\ x = (x - 1) + 1
  BY <1>3
<1>5. x - 1 \in T
  BY <1>4
<1>6. <<x - 1, x>> \in R
  BY <1>3, <1>4 DEF OpToRel
<1>. QED
  BY <1>2, <1>5, <1>6

\* A set of numbers has a least one.
LEMMA LeastNumber ==
  ASSUME NEW T \in SUBSET Nat, T # {}
  PROVE  \E x \in T : \A y \in T : x <= y
<1>. DEFINE R == OpToRel(<, Nat)
<1>1. IsWellFoundedOn(R, Nat)
  BY NatLessThanWellFounded
<1>2. PICK x \in T : \A y \in T : ~ (<<y, x>> \in R)
  <2>. HIDE DEF R
  <2>. QED
    BY <1>1, WFMin
<1>3. \A y \in T : y < x => <<y, x>> \in R
  BY DEF OpToRel
<1>4. \A y \in T : y \in Nat /\ x \in Nat /\ ~(y < x)
  BY <1>2, <1>3
<1>5. \A y \in T : x <= y
  BY <1>4
<1>. QED
  BY <1>5

\* The parts one after the other, ...
Joins(f, seqs, n) ==
  f = [i \in 1 .. n |-> IF i = 1 THEN seqs[i] ELSE f[i - 1] \o seqs[i]]

\* ... as they are found for each number of parts.
LEMMA JoinsExist ==
  ASSUME NEW seqs, NEW n \in Nat
  PROVE  \E f : Joins(f, seqs, n)
<1>. DEFINE P == {m \in Nat : \E f : Joins(f, seqs, m)}
<1>1. 0 \in P
  <2>. DEFINE f == [i \in 1 .. 0 |-> i]
  <2>1. Joins(f, seqs, 0)
    BY DEF Joins
  <2>. QED
    BY <2>1
<1>2. ASSUME NEW m \in Nat, m \in P
      PROVE  m + 1 \in P
  <2>1. PICK f : Joins(f, seqs, m)
    BY <1>2
  <2>. DEFINE g == [i \in 1 .. (m + 1) |->
                      IF i = 1 THEN seqs[i] ELSE f[i - 1] \o seqs[i]]
  <2>2. \A i \in 1 .. m : f[i] = IF i = 1 THEN seqs[i] ELSE f[i - 1] \o seqs[i]
    <3>. DEFINE h == [i \in 1 .. m |-> IF i = 1 THEN seqs[i] ELSE f[i - 1] \o seqs[i]]
    <3>1. f = h
      BY <2>1 DEF Joins
    <3>2. \A i \in 1 .. m : h[i] = IF i = 1 THEN seqs[i] ELSE f[i - 1] \o seqs[i]
      OBVIOUS
    <3>. HIDE DEF h
    <3>. QED
      BY <3>1, <3>2
  <2>3. \A i \in 1 .. m : g[i] = f[i]
    BY <2>2
  <2>4. ASSUME NEW i \in 1 .. (m + 1)
        PROVE  g[i] = IF i = 1 THEN seqs[i] ELSE g[i - 1] \o seqs[i]
    <3>1. CASE i = 1
      BY <3>1
    <3>2. CASE i # 1
      <4>1. i - 1 \in 1 .. m
        BY <3>2
      <4>. QED
        BY <2>3, <3>2, <4>1
    <3>. QED
      BY <3>1, <3>2
  <2>5. g = [i \in 1 .. (m + 1) |-> g[i]]
    OBVIOUS
  <2>. HIDE DEF g
  <2>6. Joins(g, seqs, m + 1)
    BY <2>4, <2>5 DEF Joins
  <2>. QED
    BY <2>6
<1>. HIDE DEF P
<1>3. Nat \subseteq P
  BY <1>1, <1>2, SetInduction
<1>. QED
  BY <1>3 DEF P

\* The elements of a sequence, and of two.
LEMMA ElementsOf ==
  ASSUME NEW S, NEW s \in Seq(S)
  PROVE  /\ \A x : x \in ToSet(s) <=> \E k \in 1 .. Len(s) : x = s[k]
         /\ \A t \in Seq(S) : ToSet(s \o t) = ToSet(s) \cup ToSet(t)
<1>1. \A r \in Seq(S) : \A x : x \in ToSet(r) <=> \E k \in 1 .. Len(r) : x = r[k]
  <2>1. \A r \in Seq(S) : DOMAIN r = 1 .. Len(r)
    OBVIOUS
  <2>. QED
    BY <2>1 DEF ToSet
<1>2. ASSUME NEW t \in Seq(S)
      PROVE  ToSet(s \o t) = ToSet(s) \cup ToSet(t)
  <2>1. /\ s \o t \in Seq(S) /\ Len(s \o t) = Len(s) + Len(t)
        /\ \A k \in 1 .. Len(s) : (s \o t)[k] = s[k]
        /\ \A k \in 1 .. Len(t) : (s \o t)[Len(s) + k] = t[k]
    OBVIOUS
  <2>2. ASSUME NEW k \in 1 .. (Len(s) + Len(t)) PROVE (s \o t)[k] \in ToSet(s) \cup ToSet(t)
    <3>1. CASE k <= Len(s)
      BY <1>1, <2>1, <3>1
    <3>2. CASE k > Len(s)
      <4>1. k - Len(s) \in 1 .. Len(t) /\ k = Len(s) + (k - Len(s))
        BY <3>2
      <4>. QED
        BY <1>1, <2>1, <4>1
    <3>. QED
      BY <3>1, <3>2
  <2>3. \A k \in 1 .. Len(s) : k \in 1 .. (Len(s) + Len(t))
    OBVIOUS
  <2>4. \A k \in 1 .. Len(t) : Len(s) + k \in 1 .. (Len(s) + Len(t))
    OBVIOUS
  <2>5. ASSUME NEW x \in ToSet(s) PROVE x \in ToSet(s \o t)
    <3>1. PICK k \in 1 .. Len(s) : x = s[k]
      BY <1>1
    <3>. QED
      BY <1>1, <2>1, <2>3, <3>1
  <2>6. ASSUME NEW x \in ToSet(t) PROVE x \in ToSet(s \o t)
    <3>1. PICK k \in 1 .. Len(t) : x = t[k]
      BY <1>1
    <3>. QED
      BY <1>1, <2>1, <2>4, <3>1
  <2>7. ASSUME NEW x \in ToSet(s \o t) PROVE x \in ToSet(s) \cup ToSet(t)
    <3>1. \A r \in Seq(S) : x \in ToSet(r) => \E k \in 1 .. Len(r) : x = r[k]
      BY <1>1
    <3>2. PICK k \in 1 .. Len(s \o t) : x = (s \o t)[k]
      BY <2>1, <2>7, <3>1
    <3>. QED
      BY <2>1, <2>2, <3>2
  <2>. QED
    BY <2>5, <2>6, <2>7
<1>. QED
  BY <1>1, <1>2

LEMMA HeadOfBoth ==
  ASSUME NEW S, NEW s \in Seq(S), NEW t \in Seq(S)
  PROVE  /\ Len(s) = 1 => (s \o t)[1] = s[1]
         /\ Len(s) = 0 /\ Len(t) = 1 => (s \o t)[1] = t[1]
<1>1. /\ Len(s) \in Nat /\ Len(t) \in Nat
      /\ \A k \in 1 .. Len(s) : (s \o t)[k] = s[k]
      /\ \A k \in 1 .. Len(t) : (s \o t)[Len(s) + k] = t[k]
  OBVIOUS
<1>2. ASSUME Len(s) = 1 PROVE (s \o t)[1] = s[1]
  <2>1. 1 \in 1 .. Len(s)
    BY <1>2
  <2>. QED
    BY <1>1, <2>1
<1>3. ASSUME Len(s) = 0, Len(t) = 1 PROVE (s \o t)[1] = t[1]
  <2>1. 1 \in 1 .. Len(t) /\ Len(s) + 1 = 1
    BY <1>3
  <2>2. (s \o t)[Len(s) + 1] = t[1]
    BY <1>1, <2>1
  <2>. QED
    BY <2>1, <2>2
<1>. QED
  BY <1>2, <1>3

\* What FlattenSeq makes of parts: all their elements, and no others.
LEMMA Flattened ==
  ASSUME NEW S, NEW seqs \in Seq(Seq(S))
  PROVE  /\ FlattenSeq(seqs) \in Seq(S)
         /\ ToSet(FlattenSeq(seqs)) = UNION {ToSet(seqs[k]) : k \in DOMAIN seqs}
<1>. DEFINE n == Len(seqs)
            Step(f) == [i \in 1 .. n |-> IF i = 1 THEN seqs[i] ELSE f[i - 1] \o seqs[i]]
            flat == CHOOSE f : f = Step(f)
<1>1. n \in Nat /\ DOMAIN seqs = 1 .. n /\ \A i \in 1 .. n : seqs[i] \in Seq(S)
  OBVIOUS
<1>2. FlattenSeq(seqs) = IF n = 0 THEN seqs ELSE flat[n]
  BY DEF FlattenSeq
<1>3. flat = Step(flat)
  <2>1. PICK f : Joins(f, seqs, n)
    BY <1>1, JoinsExist
  <2>2. f = Step(f)
    BY <2>1 DEF Joins
  <2>. QED
    BY <2>2
<1>. HIDE DEF n, flat
<1>4. \A i \in 1 .. n : flat[i] = IF i = 1 THEN seqs[i] ELSE flat[i - 1] \o seqs[i]
  BY <1>3
<1>. DEFINE Of(i) == UNION {ToSet(seqs[k]) : k \in 1 .. i}
            P == {i \in Nat : i \in 1 .. n => flat[i] \in Seq(S) /\ ToSet(flat[i]) = Of(i)}
<1>5. 0 \in P
  OBVIOUS
<1>6. ASSUME NEW i \in Nat, i \in P PROVE i + 1 \in P
  <2>. SUFFICES ASSUME i + 1 \in 1 .. n
       PROVE  flat[i + 1] \in Seq(S) /\ ToSet(flat[i + 1]) = Of(i + 1)
    OBVIOUS
  <2>1. seqs[i + 1] \in Seq(S)
    BY <1>1
  <2>2. CASE i = 0
    <3>1. flat[1] = seqs[1]
      BY <1>4, <2>2
    <3>2. Of(1) = ToSet(seqs[1])
      OBVIOUS
    <3>. HIDE DEF Of
    <3>. QED
      BY <2>1, <2>2, <3>1, <3>2
  <2>3. CASE i # 0
    <3>1. i \in 1 .. n /\ (i + 1) - 1 = i /\ i + 1 # 1
      BY <1>1, <2>3
    <3>2. flat[i + 1] = flat[i] \o seqs[i + 1]
      BY <1>4, <3>1
    <3>3. flat[i] \in Seq(S) /\ ToSet(flat[i]) = Of(i)
      BY <1>6, <3>1
    <3>4. 1 .. (i + 1) = (1 .. i) \cup {i + 1}
      OBVIOUS
    <3>5. Of(i + 1) = Of(i) \cup ToSet(seqs[i + 1])
      BY <3>4
    <3>. HIDE DEF Of
    <3>6. ToSet(flat[i] \o seqs[i + 1]) = ToSet(flat[i]) \cup ToSet(seqs[i + 1])
      BY <2>1, <3>3, ElementsOf
    <3>7. flat[i] \o seqs[i + 1] \in Seq(S)
      BY <2>1, <3>3
    <3>. QED
      BY <3>2, <3>3, <3>5, <3>6, <3>7
  <2>. QED
    BY <2>2, <2>3
<1>. HIDE DEF P
<1>7. Nat \subseteq P
  BY <1>5, <1>6, SetInduction
<1>8. CASE n = 0
  <2>1. FlattenSeq(seqs) = <<>> /\ DOMAIN seqs = {}
    BY <1>1, <1>2, <1>8 DEF n
  <2>2. ToSet(<<>>) = {}
    BY DEF ToSet
  <2>. QED
    BY <2>1, <2>2
<1>9. CASE n # 0
  <2>1. n \in P /\ n \in 1 .. n
    BY <1>1, <1>7, <1>9
  <2>2. flat[n] \in Seq(S) /\ ToSet(flat[n]) = Of(n)
    BY <2>1 DEF P
  <2>. QED
    BY <1>1, <1>2, <1>9, <2>2
<1>. QED
  BY <1>8, <1>9

-----------------------------------------------------------------------------
(* Recursive functions.                                                    *)

\* f repeats a step up to the n-th time.
Repeats(f, n, x, step) ==
  f = [k \in 0 .. n |-> IF k = 0 THEN x ELSE step[k][f[k - 1]]]

\* What holds at first, and after a step if it held before, holds throughout.
LEMMA StaysWithin ==
  ASSUME NEW n \in Nat, NEW S, NEW f, f[0] \in S[0],
         \A k \in 1 .. n : f[k - 1] \in S[k - 1] => f[k] \in S[k]
  PROVE  \A k \in 0 .. n : f[k] \in S[k]
<1>. DEFINE P == {k \in Nat : k <= n => f[k] \in S[k]}
<1>1. 0 \in P
  OBVIOUS
<1>2. ASSUME NEW k \in Nat, k \in P
      PROVE  k + 1 \in P
  <2>. SUFFICES ASSUME k + 1 <= n PROVE f[k + 1] \in S[k + 1]
    OBVIOUS
  <2>1. k + 1 \in 1 .. n /\ (k + 1) - 1 = k /\ k <= n
    OBVIOUS
  <2>. QED
    BY <1>2, <2>1
<1>3. Nat \subseteq P
  <2>. HIDE DEF P
  <2>. QED
    BY <1>1, <1>2, SetInduction
<1>. QED
  BY <1>3

LEMMA RepeatsExists ==
  ASSUME NEW n \in Nat, NEW x, NEW step
  PROVE  \E f : Repeats(f, n, x, step)
<1>. DEFINE P == {m \in Nat : \E f : Repeats(f, m, x, step)}
<1>1. 0 \in P
  <2>. DEFINE f == [k \in 0 .. 0 |-> x]
  <2>1. \A k \in 0 .. 0 : k = 0
    OBVIOUS
  <2>2. Repeats(f, 0, x, step)
    BY <2>1 DEF Repeats
  <2>. QED
    BY <2>2
<1>2. ASSUME NEW m \in Nat, m \in P
      PROVE  m + 1 \in P
  <2>1. PICK f : Repeats(f, m, x, step)
    BY <1>2
  <2>. DEFINE g == [k \in 0 .. (m + 1) |-> IF k = 0 THEN x ELSE step[k][f[k - 1]]]
  <2>2. \A k \in 0 .. m : f[k] = IF k = 0 THEN x ELSE step[k][f[k - 1]]
    <3>. DEFINE h == [k \in 0 .. m |-> IF k = 0 THEN x ELSE step[k][f[k - 1]]]
    <3>1. f = h
      BY <2>1 DEF Repeats
    <3>2. \A k \in 0 .. m : h[k] = IF k = 0 THEN x ELSE step[k][f[k - 1]]
      OBVIOUS
    <3>. HIDE DEF h
    <3>. QED
      BY <3>1, <3>2
  <2>3. \A k \in 0 .. m : g[k] = f[k]
    BY <2>2
  <2>4. ASSUME NEW k \in 0 .. (m + 1)
        PROVE  g[k] = IF k = 0 THEN x ELSE step[k][g[k - 1]]
    <3>1. CASE k = 0
      BY <3>1
    <3>2. CASE k # 0
      <4>1. k - 1 \in 0 .. m
        BY <3>2
      <4>. QED
        BY <2>3, <3>2, <4>1
    <3>. QED
      BY <3>1, <3>2
  <2>5. g = [k \in 0 .. (m + 1) |-> g[k]]
    OBVIOUS
  <2>. HIDE DEF g
  <2>6. Repeats(g, m + 1, x, step)
    BY <2>4, <2>5 DEF Repeats
  <2>. QED
    BY <2>6
<1>. HIDE DEF P
<1>3. Nat \subseteq P
  BY <1>1, <1>2, SetInduction
<1>. QED
  BY <1>3 DEF P

\* Both: a step that stays within S is repeated within S.
LEMMA RepeatsWithin ==
  ASSUME NEW n \in Nat, NEW S, NEW x \in S[0], NEW step,
         \A k \in 1 .. n : \A s \in S[k - 1] : step[k][s] \in S[k]
  PROVE  \E f : Repeats(f, n, x, step) /\ \A k \in 0 .. n : f[k] \in S[k]
<1>1. PICK f : Repeats(f, n, x, step)
  BY RepeatsExists
<1>. DEFINE h == [k \in 0 .. n |-> IF k = 0 THEN x ELSE step[k][f[k - 1]]]
<1>2. f = h
  BY <1>1 DEF Repeats
<1>3. h[0] = x /\ \A k \in 1 .. n : h[k] = step[k][f[k - 1]]
  OBVIOUS
<1>. HIDE DEF h
<1>4. f[0] \in S[0] /\ \A k \in 1 .. n : f[k - 1] \in S[k - 1] => f[k] \in S[k]
  BY <1>2, <1>3
<1>5. \A k \in 0 .. n : f[k] \in S[k]
  BY <1>4, StaysWithin
<1>. QED
  BY <1>1, <1>5

-----------------------------------------------------------------------------
(* How often a sequence holds an element of a set.                         *)

Places(K, s) == {i \in 1 .. Len(s) : s[i] \in K}
Counted(K, s) == Cardinality(Places(K, s))

LEMMA CountedType ==
  ASSUME NEW S, NEW s \in Seq(S), NEW K
  PROVE  /\ IsFiniteSet(Places(K, s)) /\ Counted(K, s) \in Nat
         /\ Counted(K, s) = 0 <=> \A i \in 1 .. Len(s) : s[i] \notin K
<1>1. Len(s) \in Nat /\ IsFiniteSet(1 .. Len(s))
  BY FS_Interval
<1>2. IsFiniteSet(Places(K, s))
  BY <1>1, FS_Subset DEF Places
<1>3. Counted(K, s) \in Nat /\ (Counted(K, s) = 0 <=> Places(K, s) = {})
  BY <1>2, FS_CardinalityType, FS_EmptySet DEF Counted
<1>. QED
  BY <1>2, <1>3 DEF Places

LEMMA CountedAppend ==
  ASSUME NEW S, NEW s \in Seq(S), NEW x \in S, NEW K
  PROVE  Counted(K, Append(s, x)) = Counted(K, s) + IF x \in K THEN 1 ELSE 0
<1>. DEFINE t == Append(s, x)
<1>1. /\ Len(s) \in Nat /\ Len(t) = Len(s) + 1 /\ t[Len(s) + 1] = x
      /\ \A i \in 1 .. Len(s) : t[i] = s[i]
  OBVIOUS
<1>. HIDE DEF t
<1>2. 1 .. (Len(s) + 1) = (1 .. Len(s)) \cup {Len(s) + 1} /\ Len(s) + 1 \notin 1 .. Len(s)
  BY <1>1
<1>3. IsFiniteSet(Places(K, s)) /\ Counted(K, s) \in Nat
  BY CountedType
<1>4. CASE x \in K
  <2>1. Places(K, t) = Places(K, s) \cup {Len(s) + 1} /\ Len(s) + 1 \notin Places(K, s)
    BY <1>1, <1>2, <1>4 DEF Places
  <2>2. Cardinality(Places(K, t)) = Cardinality(Places(K, s)) + 1
    BY <1>3, <2>1, FS_AddElement
  <2>. QED
    BY <1>4, <2>2 DEF Counted, t
<1>5. CASE x \notin K
  <2>1. Places(K, t) = Places(K, s)
    BY <1>1, <1>2, <1>5 DEF Places
  <2>. QED
    BY <1>3, <1>5, <2>1 DEF Counted, t
<1>. QED
  BY <1>4, <1>5

\* Two elements change places.
Swapped(s, i, j) == [s EXCEPT ![i] = s[j], ![j] = s[i]]

LEMMA SwappedType ==
  ASSUME NEW S, NEW s \in Seq(S), NEW i \in 1 .. Len(s), NEW j \in 1 .. Len(s)
  PROVE  /\ Swapped(s, i, j) \in Seq(S) /\ Len(Swapped(s, i, j)) = Len(s)
         /\ Swapped(s, i, j)[i] = s[j] /\ Swapped(s, i, j)[j] = s[i]
         /\ \A k \in (1 .. Len(s)) \ {i, j} : Swapped(s, i, j)[k] = s[k]
BY DEF Swapped

LEMMA CountedSwapped ==
  ASSUME NEW S, NEW s \in Seq(S), NEW i \in 1 .. Len(s), NEW j \in 1 .. Len(s), NEW K
  PROVE  Counted(K, Swapped(s, i, j)) = Counted(K, s)
<1>. DEFINE t == Swapped(s, i, j)
<1>1. /\ t \in Seq(S) /\ Len(t) = Len(s) /\ t[i] = s[j] /\ t[j] = s[i]
      /\ \A k \in (1 .. Len(s)) \ {i, j} : t[k] = s[k]
  BY SwappedType
<1>. HIDE DEF t
<1>2. IsFiniteSet(Places(K, s)) /\ Counted(K, s) \in Nat
  BY CountedType
<1>3. CASE s[i] \in K <=> s[j] \in K
  <2>1. Places(K, t) = Places(K, s)
    BY <1>1, <1>3 DEF Places
  <2>. QED
    BY <1>1, <2>1 DEF Counted, t
<1>4. ASSUME NEW a \in {i, j}, NEW b \in {i, j}, s[a] \in K, s[b] \notin K
      PROVE  Counted(K, t) = Counted(K, s)
  <2>1. a \in Places(K, s) /\ b \notin Places(K, s) /\ a # b
    BY <1>4 DEF Places
  <2>2. Places(K, t) = (Places(K, s) \ {a}) \cup {b}
    BY <1>1, <1>4 DEF Places
  <2>3. /\ IsFiniteSet(Places(K, s) \ {a})
        /\ Cardinality(Places(K, s) \ {a}) = Cardinality(Places(K, s)) - 1
    BY <1>2, <2>1, FS_RemoveElement
  <2>4. Cardinality(Places(K, t)) = Cardinality(Places(K, s) \ {a}) + 1
    BY <2>1, <2>2, <2>3, FS_AddElement
  <2>. QED
    BY <1>2, <2>3, <2>4 DEF Counted
<1>5. Counted(K, t) = Counted(K, s)
  BY <1>3, <1>4 DEF t
<1>. QED
  BY <1>1, <1>5 DEF t

\* Two places count as two.
LEMMA CountedTwice ==
  ASSUME NEW S, NEW s \in Seq(S), NEW i \in 1 .. Len(s), NEW j \in 1 .. Len(s), NEW K,
         i # j, s[i] \in K, s[j] \in K
  PROVE  Counted(K, s) >= 2
<1>1. IsFiniteSet(Places(K, s)) /\ Counted(K, s) \in Nat /\ i \in Places(K, s) /\ j \in Places(K, s)
  BY CountedType DEF Places
<1>2. /\ IsFiniteSet(Places(K, s) \ {i})
      /\ Cardinality(Places(K, s) \ {i}) = Cardinality(Places(K, s)) - 1
  BY <1>1, FS_RemoveElement
<1>. DEFINE rest == Places(K, s) \ {i}
<1>3. Cardinality(rest) \in Nat /\ Cardinality(rest) # 0
  <2>1. IsFiniteSet(rest) /\ j \in rest
    BY <1>1, <1>2
  <2>. HIDE DEF rest
  <2>2. Cardinality(rest) \in Nat
    BY <2>1, FS_CardinalityType
  <2>3. Cardinality(rest) = 0 <=> rest = {}
    BY <2>1, FS_EmptySet
  <2>. QED
    BY <2>1, <2>2, <2>3
<1>. QED
  BY <1>1, <1>2, <1>3 DEF Counted

\* All but the last element, and that one after them.
LEMMA FrontAndLast ==
  ASSUME NEW S, NEW s \in Seq(S), s # <<>>
  PROVE  /\ Front(s) \in Seq(S) /\ Last(s) \in S /\ s = Append(Front(s), Last(s))
         /\ Last(s) = s[Len(s)] /\ Len(Front(s)) = Len(s) - 1
         /\ \A i \in 1 .. (Len(s) - 1) : Front(s)[i] = s[i]
<1>1. Len(s) \in Nat \ {0}
  OBVIOUS
<1>2. Front(s) = [i \in 1 .. (Len(s) - 1) |-> s[i]]
  BY <1>1 DEF Front
<1>3. Front(s) \in Seq(S) /\ Len(Front(s)) = Len(s) - 1
  BY <1>1, <1>2
<1>4. Last(s) = s[Len(s)] /\ Last(s) \in S
  BY <1>1 DEF Last
<1>5. s = Append(Front(s), Last(s))
  BY <1>1, <1>2, <1>3, <1>4
<1>. QED
  BY <1>2, <1>3, <1>4, <1>5

\* A sequence up to a place, and with one more element.
LEMMA PrefixFacts ==
  ASSUME NEW S, NEW s \in Seq(S)
  PROVE  /\ SubSeq(s, 1, 0) = <<>> /\ SubSeq(s, 1, Len(s)) = s
         /\ \A k \in 1 .. Len(s) :
              /\ SubSeq(s, 1, k - 1) \in Seq(S) /\ s[k] \in S
              /\ SubSeq(s, 1, k) = Append(SubSeq(s, 1, k - 1), s[k])
<1>1. Len(s) \in Nat /\ \A k \in 1 .. Len(s) : s[k] \in S
  OBVIOUS
<1>2. SubSeq(s, 1, 0) = <<>> /\ SubSeq(s, 1, Len(s)) = s
  BY <1>1
<1>3. ASSUME NEW k \in 1 .. Len(s)
      PROVE  /\ SubSeq(s, 1, k - 1) \in Seq(S)
             /\ SubSeq(s, 1, k) = Append(SubSeq(s, 1, k - 1), s[k])
  <2>. DEFINE t == SubSeq(s, 1, k - 1)
  <2>1. t = [i \in 1 .. (k - 1) |-> s[i]] /\ k - 1 \in Nat
    OBVIOUS
  <2>. HIDE DEF t
  <2>2. t \in Seq(S) /\ Len(t) = k - 1
    BY <1>1, <2>1
  <2>3. Append(t, s[k]) = [i \in 1 .. k |-> s[i]]
    BY <1>1, <2>1, <2>2
  <2>4. SubSeq(s, 1, k) = [i \in 1 .. k |-> s[i]]
    OBVIOUS
  <2>. QED
    BY <2>2, <2>3, <2>4 DEF t
<1>. QED
  BY <1>1, <1>2, <1>3

=============================================================================
