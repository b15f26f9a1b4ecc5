--------------------------- MODULE SequenceLemmas ---------------------------
(***************************************************************************)
(* Facts about numbers, sequences and finite sets that the proofs of the   *)
(* other modules rest on.  Induction is the existence of a least number:   *)
(* a set that holds no least counterexample is empty.                      *)
(***************************************************************************)
EXTENDS SequencesExt, Integers, FiniteSetTheorems, SequenceTheorems, WellFoundedInduction,
        TLAPS

\* A set of natural numbers that is not empty has a least one.
LEMMA LeastNumber ==
  ASSUME NEW T, T \subseteq Nat, T # {}
  PROVE  \E x \in T : \A y \in T : x <= y
<1> DEFINE R == {p \in Nat \X Nat : p[1] < p[2]}
<1>1. IsWellFoundedOn(R, Nat)
  <2>1. R = OpToRel(<, Nat)
    BY DEF OpToRel
  <2> QED BY <2>1, NatLessThanWellFounded
<1> HIDE DEF R
<1>2. PICK x \in T : \A y \in T : ~(<<y, x>> \in R)
  BY <1>1, WFMin
<1>3. ASSUME NEW y \in T PROVE x <= y
  <2>1. <<y, x>> \in Nat \X Nat
    OBVIOUS
  <2>2. ~(y < x)
    BY <1>2, <2>1 DEF R
  <2> QED BY <2>2
<1> QED BY <1>3

\* Min is the least one.
LEMMA MinIsLeast ==
  ASSUME NEW T, T \subseteq Nat, T # {}
  PROVE  Min(T) \in T /\ \A y \in T : Min(T) <= y
BY LeastNumber DEF Min

\* It stays the least when a number above is added.
LEMMA MinStays ==
  ASSUME NEW T, T \subseteq Nat, T # {}, NEW n \in Nat, \A y \in T : y <= n
  PROVE  Min(T \cup {n}) = Min(T)
<1> DEFINE m == Min(T)
           l == Min(T \cup {n})
<1>1. m \in T /\ \A y \in T : m <= y
  BY MinIsLeast
<1>2. l \in T \cup {n} /\ \A y \in T \cup {n} : l <= y
  BY MinIsLeast
<1> HIDE DEF m, l
<1>3. m \in Nat /\ l \in Nat /\ m <= n
  BY <1>1, <1>2
<1>4. m <= l /\ l <= m
  BY <1>1, <1>2, <1>3
<1> QED BY <1>3, <1>4 DEF m, l

\* The least number of a set of one.
LEMMA MinOfOne == ASSUME NEW n \in Nat PROVE Min({n}) = n
BY MinIsLeast

\* An increasing sequence onto an interval counts it.
LEMMA IncreasingOnto ==
  ASSUME NEW L \in Nat, NEW f, NEW a \in Int, NEW b \in Int,
         \A j \in 1 .. L : f[j] \in Int,
         \A j, k \in 1 .. L : j < k => f[j] < f[k],
         {f[j] : j \in 1 .. L} = a .. b
  PROVE  \A j \in 1 .. L : f[j] = a + j - 1
<1> DEFINE Wrong == {j \in 1 .. L : f[j] # a + j - 1}
<1> SUFFICES ASSUME Wrong # {} PROVE FALSE
  OBVIOUS
<1>1. PICK k \in Wrong : \A j \in Wrong : k <= j
  <2>1. Wrong \subseteq Nat
    OBVIOUS
  <2> HIDE DEF Wrong
  <2> QED BY <2>1, LeastNumber
<1>2. k \in 1 .. L /\ f[k] # a + k - 1 /\ f[k] \in a .. b
  OBVIOUS
<1>3. CASE k = 1
  <2>1. a \in a .. b
    BY <1>2
  <2>2. PICK j \in 1 .. L : f[j] = a
    BY <2>1, Zenon
  <2> QED BY <1>2, <1>3, <2>2
<1>4. CASE k > 1
  <2>1. k - 1 \in 1 .. L /\ k - 1 \notin Wrong
    BY <1>1, <1>2, <1>4
  <2>2. f[k - 1] = a + k - 2
    BY <2>1
  <2>3. f[k - 1] < f[k]
    BY <1>2, <2>1
  <2>4. f[k] > a + k - 1
    BY <1>2, <2>2, <2>3
  <2>5. a + k - 1 \in a .. b
    BY <1>2, <1>4, <2>4
  <2>6. PICK j \in 1 .. L : f[j] = a + k - 1
    BY <2>5, Zenon
  <2>7. ~(j <= k - 1) /\ ~(j >= k)
    BY <1>2, <2>1, <2>2, <2>4, <2>6
  <2> QED BY <1>2, <2>6, <2>7
<1> QED BY <1>2, <1>3, <1>4
-----------------------------------------------------------------------------
\* Sequences whose elements are of no one type.
Sequence(s) == s \in Seq(Range(s))

\* What makes one.
LEMMA SequenceFacts ==
  ASSUME NEW s, Sequence(s)
  PROVE  Len(s) \in Nat /\ DOMAIN s = 1 .. Len(s)
BY DEF Sequence

\* A sequence over any set is one.
LEMMA SequenceOfAny ==
  ASSUME NEW S, NEW s \in Seq(S)
  PROVE  Sequence(s)
<1>1. Len(s) \in Nat /\ s \in [1 .. Len(s) -> Range(s)]
  BY DEF Range
<1> QED BY <1>1, IsASeq DEF Sequence

\* And so is one with an element more.
LEMMA AppendOne ==
  ASSUME NEW s, Sequence(s), NEW x
  PROVE  LET t == Append(s, x) IN
           /\ Sequence(t) /\ Len(t) = Len(s) + 1 /\ DOMAIN t = 1 .. Len(s) + 1
           /\ \A j \in DOMAIN s : j \in DOMAIN t /\ t[j] = s[j]
           /\ t[Len(s) + 1] = x
           /\ Range(t) = Range(s) \cup {x}
<1> DEFINE S == Range(s) \cup {x}
           t == Append(s, x)
<1>1. s \in Seq(S) /\ x \in S
  BY SeqMonotonic DEF Sequence
<1> HIDE DEF S
<1>2. t \in Seq(S) /\ Len(t) = Len(s) + 1 /\ t[Len(s) + 1] = x
      /\ \A j \in 1 .. Len(s) : t[j] = s[j]
  BY <1>1, AppendProperties
<1>3. Sequence(t)
  BY <1>2, SequenceOfAny
<1>4. Len(s) \in Nat /\ DOMAIN s = 1 .. Len(s) /\ DOMAIN t = 1 .. Len(s) + 1
  BY <1>2, <1>3, SequenceFacts
<1> HIDE DEF t
<1>5. \A j \in DOMAIN t : j \in DOMAIN s \/ j = Len(s) + 1
  BY <1>4
<1>6. DOMAIN s \subseteq DOMAIN t /\ Len(s) + 1 \in DOMAIN t
  BY <1>4
<1>7. Range(t) = Range(s) \cup {x}
  BY <1>2, <1>4, <1>5, <1>6 DEF Range
<1> QED BY <1>2, <1>3, <1>4, <1>6, <1>7 DEF t

\* Numbers up to n are finitely many, and one more adds one.
LEMMA CountOneMore ==
  ASSUME NEW n \in Nat, NEW S, S \subseteq 1 .. n
  PROVE  /\ Cardinality(S) \in Nat
         /\ Cardinality(S) = 0 <=> S = {}
         /\ Cardinality(S \cup {n + 1}) = Cardinality(S) + 1
<1>1. IsFiniteSet(S)
  <2>1. IsFiniteSet(1 .. n)
    BY FS_Interval
  <2> QED BY <2>1, FS_Subset
<1>2. n + 1 \notin S
  OBVIOUS
<1> QED BY <1>1, <1>2, FS_CardinalityType, FS_EmptySet, FS_AddElement

\* A sequence in another order.
LEMMA Permuted ==
  ASSUME NEW s, Sequence(s), NEW q \in Bijection(DOMAIN s, DOMAIN s),
         NEW t, t = [k \in DOMAIN s |-> s[q[k]]]
  PROVE  /\ Sequence(t) /\ Len(t) = Len(s) /\ DOMAIN t = DOMAIN s /\ Range(t) = Range(s)
         /\ \A k \in DOMAIN s : q[k] \in DOMAIN s /\ t[k] = s[q[k]]
         /\ \A j, k \in DOMAIN s : q[j] = q[k] => j = k
         /\ \A k \in DOMAIN s : \E j \in DOMAIN s : q[j] = k
<1>1. Len(s) \in Nat /\ DOMAIN s = 1 .. Len(s)
  BY SequenceFacts
<1>2. /\ \A k \in DOMAIN s : q[k] \in DOMAIN s
      /\ \A j, k \in DOMAIN s : q[j] = q[k] => j = k
      /\ \A k \in DOMAIN s : \E j \in DOMAIN s : q[j] = k
  BY DEF Bijection, Injection, Surjection, IsInjective
<1>3. DOMAIN t = DOMAIN s /\ \A k \in DOMAIN s : t[k] = s[q[k]]
  OBVIOUS
<1>4. Range(t) = Range(s)
  <2>1. ASSUME NEW k \in DOMAIN s PROVE s[q[k]] \in Range(s)
    BY <1>2 DEF Range
  <2>2. ASSUME NEW k \in DOMAIN s PROVE s[k] \in Range(t)
    <3>1. PICK j \in DOMAIN s : q[j] = k
      BY <1>2
    <3>2. t[j] = s[k]
      BY <1>3, <3>1
    <3> QED BY <1>3, <3>2 DEF Range
  <2>3. Range(t) \subseteq Range(s)
    BY <1>3, <2>1 DEF Range
  <2>4. Range(s) \subseteq Range(t)
    BY <2>2 DEF Range
  <2> QED BY <2>3, <2>4
<1>5. t \in [1 .. Len(s) -> Range(s)]
  BY <1>1, <1>3, <1>4 DEF Range
<1>6. t \in Seq(Range(s))
  BY <1>1, <1>5, IsASeq
<1>7. Len(t) = Len(s)
  BY <1>1, <1>3, <1>6, LenProperties
<1> QED BY <1>2, <1>3, <1>4, <1>6, <1>7 DEF Sequence

\* The greatest of numbers up to n.
LEMMA MaxIsGreatest ==
  ASSUME NEW n \in Nat, NEW S, S \subseteq 1 .. n, S # {}
  PROVE  Max(S) \in S /\ \A z \in S : z <= Max(S)
<1> DEFINE T == {n - x : x \in S}
<1>1. T \subseteq Nat /\ T # {}
  <2>1. \A x \in S : n - x \in Nat
    <3> TAKE x \in S
    <3>1. x \in 1 .. n
      OBVIOUS
    <3> QED BY <3>1
  <2> QED BY <2>1
<1>2. PICK y \in T : \A z \in T : y <= z
  <2> HIDE DEF T
  <2> QED BY <1>1, LeastNumber
<1>3. PICK x \in S : y = n - x
  OBVIOUS
<1>4. \A z \in S : x >= z
  <2> TAKE z \in S
  <2>1. y <= n - z
    BY <1>2
  <2>2. x \in 1 .. n /\ z \in 1 .. n
    BY <1>3
  <2> QED BY <1>3, <2>1, <2>2
<1>5. x \in Int /\ \A z \in S : z \in Int
  BY <1>3
<1>6. Max(S) \in S /\ \A z \in S : Max(S) >= z
  BY <1>4 DEF Max
<1> QED BY <1>5, <1>6

\* Each of k numbers is preceded by 0, 1, ... or k - 1 of them.
LEMMA Ranked ==
  ASSUME NEW S, S \subseteq Nat, IsFiniteSet(S)
  PROVE  /\ Cardinality(S) \in Nat
         /\ \A k \in 1 .. Cardinality(S) : \E v \in S : Cardinality({w \in S : w < v}) = k - 1
<1> DEFINE Below(v) == {w \in S : w < v}
           n == Cardinality(S)
           T == 0 .. n - 1
           rank == [v \in S |-> Cardinality(Below(v))]
<1>1. n \in Nat
  BY FS_CardinalityType
<1>2. ASSUME NEW v \in S PROVE IsFiniteSet(Below(v)) /\ Cardinality(Below(v)) \in T
  <2>1. Below(v) \in SUBSET S /\ Below(v) # S
    OBVIOUS
  <2> HIDE DEF Below
  <2>2. IsFiniteSet(Below(v)) /\ Cardinality(Below(v)) <= n /\ Cardinality(Below(v)) # n
    BY <2>1, FS_Subset
  <2>3. Cardinality(Below(v)) \in Nat
    BY <2>2, FS_CardinalityType
  <2> QED BY <1>1, <2>2, <2>3
<1>3. ASSUME NEW v \in S, NEW w \in S, v < w
      PROVE  Cardinality(Below(v)) < Cardinality(Below(w))
  <2>1. Below(v) \in SUBSET Below(w) /\ Below(v) # Below(w)
    <3>1. v \in Below(w) /\ v \notin Below(v)
      BY <1>3
    <3>2. \A u \in S : u < v => u < w
      BY <1>3
    <3> QED BY <3>1, <3>2
  <2>2. /\ IsFiniteSet(Below(w))
        /\ Cardinality(Below(v)) \in Nat /\ Cardinality(Below(w)) \in Nat
    BY <1>2, FS_CardinalityType
  <2> HIDE DEF Below
  <2>3. /\ Cardinality(Below(v)) <= Cardinality(Below(w))
        /\ Cardinality(Below(v)) # Cardinality(Below(w))
    BY <2>1, <2>2, FS_Subset
  <2> QED BY <2>2, <2>3
<1>4. rank \in Injection(S, T)
  <2>1. rank \in [S -> T]
    BY <1>2
  <2>2. ASSUME NEW v \in S, NEW w \in S, rank[v] = rank[w] PROVE v = w
    <3>1. Cardinality(Below(v)) = Cardinality(Below(w))
      BY <2>2
    <3>2. Cardinality(Below(v)) \in Nat
      BY <1>2, FS_CardinalityType
    <3>3. ~(v < w) /\ ~(w < v)
      BY <1>3, <3>1, <3>2
    <3> QED BY <3>3
  <2> HIDE DEF rank
  <2> QED BY <2>1, <2>2 DEF Injection, IsInjective
<1>5. IsFiniteSet(T) /\ Cardinality(T) = n
  <2> HIDE DEF n
  <2>1. 0 \in Int /\ n - 1 \in Int
    BY <1>1
  <2> QED BY <1>1, <2>1, FS_Interval
<1> HIDE DEF T, n
<1>6. rank \in Surjection(S, T)
  <2> HIDE DEF rank
  <2> QED BY <1>4, <1>5, FS_Injection DEF n
<1>7. ASSUME NEW k \in 1 .. n PROVE \E v \in S : Cardinality(Below(v)) = k - 1
  <2>1. k - 1 \in T
    BY <1>1, <1>7 DEF T
  <2>2. PICK v \in S : rank[v] = k - 1
    <3> HIDE DEF rank
    <3> QED BY <1>6, <2>1 DEF Surjection
  <2> QED BY <2>2
<1> QED BY <1>1, <1>7 DEF n

\* The sequence of a finite set.
LEMMA SequenceOfSet ==
  ASSUME NEW S, IsFiniteSet(S)
  PROVE  LET s == SetToSeq(S) IN
           /\ Sequence(s) /\ Range(s) = S /\ Len(s) = Cardinality(S)
           /\ \A j, k \in DOMAIN s : s[j] = s[k] => j = k
<1> DEFINE n == Cardinality(S)
           s == SetToSeq(S)
<1>1. n \in Nat /\ ExistsBijection(1 .. n, S)
  BY FS_CardinalityType
<1>2. \E f \in [1 .. n -> S] : IsInjective(f)
  BY <1>1 DEF ExistsBijection, Bijection, Injection
<1>3. s \in [1 .. n -> S] /\ IsInjective(s)
  BY <1>2 DEF SetToSeq
<1> HIDE DEF s
<1>4. s \in Injection(1 .. n, S)
  BY <1>3 DEF Injection
<1>5. Cardinality(1 .. n) = n
  BY <1>1, FS_Interval
<1>6. s \in Surjection(1 .. n, S)
  <2> HIDE DEF n
  <2> QED BY <1>4, <1>5, FS_Injection DEF n
<1>7. Range(s) = S
  BY <1>3, <1>6 DEF Surjection, Range
<1>8. s \in Seq(S) /\ Len(s) = n
  BY <1>1, <1>3, IsASeq
<1> QED BY <1>3, <1>7, <1>8 DEF s, Sequence, IsInjective

\* A function on 1 .. n is a sequence.
LEMMA Listed ==
  ASSUME NEW n \in Nat, NEW f, DOMAIN f = 1 .. n, f = [k \in 1 .. n |-> f[k]]
  PROVE  Sequence(f) /\ Len(f) = n
<1>1. f \in [1 .. n -> Range(f)]
  BY DEF Range
<1>2. f \in Seq(Range(f))
  BY <1>1, IsASeq
<1>3. Len(f) = n
  BY <1>2, LenProperties
<1> QED BY <1>2, <1>3 DEF Sequence

\* Two sequences in one.
LEMMA Concatenated ==
  ASSUME NEW s, NEW t, Sequence(s), Sequence(t)
  PROVE  /\ Sequence(s \o t) /\ Len(s \o t) = Len(s) + Len(t)
         /\ \A j \in 1 .. Len(s) : (s \o t)[j] = s[j]
         /\ \A j \in 1 .. Len(t) : (s \o t)[Len(s) + j] = t[j]
         /\ Range(s \o t) = Range(s) \cup Range(t)
<1> DEFINE S == Range(s) \cup Range(t)
           c == s \o t
<1>1. s \in Seq(S) /\ t \in Seq(S)
  BY SeqMonotonic DEF Sequence
<1>2. /\ Len(s) \in Nat /\ DOMAIN s = 1 .. Len(s)
      /\ Len(t) \in Nat /\ DOMAIN t = 1 .. Len(t)
  BY SequenceFacts
<1> HIDE DEF S
<1>3. /\ c \in Seq(S) /\ Len(c) = Len(s) + Len(t)
      /\ \A j \in 1 .. Len(s) + Len(t) : c[j] = IF j <= Len(s) THEN s[j] ELSE t[j - Len(s)]
  BY <1>1, ConcatProperties
<1>4. Sequence(c) /\ DOMAIN c = 1 .. Len(s) + Len(t)
  BY <1>3, SequenceOfAny, SequenceFacts
<1> HIDE DEF c
<1>5. ASSUME NEW j \in 1 .. Len(s)
      PROVE  j \in DOMAIN c /\ c[j] = s[j]
  BY <1>2, <1>3, <1>4
<1>6. ASSUME NEW j \in 1 .. Len(t)
      PROVE  Len(s) + j \in DOMAIN c /\ c[Len(s) + j] = t[j]
  <2>1. Len(s) + j \in 1 .. Len(s) + Len(t) /\ ~(Len(s) + j <= Len(s))
        /\ (Len(s) + j) - Len(s) = j
    BY <1>2
  <2> QED BY <1>3, <1>4, <2>1
<1>7. ASSUME NEW j \in DOMAIN c
      PROVE  \/ j \in DOMAIN s /\ c[j] = s[j]
             \/ j - Len(s) \in DOMAIN t /\ c[j] = t[j - Len(s)]
  BY <1>2, <1>3, <1>4
<1>8. Range(c) = Range(s) \cup Range(t)
  <2>1. \A x \in Range(s) : x \in Range(c)
    <3> SUFFICES ASSUME NEW j \in DOMAIN s PROVE s[j] \in Range(c)
      BY DEF Range
    <3>1. j \in DOMAIN c /\ c[j] = s[j]
      BY <1>2, <1>5
    <3> QED BY <3>1 DEF Range
  <2>2. \A x \in Range(t) : x \in Range(c)
    <3> SUFFICES ASSUME NEW j \in DOMAIN t PROVE t[j] \in Range(c)
      BY DEF Range
    <3>1. Len(s) + j \in DOMAIN c /\ c[Len(s) + j] = t[j]
      BY <1>2, <1>6
    <3> QED BY <3>1 DEF Range
  <2>3. \A x \in Range(c) : x \in Range(s) \/ x \in Range(t)
    <3> SUFFICES ASSUME NEW j \in DOMAIN c PROVE c[j] \in Range(s) \/ c[j] \in Range(t)
      BY DEF Range
    <3> QED BY <1>7 DEF Range
  <2> QED BY <2>1, <2>2, <2>3
<1> QED BY <1>3, <1>4, <1>5, <1>6, <1>8 DEF c

\* A sequence of sequences is flattened from the left: the recursive function
\* of FlattenSeq exists.
LEMMA FlattenExists ==
  ASSUME NEW ss, NEW n \in Nat
  PROVE  \E f : f = [k \in 1 .. n |-> IF k = 1 THEN ss[k] ELSE f[k - 1] \o ss[k]]
<1> DEFINE Built(f, m) == f = [k \in 1 .. m |-> IF k = 1 THEN ss[k] ELSE f[k - 1] \o ss[k]]
           Unbuilt == {m \in Nat : ~\E f : Built(f, m)}
<1> SUFFICES ASSUME Unbuilt # {} PROVE FALSE
  OBVIOUS
<1>1. PICK m \in Unbuilt : \A k \in Unbuilt : m <= k
  <2>1. Unbuilt \subseteq Nat
    OBVIOUS
  <2> HIDE DEF Unbuilt
  <2> QED BY <2>1, LeastNumber
<1>2. m \in Nat /\ ~\E f : Built(f, m)
  OBVIOUS
<1>3. m # 0
  <2>1. Built(<<>>, 0)
    OBVIOUS
  <2> QED BY <1>2, <2>1
<1>4. PICK f : Built(f, m - 1)
  <2>1. m - 1 \in Nat /\ ~(m <= m - 1)
    BY <1>2, <1>3
  <2>2. m - 1 \notin Unbuilt
    BY <1>1, <2>1
  <2> HIDE DEF Built
  <2> QED BY <2>1, <2>2
<1> DEFINE g == [k \in 1 .. m |-> IF k = m THEN (IF m = 1 THEN ss[m] ELSE f[m - 1] \o ss[m])
                                 ELSE f[k]]
<1>5. ASSUME NEW k \in 1 .. m
      PROVE  g[k] = IF k = 1 THEN ss[k] ELSE g[k - 1] \o ss[k]
  <2>1. CASE k = m
    <3>1. m # 1 => m - 1 \in 1 .. m /\ m - 1 # m /\ g[m - 1] = f[m - 1]
      BY <1>2, <1>3
    <3> QED BY <2>1, <3>1
  <2>2. CASE k # m
    <3>1. k \in 1 .. m - 1 /\ g[k] = f[k]
      BY <1>2, <2>2
    <3>2. f[k] = IF k = 1 THEN ss[k] ELSE f[k - 1] \o ss[k]
      BY <1>4, <3>1
    <3>3. k # 1 => k - 1 \in 1 .. m /\ k - 1 # m /\ g[k - 1] = f[k - 1]
      BY <1>2, <2>2
    <3> QED BY <3>1, <3>2, <3>3
  <2> QED BY <2>1, <2>2
<1>6. Built(g, m)
  <2>1. g = [k \in 1 .. m |-> g[k]]
    OBVIOUS
  <2> HIDE DEF g
  <2> QED BY <1>5, <2>1
<1> QED BY <1>2, <1>6

\* What a flattened sequence of sequences holds is what these hold.
LEMMA Flattened ==
  ASSUME NEW ss, Sequence(ss), \A k \in DOMAIN ss : Sequence(ss[k])
  PROVE  /\ Sequence(FlattenSeq(ss))
         /\ Range(FlattenSeq(ss)) = UNION {Range(ss[k]) : k \in DOMAIN ss}
<1> DEFINE n == Len(ss)
           flat == CHOOSE f : f = [k \in 1 .. n |-> IF k = 1 THEN ss[k] ELSE f[k - 1] \o ss[k]]
<1>1. n \in Nat /\ DOMAIN ss = 1 .. n
  BY SequenceFacts
<1>2. CASE n = 0
  <2>1. FlattenSeq(ss) = ss /\ DOMAIN ss = {}
    BY <1>1, <1>2 DEF FlattenSeq
  <2> QED BY <2>1 DEF Range
<1>3. CASE n # 0
  <2>1. flat = [k \in 1 .. n |-> IF k = 1 THEN ss[k] ELSE flat[k - 1] \o ss[k]]
    <3> HIDE DEF n
    <3> QED BY <1>1, FlattenExists
  <2>2. FlattenSeq(ss) = flat[n]
    BY <1>3 DEF FlattenSeq
  <2> HIDE DEF flat, n
  <2> DEFINE Good(k) == /\ Sequence(flat[k])
                        /\ \A x : x \in Range(flat[k]) <=> \E j \in 1 .. k : x \in Range(ss[j])
             Bad == {k \in 1 .. n : ~Good(k)}
  <2>3. Bad = {}
    <3> SUFFICES ASSUME Bad # {} PROVE FALSE
      OBVIOUS
    <3>1. PICK k \in Bad : \A j \in Bad : k <= j
      <4>1. Bad \subseteq Nat
        BY <1>1
      <4> HIDE DEF Bad
      <4> QED BY <4>1, LeastNumber
    <3>2. k \in 1 .. n /\ ~Good(k)
      OBVIOUS
    <3>3. CASE k = 1
      <4>1. flat[k] = ss[1] /\ Sequence(ss[1])
        BY <1>1, <2>1, <3>2, <3>3
      <4>2. \A j \in 1 .. 1 : j = 1
        OBVIOUS
      <4> QED BY <3>2, <3>3, <4>1, <4>2, SMTT(30)
    <3>4. CASE k # 1
      <4>1. k - 1 \in 1 .. n /\ k - 1 \notin Bad
        BY <1>1, <3>1, <3>2, <3>4
      <4>2. Good(k - 1)
        BY <4>1
      <4>3. flat[k] = flat[k - 1] \o ss[k]
        BY <2>1, <3>2, <3>4
      <4>4. Sequence(ss[k])
        BY <1>1, <3>2
      <4>5. Sequence(flat[k]) /\ Range(flat[k]) = Range(flat[k - 1]) \cup Range(ss[k])
        BY <4>2, <4>3, <4>4, Concatenated
      <4>6. \A j : j \in 1 .. k <=> j \in 1 .. k - 1 \/ j = k
        BY <1>1, <3>2, <3>4
      <4>7. ASSUME NEW x
            PROVE  x \in Range(flat[k]) <=> \E j \in 1 .. k : x \in Range(ss[j])
        <5>1. x \in Range(flat[k - 1]) <=> \E j \in 1 .. k - 1 : x \in Range(ss[j])
          BY <4>2
        <5>2. x \in Range(flat[k]) <=> x \in Range(flat[k - 1]) \/ x \in Range(ss[k])
          BY <4>5
        <5> QED BY <4>6, <5>1, <5>2, Zenon
      <4> QED BY <3>2, <4>5, <4>7
    <3> QED BY <3>3, <3>4
  <2>4. n \in 1 .. n
    BY <1>1, <1>3
  <2>5. Good(n)
    BY <2>3, <2>4
  <2> QED BY <1>1, <2>2, <2>5
<1> QED BY <1>2, <1>3

\* The parts a flattened sequence of sequences is put together from.
FlattenedAs(F, ss) ==
  /\ F[0] = <<>>
  /\ \A k \in 0 .. Len(ss) : Sequence(F[k])
  /\ \A k \in 1 .. Len(ss) : F[k] = F[k - 1] \o ss[k]
  /\ FlattenSeq(ss) = F[Len(ss)]

\* Every one has them.
LEMMA FlattenParts ==
  ASSUME NEW ss, Sequence(ss), \A k \in DOMAIN ss : Sequence(ss[k])
  PROVE  \E F : FlattenedAs(F, ss)
<1> DEFINE n == Len(ss)
           flat == CHOOSE f : f = [k \in 1 .. n |-> IF k = 1 THEN ss[k] ELSE f[k - 1] \o ss[k]]
           F == [k \in 0 .. n |-> IF k = 0 THEN <<>> ELSE flat[k]]
<1>1. n \in Nat /\ DOMAIN ss = 1 .. n
  BY SequenceFacts
<1>2. flat = [k \in 1 .. n |-> IF k = 1 THEN ss[k] ELSE flat[k - 1] \o ss[k]]
  <2> HIDE DEF n
  <2> QED BY <1>1, FlattenExists
<1>3. n # 0 => FlattenSeq(ss) = flat[n]
  BY DEF FlattenSeq
<1>4. n = 0 => FlattenSeq(ss) = <<>>
  <2>1. ss \in Seq(Range(ss))
    BY DEF Sequence
  <2>2. n = 0 => ss = <<>>
    BY <2>1, EmptySeq
  <2> QED BY <2>2 DEF FlattenSeq
<1> HIDE DEF flat, n
<1>5. F[0] = <<>> /\ \A k \in 1 .. n : F[k] = flat[k]
  BY <1>1
<1>6. \A k \in 1 .. n : F[k] = F[k - 1] \o ss[k]
  <2> TAKE k \in 1 .. n
  <2>1. CASE k = 1
    <3>1. flat[k] = ss[k] /\ k - 1 = 0 /\ k \in DOMAIN ss
      BY <1>1, <1>2, <2>1
    <3>2. <<>> \o ss[k] = ss[k]
      BY <3>1, ConcatEmptySeq DEF Sequence
    <3> QED BY <1>5, <3>1, <3>2
  <2>2. CASE k # 1
    <3>1. k - 1 \in 1 .. n
      BY <1>1, <2>2
    <3>2. flat[k] = flat[k - 1] \o ss[k]
      BY <1>2, <2>2
    <3> QED BY <1>5, <3>1, <3>2
  <2> QED BY <2>1, <2>2
<1>7. FlattenSeq(ss) = F[n]
  BY <1>1, <1>3, <1>4, <1>5
<1> HIDE DEF F
<1>8. \A k \in 0 .. n : Sequence(F[k])
  <2> DEFINE Bad == {k \in 0 .. n : ~Sequence(F[k])}
  <2> SUFFICES ASSUME Bad # {} PROVE FALSE
    OBVIOUS
  <2>1. PICK k \in Bad : \A j \in Bad : k <= j
    <3>1. Bad \subseteq Nat
      BY <1>1
    <3> HIDE DEF Bad
    <3> QED BY <3>1, LeastNumber
  <2>2. k \in 0 .. n /\ ~Sequence(F[k])
    OBVIOUS
  <2>3. k # 0
    <3>1. Sequence(<<>>)
      BY DEF Sequence, Range
    <3> QED BY <1>5, <2>2, <3>1
  <2>4. k - 1 \in 0 .. n /\ ~(k <= k - 1) /\ k \in 1 .. n /\ k \in DOMAIN ss
    BY <1>1, <2>2, <2>3
  <2>5. Sequence(F[k - 1]) /\ Sequence(ss[k])
    BY <2>1, <2>4
  <2>6. Sequence(F[k - 1] \o ss[k])
    BY <2>5, Concatenated
  <2> QED BY <1>6, <2>2, <2>4, <2>6
<1> QED BY <1>5, <1>6, <1>7, <1>8 DEF FlattenedAs, n

\* s is the stretch of w from a to b.
Stretches(w, a, b, s) ==
  /\ Sequence(w) /\ Sequence(s)
  /\ a \in Nat /\ a # 0 /\ b \in Nat /\ b <= Len(w)
  /\ Len(s) = b - a + 1
  /\ \A i \in 1 .. Len(s) : s[i] = w[a + i - 1]

\* SubSeq cuts it out.
LEMMA Stretch ==
  ASSUME NEW w, NEW a, NEW b, NEW s, Stretches(w, a, b, s) PROVE SubSeq(w, a, b) = s
<1> USE DEF Stretches
<1> DEFINE S == Range(w) \cup Range(s)
           n == Len(s)
           t == SubSeq(w, a, b)
<1>1. n \in Nat /\ DOMAIN s = 1 .. n /\ Len(w) \in Nat /\ DOMAIN w = 1 .. Len(w)
  BY SequenceFacts
<1>2. s \in Seq(S)
  <2>1. s \in Seq(Range(s)) /\ Seq(Range(s)) \subseteq Seq(S)
    BY DEF Sequence
  <2> QED BY <2>1
<1>3. \A i \in a .. b : w[i] \in S
  <2> TAKE i \in a .. b
  <2>1. i \in DOMAIN w
    BY <1>1
  <2> QED BY <2>1 DEF Range
<1> HIDE DEF S
<1>4. /\ t \in Seq(S) /\ Len(t) = IF a <= b THEN b - a + 1 ELSE 0
      /\ \A i \in 1 .. b - a + 1 : t[i] = w[a + i - 1]
  BY <1>3, SubSeqProperties
<1> HIDE DEF t, n
<1>5. Len(t) = n
  BY <1>1, <1>4 DEF n
<1>6. \A i \in 1 .. Len(t) : t[i] = s[i]
  BY <1>4, <1>5 DEF n
<1>7. Len(t) = Len(s)
  BY <1>5 DEF n
<1> QED BY <1>2, <1>4, <1>6, <1>7, SeqEqual DEF t
=============================================================================
