------------------------ MODULE AtomdownDocument_proofs ------------------------
(***************************************************************************)
(* Lemmas and theorems about an Atomdown page, for any text: where its      *)
(* units and its cards are, what every rewrite makes of its lines, that a   *)
(* group's markers come off again, and that a minimal edit is the edit.     *)
(***************************************************************************)
EXTENDS AtomdownEdits, FiniteSetTheorems, SequenceTheorems, WellFoundedInduction,
        NaturalsInduction, TLAPS

--------------------------------------------------------------------------------
(* Sequences and positions *)

\* A sequence is over every set that holds its elements.
LEMMA SeqDomain ==
    ASSUME NEW s, IsSeq(s)
    PROVE  /\ Len(s) \in Nat /\ DOMAIN s = 1..Len(s)
           /\ \A S : Range(s) \subseteq S => s \in Seq(S)
<1>1. Len(s) \in Nat /\ DOMAIN s = 1..Len(s)
  BY LenProperties DEF IsSeq
<1>2. ASSUME NEW S, Range(s) \subseteq S PROVE s \in Seq(S)
  BY <1>2, SeqMonotonic DEF IsSeq
<1> QED
  BY <1>1, <1>2

\* A sequence over any set is one over its own elements.
LEMMA SomeSeq ==
    ASSUME NEW S, NEW s \in Seq(S)
    PROVE  IsSeq(s)
BY SeqOfRange DEF IsSeq

\* A function on 1..n is a sequence.
LEMMA FunctionSeq ==
    ASSUME NEW n \in Nat, NEW f, f = [i \in 1..n |-> f[i]]
    PROVE  IsSeq(f) /\ Len(f) = n /\ DOMAIN f = 1..n /\ Tuple(f) = f
<1>1. DOMAIN f = 1..n
  OBVIOUS
<1>2. \A i \in 1..n : f[i] \in Range(f)
  BY <1>1 DEF Range
<1>3. f \in [1..n -> Range(f)]
  BY <1>1, <1>2
<1>4. f \in Seq(Range(f))
  BY <1>3, SeqDef
<1>5. Len(f) = n
  BY <1>1, <1>4, LenProperties
<1>6. Tuple(f) = f
  BY <1>4, ConcatEmptySeq DEF Tuple
<1> QED
  BY <1>1, <1>4, <1>5, <1>6 DEF IsSeq

\* Two sequences of one length with the same elements are the same.
LEMMA SameSeq ==
    ASSUME NEW s, NEW t, IsSeq(s), IsSeq(t), Len(s) = Len(t),
           \A i \in 1..Len(s) : s[i] = t[i]
    PROVE  s = t
<1> DEFINE S == Range(s) \cup Range(t)
<1>1. s \in Seq(S) /\ t \in Seq(S)
  BY SeqDomain
<1> HIDE DEF S
<1> QED
  BY <1>1, SeqEqual

\* The elements of two sequences one after the other.
LEMMA Joining ==
    ASSUME NEW s, NEW t, IsSeq(s), IsSeq(t)
    PROVE  /\ IsSeq(s \o t)
           /\ Len(s \o t) = Len(s) + Len(t)
           /\ \A i \in 1..Len(s) : (s \o t)[i] = s[i]
           /\ \A i \in 1..Len(t) : (s \o t)[Len(s) + i] = t[i]
           /\ \A i \in Len(s)+1..Len(s) + Len(t) : (s \o t)[i] = t[i - Len(s)]
<1> DEFINE S == Range(s) \cup Range(t)
<1>1. s \in Seq(S) /\ t \in Seq(S)
  BY SeqDomain
<1>2. Len(s) \in Nat /\ Len(t) \in Nat
  BY SeqDomain
<1> HIDE DEF S
<1>3. /\ s \o t \in Seq(S)
      /\ Len(s \o t) = Len(s) + Len(t)
      /\ \A i \in 1 .. Len(s) + Len(t) : (s \o t)[i] =
                     IF i <= Len(s) THEN s[i] ELSE t[i - Len(s)]
  BY <1>1, ConcatProperties
<1>4. IsSeq(s \o t)
  BY <1>3, SomeSeq
<1> HIDE DEF IsSeq
<1>5. \A i \in 1..Len(s) : (s \o t)[i] = s[i]
  BY <1>2, <1>3
<1>6. \A i \in Len(s)+1..Len(s) + Len(t) : (s \o t)[i] = t[i - Len(s)]
  BY <1>2, <1>3
<1>7. ASSUME NEW i \in 1..Len(t) PROVE (s \o t)[Len(s) + i] = t[i]
  <2>1. Len(s) + i \in Len(s)+1..Len(s) + Len(t) /\ (Len(s) + i) - Len(s) = i
    BY <1>2
  <2> QED
    BY <2>1, <1>6
<1> QED
  BY <1>3, <1>4, <1>5, <1>6, <1>7

\* The elements of a part of a sequence.
LEMMA Cutting ==
    ASSUME NEW s, IsSeq(s), NEW a \in Int, NEW b \in Int, 1 <= a, b <= Len(s)
    PROVE  /\ IsSeq(SubSeq(s, a, b))
           /\ Len(SubSeq(s, a, b)) = IF a <= b THEN b - a + 1 ELSE 0
           /\ \A i \in 1..(b - a + 1) : SubSeq(s, a, b)[i] = s[a + i - 1]
<1>1. \A i \in a..b : s[i] \in Range(s)
  BY SeqDomain DEF Range
<1>2. /\ SubSeq(s,a,b) \in Seq(Range(s))
      /\ Len(SubSeq(s,a,b)) = IF a <= b THEN b-a+1 ELSE 0
      /\ \A i \in 1 .. b-a+1 : SubSeq(s,a,b)[i] = s[a+i-1]
  BY <1>1, SubSeqProperties
<1> QED
  BY <1>2, SomeSeq

\* A sequence of one element.
LEMMA Single ==
    ASSUME NEW x
    PROVE  IsSeq(<<x>>) /\ Len(<<x>>) = 1 /\ <<x>>[1] = x
<1>1. <<x>> \in Seq({x})
  OBVIOUS
<1> QED
  BY <1>1, SomeSeq

\* The empty sequence.
LEMMA EmptyIsSeq == IsSeq(<<>>) /\ Len(<<>>) = 0
BY EmptySeq, SomeSeq

\* The least and the greatest of a set of positions.
LEMMA Least ==
    ASSUME NEW S \in SUBSET Nat, S # {}
    PROVE  \E m \in S : \A n \in S : m <= n
<1>1. IsWellFoundedOn(OpToRel(<, Nat), Nat)
  BY NatLessThanWellFounded
<1>2. PICK m \in S : \A y \in Nat : <<y, m>> \in OpToRel(<, Nat) => y \notin S
  <2> HIDE DEF OpToRel
  <2> QED BY <1>1, WFMin
<1>3. \A n \in S : ~(n < m)
  BY <1>2 DEF OpToRel
<1> QED
  BY <1>3

\* The least of a set of numbers is in it.
LEMMA MinFacts ==
    ASSUME NEW S \in SUBSET Nat, S # {}
    PROVE  Min(S) \in S /\ \A n \in S : Min(S) <= n
<1>1. \E m \in S : \A n \in S : m <= n
  BY Least
<1> QED
  BY <1>1 DEF Min

\* The greatest of a bounded set of numbers is in it.
LEMMA MaxFacts ==
    ASSUME NEW S \in SUBSET Nat, S # {}, NEW b \in Nat, \A n \in S : n <= b
    PROVE  Max(S) \in S /\ \A n \in S : n <= Max(S)
<1> DEFINE T == {b - n : n \in S}
<1>1. T \in SUBSET Nat /\ T # {}
  <2>1. \A n \in S : b - n \in Nat
    OBVIOUS
  <2>2. T # {}
    OBVIOUS
  <2> QED
    BY <2>1, <2>2
<1>2. PICK m \in T : \A n \in T : m <= n
  BY <1>1, Least
<1>3. PICK k \in S : m = b - k
  OBVIOUS
<1>4. ASSUME NEW n \in S PROVE k >= n
  <2>1. b - k <= b - n
    BY <1>2, <1>3
  <2>2. k \in Nat /\ n \in Nat
    OBVIOUS
  <2> QED
    BY <2>1, <2>2
<1>5. \E x \in S : \A y \in S : x >= y
  BY <1>4
<1>6. Max(S) \in S /\ \A y \in S : Max(S) >= y
  BY <1>5 DEF Max
<1> QED
  BY <1>6

\* The last of a set of positions.
LEMMA LastOfFacts ==
    ASSUME NEW S \in SUBSET (Nat \ {0}), NEW b \in Nat, \A n \in S : n <= b
    PROVE  /\ LastOf(S) \in Nat
           /\ LastOf(S) = 0 <=> S = {}
           /\ S # {} => LastOf(S) \in S
           /\ \A n \in S : n <= LastOf(S)
<1>1. CASE S = {}
  BY <1>1 DEF LastOf
<1>2. CASE S # {}
  BY <1>2, MaxFacts DEF LastOf
<1> QED
  BY <1>1, <1>2

\* The first of a set of positions.
LEMMA FirstOfFacts ==
    ASSUME NEW S \in SUBSET (Nat \ {0})
    PROVE  /\ FirstOf(S) \in Nat
           /\ FirstOf(S) = 0 <=> S = {}
           /\ S # {} => FirstOf(S) \in S
           /\ \A n \in S : FirstOf(S) <= n
<1>1. CASE S = {}
  BY <1>1 DEF FirstOf
<1>2. CASE S # {}
  BY <1>2, MinFacts DEF FirstOf
<1> QED
  BY <1>1, <1>2

\* The elements of S up to i.
UpTo(S, i) == {j \in S : j <= i}

\* The positions of a finite set are counted off without a gap.
LEMMA Ranks ==
    ASSUME NEW S \in SUBSET (Nat \ {0}), IsFiniteSet(S)
    PROVE  /\ Cardinality(S) \in Nat
           /\ \A i \in S : Cardinality(UpTo(S, i)) \in 1..Cardinality(S)
           /\ \A i, j \in S : i < j => Cardinality(UpTo(S, i)) < Cardinality(UpTo(S, j))
           /\ \A n \in 1..Cardinality(S) : \E i \in S : Cardinality(UpTo(S, i)) = n
<1> DEFINE C == Cardinality(S)
<1>1. C \in Nat
  BY FS_CardinalityType
<1>2. ASSUME NEW i \in S PROVE Cardinality(UpTo(S, i)) \in 1..C /\ IsFiniteSet(UpTo(S, i))
  <2>1. UpTo(S, i) \in SUBSET S
    BY DEF UpTo
  <2>2. IsFiniteSet(UpTo(S, i)) /\ Cardinality(UpTo(S, i)) <= C
    BY <2>1, FS_Subset
  <2>3. i \in UpTo(S, i)
    BY DEF UpTo
  <2>4. Cardinality(UpTo(S, i)) # 0
    BY <2>2, <2>3, FS_EmptySet
  <2>5. Cardinality(UpTo(S, i)) \in Nat
    BY <2>2, FS_CardinalityType
  <2> HIDE DEF C
  <2> QED
    BY <1>1, <2>2, <2>4, <2>5
<1>3. ASSUME NEW i \in S, NEW j \in S, i < j
      PROVE  Cardinality(UpTo(S, i)) < Cardinality(UpTo(S, j))
  <2>1. UpTo(S, i) \in SUBSET UpTo(S, j)
    <3>1. i \in Nat /\ j \in Nat
      OBVIOUS
    <3>2. ASSUME NEW k \in S, k <= i PROVE k <= j
      <4>1. k \in Nat
        OBVIOUS
      <4> QED
        BY <1>3, <3>1, <3>2, <4>1
    <3> QED
      BY <3>2 DEF UpTo
  <2>2. j \in UpTo(S, j) /\ j \notin UpTo(S, i)
    BY <1>3 DEF UpTo
  <2>3. /\ Cardinality(UpTo(S, i)) <= Cardinality(UpTo(S, j))
        /\ Cardinality(UpTo(S, i)) # Cardinality(UpTo(S, j))
    BY <1>2, <2>1, <2>2, FS_Subset
  <2> HIDE DEF C
  <2> QED
    BY <1>1, <1>2, <2>3
<1> DEFINE f == [i \in S |-> Cardinality(UpTo(S, i))]
<1>4. f \in Injection(S, 1..C)
  <2>1. f \in [S -> 1..C]
    BY <1>2
  <2>2. ASSUME NEW i \in S, NEW j \in S, f[i] = f[j] PROVE i = j
    <3>1. ~(i < j) /\ ~(j < i)
      BY <1>1, <1>2, <1>3, <2>2
    <3> QED
      BY <3>1
  <2> QED
    BY <2>1, <2>2 DEF Injection, IsInjective
<1>5. IsFiniteSet(1..C) /\ Cardinality(1..C) = C
  BY <1>1, FS_Interval
<1>6. f \in Surjection(S, 1..C)
  BY <1>4, <1>5, FS_Injection
<1>7. \A n \in 1..C : \E i \in S : f[i] = n
  BY <1>6 DEF Surjection
<1> QED
  BY <1>1, <1>2, <1>3, <1>7

\* A finite set of positions in its order: each of them once, the n-th with n
\* up to it.
LEMMA AscendingFacts ==
    ASSUME NEW S \in SUBSET (Nat \ {0}), IsFiniteSet(S)
    PROVE  /\ IsSeq(Ascending(S))
           /\ Len(Ascending(S)) = Cardinality(S) /\ Cardinality(S) \in Nat
           /\ DOMAIN Ascending(S) = 1..Cardinality(S)
           /\ \A n \in 1..Cardinality(S) : Ascending(S)[n] \in S
           /\ \A n \in 1..Cardinality(S) : Cardinality(UpTo(S, Ascending(S)[n])) = n
           /\ \A m, n \in 1..Cardinality(S) : m < n => Ascending(S)[m] < Ascending(S)[n]
           /\ \A i \in S : \E n \in 1..Cardinality(S) : Ascending(S)[n] = i
<1> DEFINE C == Cardinality(S)
           A == [n \in 1..C |-> CHOOSE i \in S : Cardinality({j \in S : j <= i}) = n]
<1>1. /\ C \in Nat
      /\ \A i \in S : Cardinality(UpTo(S, i)) \in 1..C
      /\ \A i, j \in S : i < j => Cardinality(UpTo(S, i)) < Cardinality(UpTo(S, j))
      /\ \A n \in 1..C : \E i \in S : Cardinality(UpTo(S, i)) = n
  BY Ranks
<1>2. ASSUME NEW n \in 1..C
      PROVE  A[n] \in S /\ Cardinality(UpTo(S, A[n])) = n
  BY <1>1 DEF UpTo
<1>3. A = [n \in 1..C |-> A[n]]
  OBVIOUS
<1>3a. Ascending(S) = Tuple(A)
  BY DEF Ascending
<1> HIDE DEF A
<1>4. IsSeq(A) /\ Len(A) = C /\ DOMAIN A = 1..C /\ Ascending(S) = A
  BY <1>1, <1>3, <1>3a, FunctionSeq
<1>5. ASSUME NEW m \in 1..C, NEW n \in 1..C, m < n PROVE A[m] < A[n]
  <2>1. A[m] \in Nat /\ A[n] \in Nat
    BY <1>2
  <2>2. CASE A[n] = A[m]
    BY <1>2, <1>5, <2>2
  <2>3. CASE A[n] < A[m]
    <3>1. Cardinality(UpTo(S, A[n])) < Cardinality(UpTo(S, A[m]))
      BY <1>1, <1>2, <2>3
    <3> QED
      BY <1>2, <1>5, <3>1
  <2> QED
    BY <2>1, <2>2, <2>3
<1>6. ASSUME NEW i \in S PROVE \E n \in 1..C : A[n] = i
  <2> DEFINE r == Cardinality(UpTo(S, i))
  <2>1. r \in 1..C
    BY <1>1
  <2>2. A[r] \in S /\ Cardinality(UpTo(S, A[r])) = r
    BY <1>2, <2>1
  <2> HIDE DEF r
  <2>3. ~(A[r] < i)
    <3>1. ASSUME A[r] < i PROVE FALSE
      <4>1. Cardinality(UpTo(S, A[r])) < Cardinality(UpTo(S, i))
        BY <1>1, <2>2, <3>1
      <4> QED
        BY <1>1, <2>1, <2>2, <4>1 DEF r
    <3> QED
      BY <3>1
  <2>4. ~(i < A[r])
    <3>1. ASSUME i < A[r] PROVE FALSE
      <4>1. Cardinality(UpTo(S, i)) < Cardinality(UpTo(S, A[r]))
        BY <1>1, <2>2, <3>1
      <4> QED
        BY <1>1, <2>1, <2>2, <4>1 DEF r
    <3> QED
      BY <3>1
  <2>5. A[r] \in Nat /\ i \in Nat
    BY <2>2
  <2>6. A[r] = i
    BY <2>3, <2>4, <2>5
  <2> QED
    BY <2>1, <2>6
<1> QED
  BY <1>1, <1>2, <1>4, <1>5, <1>6

--------------------------------------------------------------------------------
(* The edit that is sent to the editor *)

\* The lesser of two numbers.
LEMMA MinOfTwo ==
    ASSUME NEW a \in Nat, NEW b \in Nat
    PROVE  Min({a, b}) = IF a <= b THEN a ELSE b
<1>1. Min({a, b}) \in {a, b} /\ \A n \in {a, b} : Min({a, b}) <= n
  BY MinFacts
<1> QED
  BY <1>1

\* minimalEdit: what two texts have in common at the start.
LEMMA PrefixFacts ==
    ASSUME NEW a, NEW b, IsSeq(a), IsSeq(b)
    PROVE  /\ CommonPrefix(a, b) \in 0..Min({Len(a), Len(b)})
           /\ SubSeq(a, 1, CommonPrefix(a, b)) = SubSeq(b, 1, CommonPrefix(a, b))
<1> DEFINE S == {n \in 0..Min({Len(a), Len(b)}) : SubSeq(a, 1, n) = SubSeq(b, 1, n)}
<1>1. Len(a) \in Nat /\ Len(b) \in Nat
  BY SeqDomain
<1>2. Min({Len(a), Len(b)}) \in Nat
  BY <1>1, MinOfTwo
<1>3. SubSeq(a, 1, 0) = <<>> /\ SubSeq(b, 1, 0) = <<>>
  BY SubSeqEmpty
<1>4. S # {} /\ S \in SUBSET Nat /\ \A n \in S : n <= Min({Len(a), Len(b)})
  <2>1. 0 \in S
    BY <1>2, <1>3
  <2> QED
    BY <1>2, <2>1
<1>5. Max(S) \in S
  BY <1>2, <1>4, MaxFacts
<1> QED
  BY <1>5 DEF CommonPrefix

\* minimalEdit: what they have in common at the end, behind the common start.
LEMMA SuffixFacts ==
    ASSUME NEW a, NEW b, IsSeq(a), IsSeq(b), NEW p \in 0..Min({Len(a), Len(b)})
    PROVE  /\ CommonSuffix(a, b, p) \in 0..(Min({Len(a), Len(b)}) - p)
           /\ SubSeq(a, Len(a) - CommonSuffix(a, b, p) + 1, Len(a))
                = SubSeq(b, Len(b) - CommonSuffix(a, b, p) + 1, Len(b))
<1> DEFINE S == {n \in 0..(Min({Len(a), Len(b)}) - p) :
                   SubSeq(a, Len(a) - n + 1, Len(a)) = SubSeq(b, Len(b) - n + 1, Len(b))}
<1>1. Len(a) \in Nat /\ Len(b) \in Nat
  BY SeqDomain
<1>2. Min({Len(a), Len(b)}) \in Nat /\ Min({Len(a), Len(b)}) - p \in Nat
  BY <1>1, MinOfTwo
<1>3. SubSeq(a, Len(a) - 0 + 1, Len(a)) = <<>> /\ SubSeq(b, Len(b) - 0 + 1, Len(b)) = <<>>
  BY <1>1, SubSeqEmpty
<1>4. S # {} /\ S \in SUBSET Nat /\ \A n \in S : n <= Min({Len(a), Len(b)}) - p
  <2>1. 0 \in S
    BY <1>2, <1>3
  <2> QED
    BY <1>2, <2>1
<1>5. Max(S) \in S
  BY <1>2, <1>4, MaxFacts
<1> QED
  BY <1>5 DEF CommonSuffix

\* A sequence is what is before two cuts, between them and after them.
LEMMA ThreeParts ==
    ASSUME NEW s, IsSeq(s), NEW p \in Nat, NEW q \in Nat, p <= q, q <= Len(s)
    PROVE  SubSeq(s, 1, p) \o SubSeq(s, p + 1, q) \o SubSeq(s, q + 1, Len(s)) = s
<1>1. s \in Seq(Range(s)) /\ Len(s) \in Nat
  BY SeqDomain DEF IsSeq
<1>2. SubSeq(s, 1, p) \o SubSeq(s, p + 1, q) = SubSeq(s, 1, q)
  BY <1>1, ConcatAdjacentSubSeq
<1>3. SubSeq(s, 1, q) \o SubSeq(s, q + 1, Len(s)) = SubSeq(s, 1, Len(s))
  <2>1. 1 \in 1..Len(s)+1 /\ q \in 1-1..Len(s) /\ Len(s) \in q..Len(s)
    BY <1>1
  <2> QED
    BY <1>1, <2>1, ConcatAdjacentSubSeq
<1>4. SubSeq(s, 1, Len(s)) = s
  BY <1>1, SubSeqFull
<1> QED
  BY <1>2, <1>3, <1>4

\* minimalEdit: the range lies in the old text, the lines are of the new one.
LEMMA EditShape ==
    ASSUME NEW old, NEW new, IsSeq(old), IsSeq(new)
    PROVE  LET e == MinimalEdit(old, new) IN
           /\ e.from \in Nat /\ e.to \in Nat /\ e.from <= e.to /\ e.to <= Len(old)
           /\ IsSeq(e.insert) /\ Range(e.insert) \subseteq Range(new)
<1> DEFINE p == CommonPrefix(old, new)
           k == CommonSuffix(old, new, p)
<1>1. Len(old) \in Nat /\ Len(new) \in Nat
  BY SeqDomain
<1>2. p \in 0..Min({Len(old), Len(new)})
  BY PrefixFacts
<1>3. k \in 0..(Min({Len(old), Len(new)}) - p)
  BY <1>2, SuffixFacts
<1>4. MinimalEdit(old, new) = [from |-> p, to |-> Len(old) - k,
                               insert |-> SubSeq(new, p + 1, Len(new) - k)]
  BY DEF MinimalEdit
<1> HIDE DEF p, k
<1>5. p \in Nat /\ k \in Nat /\ p + k <= Len(old) /\ p + k <= Len(new)
  BY <1>1, <1>2, <1>3, MinOfTwo
<1>6. /\ IsSeq(SubSeq(new, p + 1, Len(new) - k))
      /\ Len(SubSeq(new, p + 1, Len(new) - k)) = Len(new) - k - p
      /\ \A i \in 1..(Len(new) - k - p) : SubSeq(new, p + 1, Len(new) - k)[i] = new[p + i]
  <2>1. p + 1 \in Int /\ Len(new) - k \in Int /\ 1 <= p + 1 /\ Len(new) - k <= Len(new)
    BY <1>1, <1>5
  <2>2. /\ IsSeq(SubSeq(new, p + 1, Len(new) - k))
        /\ Len(SubSeq(new, p + 1, Len(new) - k)) =
             IF p + 1 <= Len(new) - k THEN (Len(new) - k) - (p + 1) + 1 ELSE 0
        /\ \A i \in 1..((Len(new) - k) - (p + 1) + 1) :
              SubSeq(new, p + 1, Len(new) - k)[i] = new[(p + 1) + i - 1]
    BY <2>1, Cutting
  <2> DEFINE m == Len(new)
  <2>3. /\ m \in Nat /\ p \in Nat /\ k \in Nat /\ p + k <= m
    BY <1>1, <1>5
  <2>4. (IF p + 1 <= m - k THEN (m - k) - (p + 1) + 1 ELSE 0) = m - k - p
    <3> HIDE DEF p, k, m
    <3> QED
      BY <2>3
  <2>5. \A i \in 1..(m - k - p) : i \in 1..((m - k) - (p + 1) + 1) /\ (p + 1) + i - 1 = p + i
    <3> HIDE DEF p, k, m
    <3> QED
      BY <2>3
  <2> QED
    BY <2>2, <2>4, <2>5
<1>7. Range(SubSeq(new, p + 1, Len(new) - k)) \subseteq Range(new)
  <2>1. DOMAIN SubSeq(new, p + 1, Len(new) - k) = 1..(Len(new) - k - p)
    BY <1>6, SeqDomain
  <2>2. \A i \in 1..(Len(new) - k - p) : p + i \in 1..Len(new)
    BY <1>1, <1>5
  <2> QED
    BY <1>6, <2>1, <2>2, SeqDomain DEF Range
<1> QED
  BY <1>1, <1>4, <1>5, <1>6, <1>7

\* minimalEdit is right: on the text it was computed from the editor makes the text it
\* was computed for.
THEOREM MinimalEditIsRight ==
    ASSUME NEW old, NEW new, IsSeq(old), IsSeq(new)
    PROVE  /\ InRange(old, MinimalEdit(old, new))
           /\ ReplaceRange(old, MinimalEdit(old, new)) = new
<1> DEFINE p == CommonPrefix(old, new)
           k == CommonSuffix(old, new, p)
<1>1. Len(old) \in Nat /\ Len(new) \in Nat
  BY SeqDomain
<1>2. p \in 0..Min({Len(old), Len(new)}) /\ SubSeq(old, 1, p) = SubSeq(new, 1, p)
  BY PrefixFacts
<1>3. /\ k \in 0..(Min({Len(old), Len(new)}) - p)
      /\ SubSeq(old, Len(old) - k + 1, Len(old)) = SubSeq(new, Len(new) - k + 1, Len(new))
  BY <1>2, SuffixFacts
<1>4. MinimalEdit(old, new) = [from |-> p, to |-> Len(old) - k,
                               insert |-> SubSeq(new, p + 1, Len(new) - k)]
  BY DEF MinimalEdit
<1> HIDE DEF p, k
<1>5. p \in Nat /\ k \in Nat /\ p + k <= Len(old) /\ p + k <= Len(new)
  BY <1>1, <1>2, <1>3, MinOfTwo
<1>6. ReplaceRange(old, MinimalEdit(old, new))
        = SubSeq(new, 1, p) \o SubSeq(new, p + 1, Len(new) - k)
            \o SubSeq(new, (Len(new) - k) + 1, Len(new))
  <2> DEFINE e == MinimalEdit(old, new)
  <2>1. e.from = p /\ e.to = Len(old) - k /\ e.insert = SubSeq(new, p + 1, Len(new) - k)
    BY <1>1, <1>4, <1>5
  <2> HIDE DEF e
  <2> QED
    BY <1>2, <1>3, <2>1 DEF ReplaceRange, e
<1>7. ReplaceRange(old, MinimalEdit(old, new)) = new
  <2>1. Len(new) - k \in Nat /\ p <= Len(new) - k /\ Len(new) - k <= Len(new)
    BY <1>1, <1>5
  <2> QED
    BY <1>5, <1>6, <2>1, ThreeParts
<1>8. InRange(old, MinimalEdit(old, new))
  BY <1>1, <1>4, <1>5 DEF InRange
<1> QED
  BY <1>7, <1>8

\* Whatever text a replacement meets, the lines of the result are lines of that text and
\* of the new one.
LEMMA Replacing ==
    ASSUME NEW page, NEW old, NEW new, IsSeq(page), IsSeq(old), IsSeq(new),
           InRange(page, MinimalEdit(old, new))
    PROVE  /\ IsSeq(ReplaceRange(page, MinimalEdit(old, new)))
           /\ Range(ReplaceRange(page, MinimalEdit(old, new))) \subseteq Range(page) \cup Range(new)
<1> DEFINE e == MinimalEdit(old, new)
<1>1. /\ e.from \in Nat /\ e.to \in Nat /\ e.from <= e.to /\ e.to <= Len(page)
      /\ IsSeq(e.insert) /\ Range(e.insert) \subseteq Range(new)
  BY EditShape DEF InRange
<1>2. Len(page) \in Nat /\ DOMAIN page = 1..Len(page)
  BY SeqDomain
<1> HIDE DEF e
<1> DEFINE S == Range(page) \cup Range(new)
<1>3. SubSeq(page, 1, e.from) \in Seq(S)
  <2>1. \A i \in 1..e.from : page[i] \in S
    BY <1>1, <1>2 DEF Range
  <2> QED
    BY <1>1, <2>1, SubSeqProperties
<1>4. SubSeq(page, e.to + 1, Len(page)) \in Seq(S)
  <2>1. \A i \in (e.to + 1)..Len(page) : page[i] \in S
    BY <1>1, <1>2 DEF Range
  <2> QED
    BY <1>1, <1>2, <2>1, SubSeqProperties
<1>5. e.insert \in Seq(S)
  BY <1>1, SeqDomain
<1> HIDE DEF S
<1>6. ReplaceRange(page, e) \in Seq(S)
  BY <1>3, <1>4, <1>5, ConcatProperties DEF ReplaceRange
<1>7. IsSeq(ReplaceRange(page, e)) /\ Range(ReplaceRange(page, e)) \subseteq S
  BY <1>6, SomeSeq, RangeOfSeq
<1> QED
  BY <1>7 DEF S, e

--------------------------------------------------------------------------------
(* Markers and preamble *)

\* computeUnits: what the lines before the first unit are.
LEMMA PreambleFacts ==
    ASSUME NEW lines, IsSeq(lines)
    PROVE  /\ PreambleEnd(lines) \in 0..Len(lines)
           /\ \A j \in 1..PreambleEnd(lines) : IsBlank(lines[j]) \/ lines[j].kind = "doc"
           /\ \A i \in 1..Len(lines) :
                (lines[i].kind = "doc" /\ \A j \in 1..i : IsBlank(lines[j]) \/ lines[j].kind = "doc")
                  => i <= PreambleEnd(lines)
           /\ PreambleEnd(lines) # 0 => lines[PreambleEnd(lines)].kind = "doc"
<1> DEFINE S == {i \in DOMAIN lines :
                   /\ lines[i].kind = "doc"
                   /\ \A j \in 1..i : IsBlank(lines[j]) \/ lines[j].kind = "doc"}
<1>1. Len(lines) \in Nat /\ DOMAIN lines = 1..Len(lines)
  BY SeqDomain
<1>2. S \in SUBSET (Nat \ {0}) /\ \A n \in S : n <= Len(lines)
  BY <1>1
<1>3. PreambleEnd(lines) = LastOf(S)
  BY DEF PreambleEnd
<1>4. /\ LastOf(S) \in Nat
      /\ LastOf(S) = 0 <=> S = {}
      /\ S # {} => LastOf(S) \in S
      /\ \A n \in S : n <= LastOf(S)
  BY <1>1, <1>2, LastOfFacts
<1>5. CASE S = {}
  <2>1. PreambleEnd(lines) = 0
    BY <1>3, <1>4, <1>5
  <2>2. ASSUME NEW i \in 1..Len(lines), lines[i].kind = "doc",
               \A j \in 1..i : IsBlank(lines[j]) \/ lines[j].kind = "doc"
        PROVE  FALSE
    <3>1. i \in S
      BY <1>1, <2>2
    <3> QED
      BY <1>5, <3>1
  <2> QED
    BY <1>1, <2>1, <2>2
<1>6. CASE S # {}
  <2> DEFINE p == LastOf(S)
  <2>1. p \in S /\ \A n \in S : n <= p
    BY <1>4, <1>6
  <2> HIDE DEF p
  <2>2. p \in 1..Len(lines) /\ lines[p].kind = "doc"
    BY <1>1, <2>1
  <2>3. \A j \in 1..p : IsBlank(lines[j]) \/ lines[j].kind = "doc"
    BY <2>1
  <2>4. \A i \in 1..Len(lines) :
           (lines[i].kind = "doc" /\ \A j \in 1..i : IsBlank(lines[j]) \/ lines[j].kind = "doc")
             => i <= p
    BY <1>1, <2>1
  <2> QED
    BY <1>1, <1>3, <2>2, <2>3, <2>4 DEF p
<1> QED
  BY <1>5, <1>6

IsMarker(l) == l.kind \in {"open", "close"}

\* The last marker above a line, if it opens a group.
LEMMA GroupLineFacts ==
    ASSUME NEW lines, IsSeq(lines), NEW i \in 1..(Len(lines) + 1)
    PROVE  /\ GroupLine(lines, i) \in 0..(i - 1)
           /\ GroupLine(lines, i) # 0 =>
                /\ lines[GroupLine(lines, i)].kind = "open"
                /\ \A k \in (GroupLine(lines, i) + 1)..(i - 1) : ~IsMarker(lines[k])
           /\ GroupLine(lines, i) = 0 =>
                \A o \in 1..(i - 1) : lines[o].kind = "open" =>
                   \E c \in (o + 1)..(i - 1) : lines[c].kind = "close"
<1> DEFINE S == {j \in 1..(i - 1) : lines[j].kind \in {"open", "close"}}
           g == LastOf(S)
<1>1. Len(lines) \in Nat /\ DOMAIN lines = 1..Len(lines)
  BY SeqDomain
<1>2. S \in SUBSET (Nat \ {0}) /\ \A n \in S : n <= i - 1
  BY <1>1
<1>3. /\ g \in Nat
      /\ g = 0 <=> S = {}
      /\ S # {} => g \in S
      /\ \A n \in S : n <= g
  <2>1. i - 1 \in Nat
    BY <1>1
  <2> QED
    BY <1>2, <2>1, LastOfFacts
<1>4. GroupLine(lines, i) = IF g > 0 /\ lines[g].kind = "open" THEN g ELSE 0
  BY DEF GroupLine
<1> HIDE DEF g
<1>5. \A k \in 1..(i - 1) : IsMarker(lines[k]) => k <= g
  BY <1>3 DEF IsMarker
<1>6. CASE g > 0 /\ lines[g].kind = "open"
  <2>1. g \in S
    BY <1>3, <1>6
  <2>2. \A k \in (g + 1)..(i - 1) : ~IsMarker(lines[k])
    BY <1>3, <1>5
  <2> QED
    BY <1>4, <1>6, <2>1, <2>2
<1>7. CASE ~(g > 0 /\ lines[g].kind = "open")
  <2>1. GroupLine(lines, i) = 0
    BY <1>4, <1>7
  <2>2. ASSUME NEW o \in 1..(i - 1), lines[o].kind = "open"
        PROVE  \E c \in (o + 1)..(i - 1) : lines[c].kind = "close"
    <3>1. o \in S
      BY <2>2
    <3>2. g \in S /\ o <= g /\ g > 0
      BY <1>3, <3>1
    <3>3. lines[g].kind = "close" /\ g # o
      BY <1>7, <2>2, <3>2
    <3>4. g \in (o + 1)..(i - 1)
      BY <3>2, <3>3
    <3> QED
      BY <3>3, <3>4
  <2> QED
    BY <1>1, <2>1, <2>2
<1> QED
  BY <1>6, <1>7

\* The scan is inside a group where the last marker opens one.
LEMMA InGroupIff ==
    ASSUME NEW lines, IsSeq(lines), NEW i \in 1..(Len(lines) + 1)
    PROVE  InGroup(lines, i) <=> GroupLine(lines, i) # 0
<1> DEFINE g == GroupLine(lines, i)
           pe == PreambleEnd(lines)
<1>1. /\ g \in 0..(i - 1)
      /\ g # 0 => /\ lines[g].kind = "open"
                  /\ \A k \in (g + 1)..(i - 1) : ~IsMarker(lines[k])
      /\ g = 0 => \A o \in 1..(i - 1) : lines[o].kind = "open" =>
                     \E c \in (o + 1)..(i - 1) : lines[c].kind = "close"
  BY GroupLineFacts
<1>2. /\ pe \in 0..Len(lines) /\ Len(lines) \in Nat
      /\ \A j \in 1..pe : IsBlank(lines[j]) \/ lines[j].kind = "doc"
  BY PreambleFacts, SeqDomain
<1> HIDE DEF g
<1>3. ASSUME g # 0 PROVE InGroup(lines, i)
  <2>1. ~(g <= pe)
    BY <1>1, <1>2, <1>3 DEF IsBlank
  <2>2. g \in (pe + 1)..(i - 1)
    BY <1>1, <1>2, <1>3, <2>1
  <2>3. \A k \in g..(i - 1) : lines[k].kind # "close"
    BY <1>1, <1>3 DEF IsMarker
  <2> QED
    BY <1>1, <1>3, <2>2, <2>3 DEF InGroup
<1>4. ASSUME InGroup(lines, i) PROVE g # 0
  <2>1. PICK j \in (pe + 1)..(i - 1) :
           lines[j].kind = "open" /\ \A k \in j..(i - 1) : lines[k].kind # "close"
    BY <1>4 DEF InGroup
  <2>2. j \in 1..(i - 1)
    BY <1>2
  <2>3. ASSUME g = 0 PROVE FALSE
    <3>1. PICK c \in (j + 1)..(i - 1) : lines[c].kind = "close"
      BY <1>1, <2>1, <2>2, <2>3
    <3>2. c \in j..(i - 1)
      BY <2>2
    <3> QED
      BY <2>1, <3>1, <3>2
  <2> QED
    BY <2>3
<1> QED
  BY <1>3, <1>4 DEF g

\* Where markers alternate, a group opens outside of groups and closes inside one, and
\* nothing but its closing marker ends it.
LEMMA PairedFacts ==
    ASSUME NEW lines, IsSeq(lines), Paired(lines), NEW i \in 1..Len(lines)
    PROVE  /\ lines[i].kind = "open" => GroupLine(lines, i) = 0
           /\ lines[i].kind = "close" => GroupLine(lines, i) # 0
           /\ GroupLine(lines, i) # 0 => \E c \in i..Len(lines) :
                /\ lines[c].kind = "close"
                /\ \A k \in (GroupLine(lines, i) + 1)..(c - 1) : ~IsMarker(lines[k])
           /\ lines[i].kind = "open" => \E c \in (i + 1)..Len(lines) :
                /\ lines[c].kind = "close"
                /\ \A k \in (i + 1)..(c - 1) : ~IsMarker(lines[k])
<1>1. Len(lines) \in Nat /\ DOMAIN lines = 1..Len(lines)
  BY SeqDomain
<1> DEFINE g == GroupLine(lines, i)
<1>2. /\ g \in 0..(i - 1)
      /\ g # 0 => /\ lines[g].kind = "open"
                  /\ \A k \in (g + 1)..(i - 1) : ~IsMarker(lines[k])
      /\ g = 0 => \A o \in 1..(i - 1) : lines[o].kind = "open" =>
                     \E c \in (o + 1)..(i - 1) : lines[c].kind = "close"
  BY <1>1, GroupLineFacts
<1> HIDE DEF g
<1>3. ASSUME NEW o \in 1..Len(lines), lines[o].kind = "open"
      PROVE  \E c \in (o + 1)..Len(lines) :
                /\ lines[c].kind = "close"
                /\ \A k \in (o + 1)..(c - 1) : ~IsMarker(lines[k])
  <2>1. o \in Markers(lines)
    BY <1>1, <1>3 DEF Markers
  <2>2. PICK c \in Markers(lines) : /\ o < c /\ lines[c].kind = "close"
                                    /\ \A k \in Markers(lines) : k <= o \/ c <= k
    BY <1>3, <2>1 DEF Paired
  <2>3. c \in (o + 1)..Len(lines)
    BY <1>1, <2>2 DEF Markers
  <2>4. ASSUME NEW k \in (o + 1)..(c - 1), IsMarker(lines[k]) PROVE FALSE
    <3>1. k \in Markers(lines)
      BY <1>1, <2>3, <2>4 DEF Markers, IsMarker
    <3> QED
      BY <2>2, <2>3, <3>1
  <2> QED
    BY <2>2, <2>3, <2>4
<1>4. ASSUME g # 0
      PROVE  /\ lines[i].kind # "open"
             /\ \E c \in i..Len(lines) :
                  /\ lines[c].kind = "close"
                  /\ \A k \in (g + 1)..(c - 1) : ~IsMarker(lines[k])
  <2>1. g \in 1..Len(lines) /\ g < i
    BY <1>1, <1>2, <1>4
  <2>2. PICK c \in (g + 1)..Len(lines) : /\ lines[c].kind = "close"
                                         /\ \A k \in (g + 1)..(c - 1) : ~IsMarker(lines[k])
    BY <1>2, <1>3, <1>4, <2>1
  <2>3. ~(c < i)
    <3>1. IsMarker(lines[c])
      BY <2>2 DEF IsMarker
    <3> QED
      BY <1>1, <1>2, <1>4, <2>1, <3>1
  <2>4. lines[i].kind # "open"
    <3>1. CASE c = i
      BY <2>2, <3>1
    <3>2. CASE i < c
      <4>1. i \in (g + 1)..(c - 1)
        BY <1>1, <2>1, <3>2
      <4> QED
        BY <2>2, <4>1 DEF IsMarker
    <3> QED
      BY <1>1, <2>3, <3>1, <3>2
  <2>5. c \in i..Len(lines)
    BY <1>1, <2>1, <2>3
  <2> QED
    BY <2>2, <2>4, <2>5
<1>5. ASSUME lines[i].kind = "close" PROVE g # 0
  <2>1. i \in Markers(lines)
    BY <1>1, <1>5 DEF Markers
  <2>2. PICK o \in Markers(lines) : /\ o < i /\ lines[o].kind = "open"
                                    /\ \A k \in Markers(lines) : k <= o \/ i <= k
    BY <1>5, <2>1 DEF Paired
  <2>3. o \in 1..(i - 1)
    BY <1>1, <2>2 DEF Markers
  <2>4. ASSUME g = 0 PROVE FALSE
    <3>1. PICK c \in (o + 1)..(i - 1) : lines[c].kind = "close"
      BY <1>2, <2>2, <2>3, <2>4
    <3>2. c \in Markers(lines) /\ o < c /\ c < i
      BY <1>1, <2>3, <3>1 DEF Markers
    <3>3. c \in Nat /\ o \in Nat
      BY <2>3
    <3> QED
      BY <1>1, <2>2, <3>2, <3>3
  <2> QED
    BY <2>4
<1>6. lines[i].kind = "open" => g = 0
  BY <1>4
<1> QED
  BY <1>3, <1>4, <1>5, <1>6 DEF g

--------------------------------------------------------------------------------
(* The units of a text whose markers alternate *)

\* computeUnits: the lines a unit starts at, said with the groups as
\* parseAtoms sees them.
LEMMA StartFacts ==
    ASSUME NEW lines, IsSeq(lines)
    PROVE  /\ UnitStarts(lines) \in SUBSET (Nat \ {0}) /\ IsFiniteSet(UnitStarts(lines))
           /\ \A s \in UnitStarts(lines) :
                /\ s \in (PreambleEnd(lines) + 1)..Len(lines) /\ s \in 1..Len(lines)
                /\ ~IsBlank(lines[s])
                /\ GroupLine(lines, s) = 0
                /\ LooksLikeDirectiveLine(lines[s]) \/ UnitEndsAbove(lines, s)
           /\ \A s \in (PreambleEnd(lines) + 1)..Len(lines) :
                (/\ ~IsBlank(lines[s])
                 /\ GroupLine(lines, s) = 0
                 /\ LooksLikeDirectiveLine(lines[s]) \/ UnitEndsAbove(lines, s))
                  => s \in UnitStarts(lines)
<1>1. PreambleEnd(lines) \in 0..Len(lines) /\ Len(lines) \in Nat
  BY PreambleFacts, SeqDomain
<1>2. \A s \in (PreambleEnd(lines) + 1)..Len(lines) : s \in 1..Len(lines) /\ s \in 1..(Len(lines) + 1)
  BY <1>1
<1>3. \A s \in 1..(Len(lines) + 1) : InGroup(lines, s) <=> GroupLine(lines, s) # 0
  BY InGroupIff
<1>4. UnitStarts(lines) \subseteq 1..Len(lines)
  BY <1>2 DEF UnitStarts
<1>5. IsFiniteSet(UnitStarts(lines))
  <2>1. IsFiniteSet(1..Len(lines))
    BY <1>1, FS_Interval
  <2> QED
    BY <1>4, <2>1, FS_Subset
<1>6. UnitStarts(lines) \in SUBSET (Nat \ {0})
  BY <1>1, <1>4
<1>7. ASSUME NEW s \in UnitStarts(lines)
      PROVE  /\ s \in (PreambleEnd(lines) + 1)..Len(lines) /\ s \in 1..Len(lines)
             /\ ~IsBlank(lines[s])
             /\ GroupLine(lines, s) = 0
             /\ LooksLikeDirectiveLine(lines[s]) \/ UnitEndsAbove(lines, s)
  BY <1>2, <1>3 DEF UnitStarts
<1>8. ASSUME NEW s \in (PreambleEnd(lines) + 1)..Len(lines),
             ~IsBlank(lines[s]), GroupLine(lines, s) = 0,
             LooksLikeDirectiveLine(lines[s]) \/ UnitEndsAbove(lines, s)
      PROVE  s \in UnitStarts(lines)
  BY <1>2, <1>3, <1>8 DEF UnitStarts
<1> QED
  BY <1>5, <1>6, <1>7, <1>8

\* Where a unit that is no group ends.
LEMMA PlainEnd ==
    ASSUME NEW lines, IsSeq(lines), NEW i \in 1..Len(lines), lines[i].kind # "open"
    PROVE  /\ UnitEnd(lines, i) \in i..Len(lines)
           /\ \A k \in (i + 1)..UnitEnd(lines, i) : ~IsBoundary(lines[k])
           /\ UnitEnd(lines, i) < Len(lines) => IsBoundary(lines[UnitEnd(lines, i) + 1])
           /\ \A j \in i..Len(lines) : (\A k \in (i + 1)..j : ~IsBoundary(lines[k])) =>
                                         j <= UnitEnd(lines, i)
<1> DEFINE S == {j \in i..Len(lines) : \A k \in (i + 1)..j : ~IsBoundary(lines[k])}
           e == Max(S)
<1>1. Len(lines) \in Nat
  BY SeqDomain
<1>2. i \in S
  BY <1>1
<1>3. S \in SUBSET Nat /\ \A n \in S : n <= Len(lines)
  BY <1>1
<1>4. e \in S /\ \A n \in S : n <= e
  BY <1>1, <1>2, <1>3, MaxFacts
<1>5. UnitEnd(lines, i) = e
  BY DEF UnitEnd
<1> HIDE DEF e
<1>6. ASSUME e < Len(lines), ~IsBoundary(lines[e + 1]) PROVE FALSE
  <2>1. e + 1 \in i..Len(lines)
    BY <1>1, <1>4, <1>6
  <2>2. \A k \in (i + 1)..(e + 1) : k \in (i + 1)..e \/ k = e + 1
    BY <1>1, <1>4
  <2>3. e + 1 \in S
    BY <1>4, <1>6, <2>1, <2>2
  <2> QED
    BY <1>4, <2>1, <2>3
<1> QED
  BY <1>4, <1>5, <1>6

\* Where a group ends that has a closing marker.
LEMMA GroupEnd ==
    ASSUME NEW lines, IsSeq(lines), NEW i \in 1..Len(lines), lines[i].kind = "open",
           NEW c \in (i + 1)..Len(lines), lines[c].kind = "close",
           \A k \in (i + 1)..(c - 1) : ~IsMarker(lines[k])
    PROVE  UnitEnd(lines, i) = c
<1> DEFINE S == {j \in i..Len(lines) : lines[j].kind = "close"}
<1>1. Len(lines) \in Nat
  BY SeqDomain
<1>2. c \in S /\ S \in SUBSET Nat
  BY <1>1
<1>3. Min(S) \in S /\ \A n \in S : Min(S) <= n
  BY <1>2, MinFacts
<1>4. UnitEnd(lines, i) = Min(S)
  BY <1>2 DEF UnitEnd
<1>5. ASSUME NEW n \in S, n < c PROVE FALSE
  <2>1. n # i
    BY <1>5
  <2>2. n \in (i + 1)..(c - 1)
    BY <1>1, <1>5, <2>1
  <2> QED
    BY <1>5, <2>2 DEF IsMarker
<1>6. Min(S) = c
  <2>1. Min(S) \in Nat /\ c \in Nat /\ Min(S) <= c /\ ~(Min(S) < c)
    BY <1>2, <1>3, <1>5
  <2> QED
    BY <2>1
<1> QED
  BY <1>4, <1>6

\* computeUnits: where a unit ends, in a page whose markers are in pairs.
LEMMA UnitFacts ==
    ASSUME NEW lines, IsSeq(lines), Paired(lines), NEW s \in UnitStarts(lines)
    PROVE  /\ s \in 1..Len(lines) /\ PreambleEnd(lines) < s
           /\ ~IsBlank(lines[s]) /\ lines[s].kind # "close"
           /\ UnitEnd(lines, s) \in s..Len(lines)
           /\ ~IsBlank(lines[UnitEnd(lines, s)])
           /\ lines[s].kind = "open" =>
                /\ s < UnitEnd(lines, s)
                /\ lines[UnitEnd(lines, s)].kind = "close"
                /\ \A k \in (s + 1)..(UnitEnd(lines, s) - 1) : ~IsMarker(lines[k])
           /\ lines[s].kind # "open" =>
                /\ \A k \in (s + 1)..UnitEnd(lines, s) : ~IsBoundary(lines[k])
                /\ UnitEnd(lines, s) < Len(lines) => IsBoundary(lines[UnitEnd(lines, s) + 1])
<1> DEFINE e == UnitEnd(lines, s)
<1>1. /\ s \in (PreambleEnd(lines) + 1)..Len(lines) /\ s \in 1..Len(lines)
      /\ ~IsBlank(lines[s])
      /\ GroupLine(lines, s) = 0
  BY StartFacts
<1>2. Len(lines) \in Nat /\ PreambleEnd(lines) \in 0..Len(lines)
  BY PreambleFacts, SeqDomain
<1>3. lines[s].kind # "close"
  BY <1>1, PairedFacts
<1>4. CASE lines[s].kind = "open"
  <2>1. PICK c \in (s + 1)..Len(lines) :
                /\ lines[c].kind = "close"
                /\ \A k \in (s + 1)..(c - 1) : ~IsMarker(lines[k])
    BY <1>1, <1>4, PairedFacts
  <2>2. UnitEnd(lines, s) = c
    BY <1>1, <1>4, <2>1, GroupEnd
  <2>3. s < c /\ c \in s..Len(lines) /\ ~IsBlank(lines[c])
    BY <1>1, <1>2, <2>1 DEF IsBlank
  <2> QED
    BY <1>1, <1>2, <1>3, <1>4, <2>1, <2>2, <2>3
<1>5. CASE lines[s].kind # "open"
  <2>1. /\ e \in s..Len(lines)
        /\ \A k \in (s + 1)..e : ~IsBoundary(lines[k])
        /\ e < Len(lines) => IsBoundary(lines[e + 1])
    BY <1>1, <1>5, PlainEnd
  <2>2. ~IsBlank(lines[e])
    <3>1. CASE e = s
      BY <1>1, <3>1
    <3>2. CASE e # s
      <4>1. e \in (s + 1)..e
        BY <1>1, <2>1, <3>2
      <4> QED
        BY <2>1, <4>1 DEF IsBoundary
    <3> QED
      BY <3>1, <3>2
  <2> HIDE DEF e
  <2>3. PreambleEnd(lines) < s
    BY <1>1, <1>2
  <2> QED
    BY <1>1, <1>3, <1>5, <2>1, <2>2, <2>3 DEF e
<1> QED
  BY <1>4, <1>5

\* Inside a group that is open the scan finds no unit.
LEMMA InsideGroup ==
    ASSUME NEW lines, IsSeq(lines), NEW o \in 1..Len(lines), lines[o].kind = "open",
           NEW i \in (o + 1)..(Len(lines) + 1),
           \A k \in (o + 1)..(i - 1) : lines[k].kind # "close"
    PROVE  GroupLine(lines, i) # 0
<1>1. Len(lines) \in Nat /\ i \in 1..(Len(lines) + 1) /\ o \in 1..(i - 1)
  BY SeqDomain
<1>2. ASSUME GroupLine(lines, i) = 0 PROVE FALSE
  <2>1. PICK c \in (o + 1)..(i - 1) : lines[c].kind = "close"
    BY <1>1, <1>2, GroupLineFacts
  <2> QED
    BY <2>1
<1> QED
  BY <1>2

\* computeUnits: a unit ends before the next one starts.
LEMMA UnitsApart ==
    ASSUME NEW lines, IsSeq(lines), Paired(lines),
           NEW s \in UnitStarts(lines), NEW r \in UnitStarts(lines), s < r
    PROVE  UnitEnd(lines, s) < r
<1> DEFINE e == UnitEnd(lines, s)
<1>1. /\ s \in 1..Len(lines) /\ PreambleEnd(lines) < s /\ e \in s..Len(lines)
      /\ lines[s].kind # "close" /\ ~IsBlank(lines[s])
      /\ lines[s].kind = "open" =>
            /\ s < e
            /\ lines[e].kind = "close"
            /\ \A k \in (s + 1)..(e - 1) : ~IsMarker(lines[k])
      /\ lines[s].kind # "open" => \A k \in (s + 1)..e : ~IsBoundary(lines[k])
  BY UnitFacts
<1>2. /\ r \in (PreambleEnd(lines) + 1)..Len(lines) /\ r \in 1..Len(lines)
      /\ ~IsBlank(lines[r])
      /\ GroupLine(lines, r) = 0
      /\ LooksLikeDirectiveLine(lines[r]) \/ UnitEndsAbove(lines, r)
  BY StartFacts
<1>3. Len(lines) \in Nat /\ PreambleEnd(lines) \in 0..Len(lines)
  BY PreambleFacts, SeqDomain
<1> HIDE DEF e
<1>4. ASSUME r <= e PROVE FALSE
  <2>1. CASE lines[s].kind = "open"
    <3>1. \A k \in (s + 1)..(r - 1) : lines[k].kind # "close"
      <4>1. \A k \in (s + 1)..(r - 1) : k \in (s + 1)..(e - 1)
        BY <1>1, <1>2, <1>3, <1>4
      <4> QED
        BY <1>1, <2>1, <4>1 DEF IsMarker
    <3>2. r \in (s + 1)..(Len(lines) + 1)
      BY <1>1, <1>2, <1>3
    <3>3. GroupLine(lines, r) # 0
      BY <1>1, <2>1, <3>1, <3>2, InsideGroup
    <3> QED
      BY <1>2, <3>3
  <2>2. CASE lines[s].kind # "open"
    <3>1. r \in (s + 1)..e
      BY <1>1, <1>2, <1>3, <1>4
    <3>2. ~IsBoundary(lines[r])
      BY <1>1, <2>2, <3>1
    <3>3. UnitEndsAbove(lines, r)
      BY <1>2, <3>2 DEF IsBoundary
    <3>4. r # PreambleEnd(lines) + 1
      BY <1>1, <1>2, <1>3
    <3>5. r - 1 = s \/ r - 1 \in (s + 1)..e
      BY <1>1, <1>2, <1>3, <3>1
    <3>6. ~IsBlank(lines[r - 1]) /\ lines[r - 1].kind # "close"
      <4>1. CASE r - 1 = s
        BY <1>1, <4>1
      <4>2. CASE r - 1 \in (s + 1)..e
        BY <1>1, <2>2, <4>2 DEF IsBoundary, LooksLikeDirectiveLine
      <4> QED
        BY <3>5, <4>1, <4>2
    <3> QED
      BY <3>3, <3>4, <3>6 DEF UnitEndsAbove
  <2> QED
    BY <2>1, <2>2
<1>5. e \in Nat /\ r \in Nat
  BY <1>1, <1>2, <1>3
<1> QED
  BY <1>4, <1>5 DEF e

\* Every line below the preamble that is not blank is a unit's.
LEMMA UnitsCover ==
    ASSUME NEW lines, IsSeq(lines), Paired(lines),
           NEW i \in 1..Len(lines), PreambleEnd(lines) < i, ~IsBlank(lines[i])
    PROVE  \E s \in UnitStarts(lines) : s <= i /\ i <= UnitEnd(lines, s)
<1> DEFINE pe == PreambleEnd(lines)
           S == UnitStarts(lines)
<1>1. Len(lines) \in Nat /\ pe \in 0..Len(lines)
  BY PreambleFacts, SeqDomain
<1>2. CASE GroupLine(lines, i) # 0
  <2> DEFINE g == GroupLine(lines, i)
  <2>1. /\ g \in 0..(i - 1) /\ g # 0 /\ lines[g].kind = "open"
        /\ \A k \in (g + 1)..(i - 1) : ~IsMarker(lines[k])
    BY <1>1, <1>2, GroupLineFacts
  <2>2. PICK c \in i..Len(lines) : /\ lines[c].kind = "close"
                                   /\ \A k \in (g + 1)..(c - 1) : ~IsMarker(lines[k])
    BY <1>2, PairedFacts
  <2> HIDE DEF g
  <2>3. g \in 1..Len(lines) /\ g <= i /\ c \in (g + 1)..Len(lines)
    BY <1>1, <2>1, <2>2
  <2>4. ~(g <= pe)
    <3>1. ~IsBlank(lines[g]) /\ lines[g].kind # "doc"
      BY <2>1 DEF IsBlank
    <3> QED
      BY <1>1, <2>3, <3>1, PreambleFacts
  <2>5. g \in S
    <3>1. g \in (pe + 1)..Len(lines)
      BY <1>1, <2>3, <2>4
    <3>2. GroupLine(lines, g) = 0
      BY <2>1, <2>3, PairedFacts
    <3>3. ~IsBlank(lines[g]) /\ LooksLikeDirectiveLine(lines[g])
      BY <2>1 DEF IsBlank, LooksLikeDirectiveLine
    <3> QED
      BY <3>1, <3>2, <3>3, StartFacts
  <2>6. UnitEnd(lines, g) = c
    BY <2>1, <2>2, <2>3, GroupEnd
  <2>7. i <= c
    BY <1>1, <2>2
  <2> QED
    BY <2>3, <2>5, <2>6, <2>7
<1>3. CASE GroupLine(lines, i) = 0
  <2>1. CASE i \in S
    <3>1. UnitEnd(lines, i) \in i..Len(lines)
      BY <2>1, UnitFacts
    <3>2. i <= i /\ i <= UnitEnd(lines, i)
      BY <1>1, <3>1
    <3> QED
      BY <2>1, <3>2
  <2>2. CASE i \notin S
    <3> DEFINE Out(k) == pe < k /\ ~IsBlank(lines[k]) /\ GroupLine(lines, k) = 0 /\ k \notin S
               D == {p \in 1..i : \A k \in p..i : Out(k)}
               m == Min(D)
    <3>1. i \in D
      <4>1. \A k \in i..i : k = i
        BY <1>1
      <4> QED
        BY <1>1, <1>3, <2>2, <4>1
    <3>2. m \in D /\ \A n \in D : m <= n
      <4>1. D \in SUBSET Nat /\ D # {}
        <5>1. \A p \in D : p \in 1..i
          OBVIOUS
        <5>2. 1..i \subseteq Nat
          OBVIOUS
        <5> HIDE DEF D
        <5> QED
          BY <3>1, <5>1, <5>2
      <4> HIDE DEF D
      <4> QED
        BY <4>1, MinFacts
    <3> HIDE DEF m
    <3>3. m \in 1..i /\ \A k \in m..i : Out(k)
      BY <3>2
    <3>4. \A k \in m..i : ~LooksLikeDirectiveLine(lines[k]) /\ ~UnitEndsAbove(lines, k)
      <4>1. \A k \in m..i : k \in (pe + 1)..Len(lines)
        BY <1>1, <3>3
      <4> QED
        BY <3>3, <4>1, StartFacts
    <3>5. m \in m..i /\ Out(m)
      BY <3>3
    <3>6. m # pe + 1 /\ ~IsBlank(lines[m - 1]) /\ ~(lines[m - 1].kind = "close" /\ InGroup(lines, m - 1))
      BY <3>4, <3>5 DEF UnitEndsAbove
    <3>7. m - 1 \in 1..Len(lines) /\ pe < m - 1 /\ m \in 1..Len(lines)
      BY <1>1, <3>3, <3>5, <3>6
    <3> DEFINE h == m - 1
    <3> HIDE DEF D
    <3>8. h \in 1..Len(lines) /\ h \in 1..(Len(lines) + 1) /\ m = h + 1 /\ m \in (h + 1)..(Len(lines) + 1)
      BY <1>1, <3>7
    <3> HIDE DEF h
    <3>9. lines[h].kind # "open"
      <4>1. ASSUME lines[h].kind = "open" PROVE FALSE
        <5>1. \A k \in (h + 1)..(m - 1) : lines[k].kind # "close"
          BY <3>8
        <5>2. GroupLine(lines, m) # 0
          BY <3>8, <4>1, <5>1, InsideGroup
        <5> QED
          BY <3>5, <5>2
      <4> QED
        BY <4>1
    <3>10. GroupLine(lines, h) = 0
      <4>1. ASSUME GroupLine(lines, h) # 0 PROVE FALSE
        <5> DEFINE g == GroupLine(lines, h)
        <5>1. /\ g \in 0..(h - 1) /\ g # 0 /\ lines[g].kind = "open"
              /\ \A k \in (g + 1)..(h - 1) : ~IsMarker(lines[k])
          BY <3>8, <4>1, GroupLineFacts
        <5>2. lines[h].kind # "close"
          BY <3>6, <3>8, <4>1, InGroupIff DEF h
        <5> HIDE DEF g
        <5>3. g \in 1..Len(lines) /\ m \in (g + 1)..(Len(lines) + 1)
          BY <1>1, <3>8, <5>1
        <5>4. \A k \in (g + 1)..(m - 1) : lines[k].kind # "close"
          <6>1. \A k \in (g + 1)..(m - 1) : k = h \/ k \in (g + 1)..(h - 1)
            BY <3>8, <5>1
          <6> QED
            BY <5>1, <5>2, <6>1 DEF IsMarker
        <5>5. GroupLine(lines, m) # 0
          BY <5>1, <5>3, <5>4, InsideGroup
        <5> QED
          BY <3>5, <5>5
      <4> QED
        BY <4>1
    <3>11. h \in S
      <4>1. ASSUME h \notin S PROVE FALSE
        <5>1. Out(h)
          BY <3>6, <3>7, <3>10, <4>1 DEF h
        <5>2. \A k \in h..i : k = h \/ k \in m..i
          BY <1>1, <3>3, <3>8
        <5>3. \A k \in h..i : Out(k)
          BY <3>3, <5>1, <5>2
        <5>4. h \in 1..i
          BY <1>1, <3>3, <3>8
        <5>5. h \in D
          BY <5>3, <5>4 DEF D
        <5>6. m <= h
          BY <3>2, <5>5
        <5> QED
          BY <3>8, <5>6
      <4> QED
        BY <4>1
    <3>12. i <= UnitEnd(lines, h)
      <4>1. \A k \in (h + 1)..i : ~IsBoundary(lines[k])
        BY <3>3, <3>4, <3>8 DEF IsBoundary
      <4>2. i \in h..Len(lines)
        BY <1>1, <3>3, <3>8
      <4> QED
        BY <3>8, <3>9, <4>1, <4>2, PlainEnd
    <3>13. h <= i
      BY <1>1, <3>3, <3>8
    <3> QED
      BY <3>11, <3>12, <3>13
  <2> QED
    BY <2>1, <2>2
<1> QED
  BY <1>2, <1>3

\* What computeUnits answers: the units in the order of their first lines.
LEMMA ComputeFacts ==
    ASSUME NEW lines, IsSeq(lines)
    PROVE  LET S == UnitStarts(lines)
               A == Ascending(S)
               U == ComputeUnits(lines)
           IN /\ IsSeq(U) /\ Len(U) = Cardinality(S) /\ Len(U) \in Nat
              /\ DOMAIN U = 1..Len(U)
              /\ \A n \in 1..Len(U) : /\ U[n] = UnitAt(lines, S, A[n])
                                      /\ A[n] \in S
                                      /\ U[n].first = A[n]
                                      /\ U[n].last = UnitEnd(lines, A[n])
                                      /\ U[n].kind = UnitKind(lines[A[n]])
              /\ \A m, n \in 1..Len(U) : m < n => U[m].first < U[n].first
              /\ \A s \in S : \E n \in 1..Len(U) : U[n].first = s
<1> DEFINE S == UnitStarts(lines)
           A == Ascending(S)
           F == [n \in DOMAIN A |-> UnitAt(lines, S, A[n])]
           U == ComputeUnits(lines)
<1>1. S \in SUBSET (Nat \ {0}) /\ IsFiniteSet(S)
  BY StartFacts
<1>2. /\ Cardinality(S) \in Nat
      /\ DOMAIN A = 1..Cardinality(S)
      /\ \A n \in 1..Cardinality(S) : A[n] \in S
      /\ \A m, n \in 1..Cardinality(S) : m < n => A[m] < A[n]
      /\ \A i \in S : \E n \in 1..Cardinality(S) : A[n] = i
  BY <1>1, AscendingFacts
<1>3. U = Tuple(F)
  BY DEF ComputeUnits, UnitsAt
<1>4. F = [n \in 1..Cardinality(S) |-> F[n]]
  BY <1>2
<1>5. \A n \in 1..Cardinality(S) : F[n] = UnitAt(lines, S, A[n])
  BY <1>2
<1> HIDE DEF F
<1>6. IsSeq(F) /\ Len(F) = Cardinality(S) /\ DOMAIN F = 1..Cardinality(S) /\ U = F
  BY <1>2, <1>3, <1>4, FunctionSeq
<1> HIDE DEF S, A, U
<1>7. ASSUME NEW n \in 1..Cardinality(S)
      PROVE  /\ U[n] = UnitAt(lines, S, A[n])
             /\ A[n] \in S
             /\ U[n].first = A[n]
             /\ U[n].last = UnitEnd(lines, A[n])
             /\ U[n].kind = UnitKind(lines[A[n]])
  <2>1. U[n] = UnitAt(lines, S, A[n])
    BY <1>5, <1>6
  <2> QED
    BY <1>2, <2>1 DEF UnitAt
<1> QED
  BY <1>2, <1>6, <1>7 DEF S, A, U

--------------------------------------------------------------------------------
(* Groups *)

\* The first position of a set, by its description.
LEMMA FirstIs ==
    ASSUME NEW S \in SUBSET (Nat \ {0}), NEW x \in S, \A y \in S : x <= y
    PROVE  FirstOf(S) = x
<1>1. FirstOf(S) \in S /\ \A n \in S : FirstOf(S) <= n
  BY FirstOfFacts
<1>2. FirstOf(S) \in Nat /\ x \in Nat /\ FirstOf(S) <= x /\ x <= FirstOf(S)
  BY <1>1
<1> QED
  BY <1>2

\* The elements of a sequence without one of them.
LEMMA Removed ==
    ASSUME NEW s, IsSeq(s), NEW p \in 1..Len(s)
    PROVE  /\ IsSeq(RemoveAt(s, p)) /\ Len(RemoveAt(s, p)) = Len(s) - 1
           /\ \A i \in 1..(p - 1) : RemoveAt(s, p)[i] = s[i]
           /\ \A i \in p..(Len(s) - 1) : RemoveAt(s, p)[i] = s[i + 1]
<1> DEFINE a == SubSeq(s, 1, p - 1)
           b == SubSeq(s, p + 1, Len(s))
<1>1. Len(s) \in Nat
  BY SeqDomain
<1>2. /\ IsSeq(a) /\ Len(a) = p - 1
      /\ \A i \in 1..(p - 1) : a[i] = s[i]
  <2>1. /\ IsSeq(SubSeq(s, 1, p - 1))
        /\ Len(SubSeq(s, 1, p - 1)) = IF 1 <= p - 1 THEN (p - 1) - 1 + 1 ELSE 0
        /\ \A i \in 1..((p - 1) - 1 + 1) : SubSeq(s, 1, p - 1)[i] = s[1 + i - 1]
    BY <1>1, Cutting
  <2> QED
    BY <1>1, <2>1
<1>3. /\ IsSeq(b) /\ Len(b) = Len(s) - p
      /\ \A i \in 1..(Len(s) - p) : b[i] = s[p + i]
  <2>1. /\ IsSeq(SubSeq(s, p + 1, Len(s)))
        /\ Len(SubSeq(s, p + 1, Len(s))) = IF p + 1 <= Len(s) THEN Len(s) - (p + 1) + 1 ELSE 0
        /\ \A i \in 1..(Len(s) - (p + 1) + 1) : SubSeq(s, p + 1, Len(s))[i] = s[(p + 1) + i - 1]
    BY <1>1, Cutting
  <2> QED
    BY <1>1, <2>1
<1> HIDE DEF a, b
<1>4. /\ IsSeq(a \o b)
      /\ Len(a \o b) = Len(a) + Len(b)
      /\ \A i \in 1..Len(a) : (a \o b)[i] = a[i]
      /\ \A i \in Len(a)+1..Len(a) + Len(b) : (a \o b)[i] = b[i - Len(a)]
  <2>1. IsSeq(a) /\ IsSeq(b)
    BY <1>2, <1>3
  <2> QED
    BY <2>1, Joining
<1>5. RemoveAt(s, p) = a \o b
  BY DEF RemoveAt, a, b
<1>6. \A i \in p..(Len(s) - 1) : i \in Len(a)+1..Len(a) + Len(b) /\ b[i - Len(a)] = s[i + 1]
  BY <1>1, <1>2, <1>3
<1>7. Len(a \o b) = Len(s) - 1
  BY <1>1, <1>2, <1>3, <1>4
<1>8. \A i \in 1..(p - 1) : (a \o b)[i] = s[i]
  BY <1>1, <1>2, <1>4
<1>9. \A i \in p..(Len(s) - 1) : (a \o b)[i] = s[i + 1]
  BY <1>4, <1>6
<1> QED
  BY <1>4, <1>5, <1>7, <1>8, <1>9

\* A text with two lines put around its lines f to t.
Around(lines, f, t, open) ==
    SubSeq(lines, 1, f - 1) \o <<open>> \o SubSeq(lines, f, t) \o <<Close>>
      \o SubSeq(lines, t + 1, Len(lines))

\* insertGroupMarkers: the lines of a text with two markers put into it.
LEMMA AroundFacts ==
    ASSUME NEW lines, IsSeq(lines), NEW f \in 1..Len(lines), NEW t \in f..Len(lines), NEW open
    PROVE  /\ IsSeq(Around(lines, f, t, open))
           /\ Len(Around(lines, f, t, open)) = Len(lines) + 2
           /\ \A i \in 1..(f - 1) : Around(lines, f, t, open)[i] = lines[i]
           /\ Around(lines, f, t, open)[f] = open
           /\ \A i \in (f + 1)..(t + 1) : Around(lines, f, t, open)[i] = lines[i - 1]
           /\ Around(lines, f, t, open)[t + 2] = Close
           /\ \A i \in (t + 3)..(Len(lines) + 2) : Around(lines, f, t, open)[i] = lines[i - 2]
<1> DEFINE a == SubSeq(lines, 1, f - 1)
           b == SubSeq(lines, f, t)
           c == SubSeq(lines, t + 1, Len(lines))
           n == Len(lines)
<1>1. n \in Nat
  BY SeqDomain
<1>2. /\ IsSeq(a) /\ Len(a) = f - 1
      /\ \A i \in 1..(f - 1) : a[i] = lines[i]
  <2>1. /\ IsSeq(SubSeq(lines, 1, f - 1))
        /\ Len(SubSeq(lines, 1, f - 1)) = IF 1 <= f - 1 THEN (f - 1) - 1 + 1 ELSE 0
        /\ \A i \in 1..((f - 1) - 1 + 1) : SubSeq(lines, 1, f - 1)[i] = lines[1 + i - 1]
    BY <1>1, Cutting
  <2> QED
    BY <1>1, <2>1
<1>3. /\ IsSeq(b) /\ Len(b) = t - f + 1
      /\ \A i \in 1..(t - f + 1) : b[i] = lines[f + i - 1]
  BY <1>1, Cutting
<1>4. /\ IsSeq(c) /\ Len(c) = n - t
      /\ \A i \in 1..(n - t) : c[i] = lines[t + i]
  <2>1. /\ IsSeq(SubSeq(lines, t + 1, n))
        /\ Len(SubSeq(lines, t + 1, n)) = IF t + 1 <= n THEN n - (t + 1) + 1 ELSE 0
        /\ \A i \in 1..(n - (t + 1) + 1) : SubSeq(lines, t + 1, n)[i] = lines[(t + 1) + i - 1]
    BY <1>1, Cutting
  <2> QED
    BY <1>1, <2>1
<1>5. Around(lines, f, t, open) = a \o <<open>> \o b \o <<Close>> \o c
  BY DEF Around
<1> HIDE DEF a, b, c, n
<1> DEFINE d1 == a \o <<open>>
           d2 == d1 \o b
           d3 == d2 \o <<Close>>
           d4 == d3 \o c
<1>6. IsSeq(<<open>>) /\ Len(<<open>>) = 1 /\ <<open>>[1] = open
  BY Single
<1>7. IsSeq(<<Close>>) /\ Len(<<Close>>) = 1 /\ <<Close>>[1] = Close
  BY Single
<1>8. /\ IsSeq(d1) /\ Len(d1) = f
      /\ \A i \in 1..(f - 1) : d1[i] = lines[i]
      /\ d1[f] = open
  <2>1. /\ IsSeq(d1)
        /\ Len(d1) = Len(a) + 1
        /\ \A i \in 1..Len(a) : d1[i] = a[i]
        /\ \A i \in 1..1 : d1[Len(a) + i] = <<open>>[i]
    BY <1>2, <1>6, Joining
  <2>2. d1[Len(a) + 1] = open
    BY <1>6, <2>1
  <2> HIDE DEF d1
  <2> QED
    BY <1>1, <1>2, <2>1, <2>2
<1> HIDE DEF d1
<1>9. /\ IsSeq(d2) /\ Len(d2) = t + 1
      /\ \A i \in 1..f : d2[i] = d1[i]
      /\ \A i \in (f + 1)..(t + 1) : d2[i] = lines[i - 1]
  <2>1. /\ IsSeq(d2)
        /\ Len(d2) = Len(d1) + Len(b)
        /\ \A i \in 1..Len(d1) : d2[i] = d1[i]
        /\ \A i \in Len(d1)+1..Len(d1) + Len(b) : d2[i] = b[i - Len(d1)]
    BY <1>3, <1>8, Joining
  <2> HIDE DEF d2
  <2>2. \A i \in (f + 1)..(t + 1) : /\ i \in Len(d1)+1..Len(d1) + Len(b)
                                    /\ i - Len(d1) \in 1..(t - f + 1)
                                    /\ f + (i - Len(d1)) - 1 = i - 1
    BY <1>1, <1>3, <1>8
  <2>3. Len(d2) = t + 1
    BY <1>1, <1>3, <1>8, <2>1
  <2>4. \A i \in (f + 1)..(t + 1) : d2[i] = lines[i - 1]
    BY <1>3, <2>1, <2>2
  <2> QED
    BY <1>8, <2>1, <2>3, <2>4
<1> HIDE DEF d2
<1>10. /\ IsSeq(d3) /\ Len(d3) = t + 2
       /\ \A i \in 1..(t + 1) : d3[i] = d2[i]
       /\ d3[t + 2] = Close
  <2>1. /\ IsSeq(d3)
        /\ Len(d3) = Len(d2) + 1
        /\ \A i \in 1..Len(d2) : d3[i] = d2[i]
        /\ \A i \in 1..1 : d3[Len(d2) + i] = <<Close>>[i]
    <3>1. IsSeq(d2) /\ IsSeq(<<Close>>) /\ Len(<<Close>>) = 1
      BY <1>7, <1>9
    <3> QED
      BY <3>1, Joining
  <2>2. d3[Len(d2) + 1] = Close
    BY <1>7, <2>1
  <2> HIDE DEF d3
  <2>3. Len(d2) + 1 = t + 2
    BY <1>1, <1>9
  <2> QED
    BY <1>1, <1>9, <2>1, <2>2, <2>3
<1> HIDE DEF d3
<1>11. /\ IsSeq(d4) /\ Len(d4) = n + 2
       /\ \A i \in 1..(t + 2) : d4[i] = d3[i]
       /\ \A i \in (t + 3)..(n + 2) : d4[i] = lines[i - 2]
  <2>1. /\ IsSeq(d4)
        /\ Len(d4) = Len(d3) + Len(c)
        /\ \A i \in 1..Len(d3) : d4[i] = d3[i]
        /\ \A i \in Len(d3)+1..Len(d3) + Len(c) : d4[i] = c[i - Len(d3)]
    BY <1>4, <1>10, Joining
  <2> HIDE DEF d4
  <2>2. \A i \in (t + 3)..(n + 2) : /\ i \in Len(d3)+1..Len(d3) + Len(c)
                                    /\ i - Len(d3) \in 1..(n - t)
                                    /\ t + (i - Len(d3)) = i - 2
    BY <1>1, <1>4, <1>10 DEF n
  <2>3. Len(d4) = n + 2
    BY <1>1, <1>4, <1>10, <2>1 DEF n
  <2>4. \A i \in (t + 3)..(n + 2) : d4[i] = lines[i - 2]
    BY <1>4, <2>1, <2>2
  <2> QED
    BY <1>10, <2>1, <2>3, <2>4
<1> HIDE DEF d4
<1>12. Around(lines, f, t, open) = d4
  BY <1>5 DEF d1, d2, d3, d4
<1>13. /\ \A i \in 1..(f - 1) : i \in 1..f /\ i \in 1..(t + 1) /\ i \in 1..(t + 2)
       /\ f \in 1..f /\ f \in 1..(t + 1) /\ f \in 1..(t + 2)
       /\ \A i \in (f + 1)..(t + 1) : i \in 1..(t + 1) /\ i \in 1..(t + 2)
       /\ t + 2 \in 1..(t + 2)
  BY <1>1
<1>14. \A i \in 1..(f - 1) : d4[i] = lines[i]
  BY <1>8, <1>9, <1>10, <1>11, <1>13
<1>15. d4[f] = open
  BY <1>8, <1>9, <1>10, <1>11, <1>13
<1>16. \A i \in (f + 1)..(t + 1) : d4[i] = lines[i - 1]
  BY <1>9, <1>10, <1>11, <1>13
<1>17. d4[t + 2] = Close
  BY <1>10, <1>11, <1>13
<1> QED
  BY <1>11, <1>12, <1>14, <1>15, <1>16, <1>17 DEF n

\* The group a line is in is told by the markers above it.
LEMMA GroupLineAbove ==
    ASSUME NEW s, NEW t, NEW i \in Nat,
           \A j \in 1..(i - 1) : IsMarker(s[j]) \/ IsMarker(t[j]) => s[j].kind = t[j].kind
    PROVE  GroupLine(s, i) = GroupLine(t, i)
<1> DEFINE S == {j \in 1..(i - 1) : s[j].kind \in {"open", "close"}}
           T == {j \in 1..(i - 1) : t[j].kind \in {"open", "close"}}
<1>1. S = T
  BY DEF IsMarker
<1>2. S \in SUBSET (Nat \ {0}) /\ \A n \in S : n <= i
  OBVIOUS
<1>3. LastOf(S) # 0 => LastOf(S) \in S
  BY <1>2, LastOfFacts
<1>4. GroupLine(s, i) = IF LastOf(S) > 0 /\ s[LastOf(S)].kind = "open" THEN LastOf(S) ELSE 0
  BY DEF GroupLine
<1>5. GroupLine(t, i) = IF LastOf(T) > 0 /\ t[LastOf(T)].kind = "open" THEN LastOf(T) ELSE 0
  BY DEF GroupLine
<1>6. LastOf(S) # 0 => s[LastOf(S)].kind = t[LastOf(S)].kind
  <2>1. \A j \in S : s[j].kind = t[j].kind
    BY DEF IsMarker
  <2> QED
    BY <1>3, <2>1
<1> HIDE DEF S, T
<1> QED
  BY <1>1, <1>4, <1>5, <1>6

\* A run of units without a group among them holds no marker.
LEMMA PlainRun ==
    ASSUME NEW lines, IsSeq(lines), Paired(lines),
           NEW a \in 1..Len(ComputeUnits(lines)), NEW b \in a..Len(ComputeUnits(lines)),
           \A n \in a..b : ComputeUnits(lines)[n].kind # "group"
    PROVE  LET f == ComputeUnits(lines)[a].first
               t == ComputeUnits(lines)[b].last
           IN /\ f \in UnitStarts(lines) /\ f \in 1..Len(lines) /\ t \in f..Len(lines)
              /\ PreambleEnd(lines) < f
              /\ ~IsBlank(lines[f]) /\ ~IsBlank(lines[t])
              /\ \A k \in f..t : ~IsMarker(lines[k])
<1> DEFINE S == UnitStarts(lines)
           U == ComputeUnits(lines)
           f == U[a].first
           r == U[b].first
           t == U[b].last
<1>1. /\ Len(U) \in Nat
      /\ \A n \in 1..Len(U) : /\ U[n].first \in S
                              /\ U[n].last = UnitEnd(lines, U[n].first)
                              /\ U[n].kind = UnitKind(lines[U[n].first])
      /\ \A m, n \in 1..Len(U) : m < n => U[m].first < U[n].first
      /\ \A s \in S : \E n \in 1..Len(U) : U[n].first = s
  BY ComputeFacts
<1> HIDE DEF U
<1>2. a \in 1..Len(U) /\ b \in 1..Len(U) /\ a <= b
  BY <1>1 DEF U
<1>3. f \in S /\ r \in S /\ t = UnitEnd(lines, r)
  BY <1>1, <1>2
<1>4. /\ f \in 1..Len(lines) /\ PreambleEnd(lines) < f /\ ~IsBlank(lines[f])
      /\ r \in 1..Len(lines) /\ t \in r..Len(lines) /\ ~IsBlank(lines[t])
  BY <1>3, UnitFacts
<1>5. f <= r
  <2>1. CASE a = b
    BY <1>4, <2>1
  <2>2. CASE a < b
    BY <1>1, <1>2, <1>4, <2>2
  <2> QED
    BY <1>2, <2>1, <2>2
<1>6. Len(lines) \in Nat /\ PreambleEnd(lines) \in 0..Len(lines)
  BY PreambleFacts, SeqDomain
<1> HIDE DEF f, r, t
<1>7. ASSUME NEW k \in f..t, IsMarker(lines[k]) PROVE FALSE
  <2>1. k \in 1..Len(lines) /\ PreambleEnd(lines) < k /\ ~IsBlank(lines[k])
    BY <1>4, <1>5, <1>6, <1>7 DEF IsMarker, IsBlank
  <2>2. PICK s \in S : s <= k /\ k <= UnitEnd(lines, s)
    BY <2>1, UnitsCover
  <2>3. PICK n \in 1..Len(U) : U[n].first = s
    BY <1>1
  <2>4. /\ s \in 1..Len(lines) /\ UnitEnd(lines, s) \in s..Len(lines) /\ lines[s].kind # "close"
        /\ lines[s].kind # "open" => \A j \in (s + 1)..UnitEnd(lines, s) : ~IsBoundary(lines[j])
    BY UnitFacts
  <2>5. ~(n < a)
    <3>1. ASSUME n < a PROVE FALSE
      <4>1. s < f
        BY <1>1, <1>2, <2>3, <3>1 DEF f
      <4>2. UnitEnd(lines, s) < f
        BY <1>3, <4>1, UnitsApart
      <4> QED
        BY <1>4, <2>1, <2>2, <2>4, <4>2
    <3> QED
      BY <3>1
  <2>6. ~(b < n)
    <3>1. ASSUME b < n PROVE FALSE
      <4>1. r < s
        BY <1>1, <1>2, <2>3, <3>1 DEF r
      <4>2. t < s
        BY <1>3, <4>1, UnitsApart
      <4> QED
        BY <1>4, <2>1, <2>2, <2>4, <4>2
    <3> QED
      BY <3>1
  <2>7. n \in a..b
    BY <1>1, <1>2, <2>5, <2>6
  <2>8. lines[s].kind # "open"
    BY <1>1, <2>3, <2>7 DEF UnitKind, U
  <2>9. CASE k = s
    BY <1>7, <2>4, <2>8, <2>9 DEF IsMarker
  <2>10. CASE k # s
    <3>1. k \in (s + 1)..UnitEnd(lines, s)
      BY <2>1, <2>2, <2>4, <2>10
    <3> QED
      BY <1>7, <2>4, <2>8, <3>1 DEF IsMarker, IsBoundary, LooksLikeDirectiveLine
  <2> QED
    BY <2>9, <2>10
<1>8. t \in f..Len(lines)
  BY <1>4, <1>5, <1>6
<1> QED
  BY <1>3, <1>4, <1>7, <1>8 DEF f, t, U

\* The keys of units by what they are the keys of.
LEMMA KeyFacts ==
    ASSUME NEW lines, NEW S, NEW i
    PROVE  LET u == UnitAt(lines, S, i) IN
           /\ u.kind = "atom" => u.key = <<"atom", lines[i].attrs["id"]>>
           /\ u.kind = "implicit" => u.key[1] = "implicit"
           /\ u.kind = "group" =>
                \/ u.key = <<"line", i>> /\ u.fault # "none"
                \/ /\ u.key = <<"group", lines[i].attrs["id"]>> /\ u.fault = "none"
                   /\ HasAttr(lines[i], "id")
           /\ u.kind # "group" => u.fault = "none" /\ u.atoms = {}
           /\ u.kind \in {"atom", "implicit", "group"}
           /\ u.kind = "group" <=> lines[i].kind = "open"
<1> DEFINE u == UnitAt(lines, S, i)
           before == {j \in S : j < i}
           identity == GroupIdentity(lines[i].attrs, i,
                                     OpenIds(lines, {j \in before : lines[j].kind = "open"}))
           number == Cardinality({j \in S : j <= i /\ UnitKind(lines[j]) = "implicit"})
           inside == {k \in (i + 1)..UnitEnd(lines, i) :
                        lines[k].kind = "atom" /\ HasAttr(lines[k], "id")}
           members == {lines[k].attrs["id"] : k \in inside}
<1>1. u = [first |-> i, last |-> UnitEnd(lines, i), kind |-> UnitKind(lines[i]),
           key |-> CASE UnitKind(lines[i]) = "group" -> identity.key
                     [] UnitKind(lines[i]) = "atom" -> <<"atom", lines[i].attrs["id"]>>
                     [] OTHER -> <<"implicit", number>>,
           fault |-> IF UnitKind(lines[i]) = "group" THEN identity.fault ELSE "none",
           atoms |-> IF UnitKind(lines[i]) = "group" THEN members ELSE {}]
  BY DEF UnitAt
<1>2. \/ identity.key = <<"line", i>> /\ identity.fault # "none"
      \/ /\ identity.key = <<"group", lines[i].attrs["id"]>> /\ identity.fault = "none"
         /\ HasAttr(lines[i], "id")
  BY DEF GroupIdentity, HasAttr
<1> HIDE DEF u, identity, number, members
<1>3. UnitKind(lines[i]) \in {"atom", "implicit", "group"}
  BY DEF UnitKind
<1>4. UnitKind(lines[i]) = "group" <=> lines[i].kind = "open"
  BY DEF UnitKind
<1>5. CASE UnitKind(lines[i]) = "group"
  BY <1>1, <1>2, <1>4, <1>5 DEF u
<1>6. CASE UnitKind(lines[i]) = "atom"
  BY <1>1, <1>4, <1>6 DEF u
<1>7. CASE UnitKind(lines[i]) = "implicit"
  BY <1>1, <1>4, <1>7 DEF u
<1> QED
  BY <1>3, <1>5, <1>6, <1>7

\* The unit that markers make of a run, in the text with them.
LEMMA MarkedUnit ==
    ASSUME NEW lines, IsSeq(lines), Paired(lines),
           NEW f \in UnitStarts(lines), NEW t \in f..Len(lines),
           \A k \in f..t : ~IsMarker(lines[k]),
           NEW attrs, HasAttr(Open(attrs), "id"), attrs["id"] \notin ExistingIds(lines)
    PROVE  LET new == Around(lines, f, t, Open(attrs))
               units == ComputeUnits(new)
               n == FindUnit(units, <<"group", attrs["id"]>>)
           IN n \in 1..Len(units) /\ units[n].first = f /\ units[n].last = t + 2
<1> DEFINE new == Around(lines, f, t, Open(attrs))
           units == ComputeUnits(new)
           key == <<"group", attrs["id"]>>
           H == {n \in DOMAIN units : units[n].key = key}
           S == UnitStarts(new)
<1>1. f \in 1..Len(lines) /\ Len(lines) \in Nat /\ PreambleEnd(lines) < f /\ GroupLine(lines, f) = 0
  BY StartFacts, SeqDomain, UnitFacts
<1>2. /\ IsSeq(new) /\ Len(new) = Len(lines) + 2
      /\ \A i \in 1..(f - 1) : new[i] = lines[i]
      /\ new[f] = Open(attrs)
      /\ \A i \in (f + 1)..(t + 1) : new[i] = lines[i - 1]
      /\ new[t + 2] = Close
  BY <1>1, AroundFacts
<1> HIDE DEF new
<1>3. new[f].kind = "open" /\ new[t + 2].kind = "close" /\ new[f].attrs = attrs
  BY <1>2 DEF Open, Close
<1>4. f \in 1..Len(new) /\ t + 2 \in (f + 1)..Len(new) /\ f \in Nat
  BY <1>1, <1>2
<1>5. f \in S
  <2>1. PreambleEnd(new) \in 0..Len(new) /\ ~(f <= PreambleEnd(new))
    <3>1. /\ PreambleEnd(new) \in 0..Len(new)
          /\ \A j \in 1..PreambleEnd(new) : IsBlank(new[j]) \/ new[j].kind = "doc"
      BY <1>2, PreambleFacts
    <3>2. ~(IsBlank(new[f]) \/ new[f].kind = "doc")
      BY <1>3 DEF IsBlank
    <3>3. f \notin 1..PreambleEnd(new)
      BY <3>1, <3>2
    <3> QED
      BY <1>4, <3>1, <3>3
  <2>2. GroupLine(new, f) = GroupLine(lines, f)
    BY <1>2, <1>4, GroupLineAbove
  <2>3. ~IsBlank(new[f]) /\ LooksLikeDirectiveLine(new[f])
    BY <1>3 DEF IsBlank, LooksLikeDirectiveLine
  <2>4. f \in (PreambleEnd(new) + 1)..Len(new)
    BY <1>2, <1>4, <2>1
  <2> QED
    BY <1>1, <1>2, <2>2, <2>3, <2>4, StartFacts
<1>6. UnitEnd(new, f) = t + 2
  <2>1. ASSUME NEW k \in (f + 1)..(t + 1) PROVE ~IsMarker(new[k])
    <3>1. k - 1 \in f..t
      BY <1>1
    <3> QED
      BY <1>2, <3>1
  <2>2. \A k \in (f + 1)..((t + 2) - 1) : k \in (f + 1)..(t + 1)
    BY <1>1
  <2>3. \A k \in (f + 1)..((t + 2) - 1) : ~IsMarker(new[k])
    BY <2>1, <2>2
  <2> QED
    BY <1>2, <1>3, <1>4, <2>3, GroupEnd
<1>7. /\ Len(units) \in Nat /\ DOMAIN units = 1..Len(units)
      /\ \A n \in 1..Len(units) : /\ units[n] = UnitAt(new, S, units[n].first)
                                  /\ units[n].first \in S
                                  /\ units[n].last = UnitEnd(new, units[n].first)
                                  /\ units[n].kind = UnitKind(new[units[n].first])
      /\ \A m, n \in 1..Len(units) : m < n => units[m].first < units[n].first
      /\ \A s \in S : \E n \in 1..Len(units) : units[n].first = s
  BY <1>2, ComputeFacts
<1>8. PICK p \in 1..Len(units) : units[p].first = f
  BY <1>5, <1>7
<1> DEFINE before == {j \in S : j < f}
<1> HIDE DEF units, S
\* Nothing above has the identity of the new marker.
<1>9. ASSUME NEW j \in S, j < f, new[j].kind = "open", HasAttr(new[j], "id")
      PROVE  new[j].attrs["id"] # attrs["id"]
  <2>1. j \in 1..(f - 1)
    BY <1>2, <1>4, <1>9, StartFacts DEF S
  <2>2. new[j] = lines[j] /\ j \in DOMAIN lines
    BY <1>1, <1>2, <2>1, SeqDomain
  <2>3. lines[j].attrs["id"] \in ExistingIds(lines)
    BY <1>9, <2>2 DEF ExistingIds, OpenIds, Carriers
  <2> QED
    BY <2>2, <2>3
<1>10. units[p].key = key
  <2> DEFINE claimed == OpenIds(new, {j \in before : new[j].kind = "open"})
  <2>1. attrs["id"] \notin claimed
    BY <1>9 DEF OpenIds
  <2>2. units[p] = UnitAt(new, S, f)
    BY <1>7, <1>8
  <2>3. UnitKind(new[f]) = "group"
    BY <1>3 DEF UnitKind
  <2>4. units[p].key = GroupIdentity(new[f].attrs, f, claimed).key
    BY <2>2, <2>3 DEF UnitAt
  <2>5. GroupIdentity(attrs, f, claimed).key = key
    BY <2>1 DEF GroupIdentity, HasAttr, Open
  <2> QED
    BY <1>3, <2>4, <2>5
<1>11. ASSUME NEW m \in 1..Len(units), m < p, units[m].key = key PROVE FALSE
  <2> DEFINE s == units[m].first
  <2>1. s \in S /\ s < f /\ units[m] = UnitAt(new, S, s)
    BY <1>7, <1>8, <1>11
  <2>2. new[s].kind = "open" /\ HasAttr(new[s], "id") /\ new[s].attrs["id"] = attrs["id"]
    BY <1>11, <2>1, KeyFacts
  <2> QED
    BY <1>9, <2>1, <2>2
<1>12. FindUnit(units, key) = p
  <2>1. p \in H /\ H \in SUBSET (Nat \ {0})
    BY <1>7, <1>10
  <2>2. \A m \in H : p <= m
    BY <1>7, <1>11
  <2> QED
    BY <2>1, <2>2, FirstIs DEF FindUnit
<1>13. units[p].first = f /\ units[p].last = t + 2
  BY <1>6, <1>7, <1>8
<1> QED
  BY <1>12, <1>13 DEF new, units

\* What a selection that can be grouped is: a run of units without a group.
LEMMA MarkedRun ==
    ASSUME NEW lines, IsSeq(lines), NEW keys, NEW id, NEW given,
           MarkUnits(lines, ComputeUnits(lines), keys, id, given).ok
    PROVE  LET units == ComputeUnits(lines) IN
           \E a \in 1..Len(units) : \E b \in a..Len(units) :
              /\ \A n \in a..b : units[n].kind # "group"
              /\ Positions(units, keys) = a..b
              /\ Cardinality(keys) = b - a + 1
              /\ id \notin ExistingIds(lines)
              /\ MarkUnits(lines, units, keys, id, given)
                   = Rewritten(Around(lines, units[a].first, units[b].last,
                                      Open(NewGroup(id, given))))
<1> DEFINE units == ComputeUnits(lines)
           at == Positions(units, keys)
<1>1. Len(units) \in Nat /\ DOMAIN units = 1..Len(units)
  BY ComputeFacts
<1> HIDE DEF units
<1>2. /\ ~(Cardinality(keys) < 2)
      /\ id \notin ExistingIds(lines)
      /\ Cardinality(at) = Cardinality(keys)
      /\ ~\E n \in at : units[n].kind = "group"
      /\ IsContiguous(at)
      /\ MarkUnits(lines, units, keys, id, given)
           = Rewritten(MarkRun(lines, units, at, NewGroup(id, given)))
  <2>1. MarkUnits(lines, units, keys, id, given).ok
    BY DEF units
  <2>2. ~Refused.ok
    BY DEF Refused
  <2> QED
    BY <2>1, <2>2 DEF MarkUnits
<1>3. at \in SUBSET (1..Len(units)) /\ at # {}
  BY <1>1, <1>2 DEF Positions, IsContiguous
<1>4. /\ Min(at) \in at /\ \A n \in at : Min(at) <= n
      /\ Max(at) \in at /\ \A n \in at : n <= Max(at)
  <2>1. at \in SUBSET Nat /\ \A n \in at : n <= Len(units)
    BY <1>1, <1>3
  <2> QED
    BY <1>1, <1>3, <2>1, MinFacts, MaxFacts
<1> DEFINE a == Min(at)
           b == Max(at)
<1>5. a \in 1..Len(units) /\ b \in a..Len(units)
  BY <1>1, <1>3, <1>4
<1>6. at = a..b
  <2>1. at \in SUBSET (a..b)
    BY <1>1, <1>3, <1>4, <1>5
  <2>2. IsFiniteSet(a..b) /\ Cardinality(a..b) = b - a + 1
    BY <1>1, <1>5, FS_Interval
  <2>3. Cardinality(at) = b - a + 1
    <3>1. b - a = Cardinality(at) - 1
      BY <1>2 DEF IsContiguous
    <3>2. Cardinality(at) \in Nat
      BY <2>1, <2>2, FS_Subset, FS_CardinalityType
    <3> QED
      BY <1>1, <1>5, <3>1, <3>2
  <2> HIDE DEF a, b, at
  <2> QED
    BY <2>1, <2>2, <2>3, FS_Subset
<1>7. Cardinality(at) = b - a + 1
  <2>1. Cardinality(a..b) = b - a + 1
    BY <1>1, <1>5, FS_Interval
  <2> HIDE DEF a, b, at
  <2> QED
    BY <1>6, <2>1
<1>8. MarkRun(lines, units, at, NewGroup(id, given))
        = Around(lines, units[a].first, units[b].last, Open(NewGroup(id, given)))
  BY DEF MarkRun, Around
<1> HIDE DEF a, b, at
<1>9. \A n \in a..b : units[n].kind # "group"
  BY <1>2, <1>6
<1> QED
  BY <1>2, <1>5, <1>6, <1>7, <1>8, <1>9 DEF at, units

\* insertGroupMarkers: a new group's marker has the id drawn for it.
LEMMA RenamedId ==
    ASSUME NEW id, NEW given
    PROVE  LET attrs == NewGroup(id, given) IN
           HasAttr(Open(attrs), "id") /\ attrs["id"] = id
BY DEF NewGroup, Renamed, HasAttr, Open, With, Without

\* Ungrouping what was grouped gives back the text.
THEOREM UngroupUndoesGroup ==
    ASSUME NEW lines, IsSeq(lines), Paired(lines), NEW keys, NEW id, NEW given,
           MarkUnits(lines, ComputeUnits(lines), keys, id, given).ok
    PROVE  RemoveGroupMarkers(MarkUnits(lines, ComputeUnits(lines), keys, id, given).text,
                              <<"group", id>>) = Rewritten(lines)
<1> DEFINE U == ComputeUnits(lines)
           attrs == NewGroup(id, given)
<1>1. PICK a \in 1..Len(U) : \E b \in a..Len(U) :
              /\ \A n \in a..b : U[n].kind # "group"
              /\ Positions(U, keys) = a..b
              /\ Cardinality(keys) = b - a + 1
              /\ id \notin ExistingIds(lines)
              /\ MarkUnits(lines, U, keys, id, given)
                   = Rewritten(Around(lines, U[a].first, U[b].last, Open(attrs)))
  BY MarkedRun
<1>2. PICK b \in a..Len(U) :
              /\ \A n \in a..b : U[n].kind # "group"
              /\ id \notin ExistingIds(lines)
              /\ MarkUnits(lines, U, keys, id, given)
                   = Rewritten(Around(lines, U[a].first, U[b].last, Open(attrs)))
  BY <1>1
<1> DEFINE f == U[a].first
           t == U[b].last
           new == Around(lines, f, t, Open(attrs))
           units == ComputeUnits(new)
<1>3. /\ f \in UnitStarts(lines) /\ f \in 1..Len(lines) /\ t \in f..Len(lines)
      /\ ~IsBlank(lines[f]) /\ ~IsBlank(lines[t])
      /\ \A k \in f..t : ~IsMarker(lines[k])
  BY <1>2, PlainRun
<1>4. HasAttr(Open(attrs), "id") /\ attrs["id"] = id
  BY RenamedId
<1> HIDE DEF attrs, f, t, U
<1> DEFINE n == FindUnit(units, <<"group", id>>)
<1>5. n \in 1..Len(units) /\ units[n].first = f /\ units[n].last = t + 2
  <2>1. /\ FindUnit(units, <<"group", attrs["id"]>>) \in 1..Len(units)
        /\ units[FindUnit(units, <<"group", attrs["id"]>>)].first = f
        /\ units[FindUnit(units, <<"group", attrs["id"]>>)].last = t + 2
    <3>1. attrs["id"] \notin ExistingIds(lines)
      BY <1>2, <1>4
    <3>2. f \in UnitStarts(lines) /\ t \in f..Len(lines) /\ HasAttr(Open(attrs), "id")
      BY <1>3, <1>4
    <3>3. \A k \in f..t : ~IsMarker(lines[k])
      BY <1>3
    <3> QED
      BY <3>1, <3>2, <3>3, MarkedUnit
  <2> HIDE DEF units
  <2> QED
    BY <1>4, <2>1
<1> HIDE DEF n
<1>6. /\ IsSeq(new) /\ Len(new) = Len(lines) + 2 /\ Len(lines) \in Nat
      /\ \A i \in 1..(f - 1) : new[i] = lines[i]
      /\ \A i \in (f + 1)..(t + 1) : new[i] = lines[i - 1]
      /\ new[t + 2] = Close
      /\ \A i \in (t + 3)..(Len(lines) + 2) : new[i] = lines[i - 2]
  BY <1>3, AroundFacts, SeqDomain
<1>7. RemoveGroupMarkers(new, <<"group", id>>)
        = Rewritten(RemoveLineCollapsingSeam(RemoveLineCollapsingSeam(new, t + 2), f))
  <2>1. new[t + 2].kind = "close"
    BY <1>6 DEF Close
  <2>2. n # 0 /\ new[units[n].last].kind = "close"
    <3>1. Len(units) \in Nat
      BY <1>6, ComputeFacts
    <3> HIDE DEF units, new
    <3> QED
      BY <1>5, <2>1, <3>1
  <2> HIDE DEF new
  <2> QED
    BY <1>5, <2>2 DEF RemoveGroupMarkers, UngroupIn, UnmarkUnit, n
<1> HIDE DEF new, units
<1> DEFINE out1 == RemoveAt(new, t + 2)
           out2 == RemoveAt(out1, f)
<1>8. /\ IsSeq(out1) /\ Len(out1) = Len(lines) + 1
      /\ \A i \in 1..(t + 1) : out1[i] = new[i]
      /\ \A i \in (t + 2)..(Len(lines) + 1) : out1[i] = new[i + 1]
  <2>1. t + 2 \in 1..Len(new)
    BY <1>3, <1>6
  <2>2. /\ IsSeq(out1) /\ Len(out1) = Len(new) - 1
        /\ \A i \in 1..((t + 2) - 1) : out1[i] = new[i]
        /\ \A i \in (t + 2)..(Len(new) - 1) : out1[i] = new[i + 1]
    BY <1>6, <2>1, Removed
  <2> HIDE DEF out1
  <2> QED
    BY <1>3, <1>6, <2>2
<1>9. RemoveLineCollapsingSeam(new, t + 2) = out1
  <2>1. out1[(t + 2) - 1] = lines[t]
    <3>1. (t + 2) - 1 = t + 1 /\ t + 1 \in 1..(t + 1) /\ t + 1 \in (f + 1)..(t + 1) /\ (t + 1) - 1 = t
      BY <1>3, <1>6
    <3> HIDE DEF out1
    <3> QED
      BY <1>6, <1>8, <3>1
  <2> QED
    BY <1>3, <2>1 DEF RemoveLineCollapsingSeam
<1> HIDE DEF out1
<1>10. /\ IsSeq(out2) /\ Len(out2) = Len(lines)
       /\ \A i \in 1..(f - 1) : out2[i] = out1[i]
       /\ \A i \in f..Len(lines) : out2[i] = out1[i + 1]
  <2>1. f \in 1..Len(out1)
    BY <1>3, <1>6, <1>8
  <2>2. /\ IsSeq(out2) /\ Len(out2) = Len(out1) - 1
        /\ \A i \in 1..(f - 1) : out2[i] = out1[i]
        /\ \A i \in f..(Len(out1) - 1) : out2[i] = out1[i + 1]
    BY <1>8, <2>1, Removed
  <2> HIDE DEF out2
  <2> QED
    BY <1>6, <1>8, <2>2
<1> HIDE DEF out2
<1>11. \A i \in 1..Len(lines) : out2[i] = lines[i]
  <2>1. ASSUME NEW i \in 1..(f - 1) PROVE out2[i] = lines[i]
    <3>1. i \in 1..(t + 1)
      BY <1>3, <1>6
    <3> QED
      BY <1>6, <1>8, <1>10, <3>1
  <2>2. ASSUME NEW i \in f..t PROVE out2[i] = lines[i]
    <3>1. i \in f..Len(lines) /\ i + 1 \in 1..(t + 1) /\ i + 1 \in (f + 1)..(t + 1) /\ (i + 1) - 1 = i
      BY <1>3, <1>6
    <3> QED
      BY <1>6, <1>8, <1>10, <3>1
  <2>3. ASSUME NEW i \in (t + 1)..Len(lines) PROVE out2[i] = lines[i]
    <3>1. /\ i \in f..Len(lines) /\ i + 1 \in (t + 2)..(Len(lines) + 1)
          /\ (i + 1) + 1 \in (t + 3)..(Len(lines) + 2) /\ ((i + 1) + 1) - 2 = i
      BY <1>3, <1>6
    <3> QED
      BY <1>6, <1>8, <1>10, <3>1
  <2> QED
    BY <1>3, <1>6, <2>1, <2>2, <2>3
<1>12. out2 = lines
  BY <1>10, <1>11, SameSeq
<1>13. RemoveLineCollapsingSeam(out1, f) = lines
  BY <1>3, <1>12 DEF RemoveLineCollapsingSeam, out2
<1>14. RemoveGroupMarkers(new, <<"group", id>>) = Rewritten(lines)
  BY <1>7, <1>9, <1>13
<1>15. MarkUnits(lines, U, keys, id, given).text = new
  BY <1>2 DEF Rewritten, new, f, t, attrs
<1> QED
  BY <1>14, <1>15 DEF U

--------------------------------------------------------------------------------
(* Sequences put one after the other *)

\* What holds first, and next wherever it holds, holds everywhere.
LEMMA StepByStep ==
    ASSUME NEW n \in Nat, NEW S, n > 0 => 1 \in S,
           \A k \in 1..(n - 1) : k \in S => k + 1 \in S
    PROVE  \A k \in 1..n : k \in S
<1> DEFINE Bad == {k \in 1..n : k \notin S}
<1>1. ASSUME Bad # {} PROVE FALSE
  <2>1. PICK m \in Bad : \A k \in Bad : m <= k
    <3>1. Bad \in SUBSET Nat
      OBVIOUS
    <3> HIDE DEF Bad
    <3> QED
      BY <1>1, <3>1, Least
  <2>2. m # 1
    BY <2>1
  <2>3. m - 1 \in 1..(n - 1) /\ m - 1 \in 1..n /\ (m - 1) + 1 = m
    BY <2>1, <2>2
  <2>4. m - 1 \notin Bad
    BY <2>1, <2>3
  <2>5. m - 1 \in S
    BY <2>3, <2>4
  <2>6. m \in S
    BY <2>3, <2>5
  <2> QED
    BY <2>1, <2>6
<1> QED
  BY <1>1

\* Flatten, without its CHOOSE.
Flattens(F, s, n) ==
    F = [i \in 1..n |-> IF i = 1 THEN s[i] ELSE F[i - 1] \o s[i]]

\* Sequences can be joined one after the other.
LEMMA FlattenExists ==
    ASSUME NEW s, NEW n \in Nat
    PROVE  \E F : Flattens(F, s, n)
<1> DEFINE Bad == {m \in Nat : ~\E F : Flattens(F, s, m)}
<1>1. ASSUME Bad # {} PROVE FALSE
  <2>1. PICK m \in Bad : \A k \in Bad : m <= k
    <3>1. Bad \in SUBSET Nat
      OBVIOUS
    <3> HIDE DEF Bad
    <3> QED
      BY <1>1, <3>1, Least
  <2>2. m # 0
    <3> DEFINE F == [i \in 1..0 |-> 0]
    <3>1. Flattens(F, s, 0)
      BY DEF Flattens
    <3> QED
      BY <3>1
  <2>3. m - 1 \in Nat /\ m - 1 \notin Bad
    BY <2>1, <2>2
  <2>4. PICK F : Flattens(F, s, m - 1)
    BY <2>3
  <2> DEFINE G == [i \in 1..m |-> IF i < m THEN F[i] ELSE IF i = 1 THEN s[i] ELSE F[i - 1] \o s[i]]
  <2>5. \A i \in 1..m : G[i] = IF i = 1 THEN s[i] ELSE G[i - 1] \o s[i]
    <3>1. ASSUME NEW i \in 1..m PROVE G[i] = IF i = 1 THEN s[i] ELSE G[i - 1] \o s[i]
      <4>1. CASE i = 1
        <5>1. CASE m = 1
          BY <4>1, <5>1
        <5>2. CASE m # 1
          <6>1. 1 \in 1..(m - 1) /\ 1 < m
            BY <2>3, <5>2
          <6>2. F[1] = s[1]
            BY <2>4, <6>1 DEF Flattens
          <6> QED BY <4>1, <6>1, <6>2
        <5> QED BY <5>1, <5>2
      <4>2. CASE i # 1
        <5>1. i - 1 \in 1..m /\ i - 1 < m
          BY <4>2
        <5>2. G[i - 1] = F[i - 1]
          BY <5>1
        <5>3. CASE i = m
          <6>1. G[m] = F[m - 1] \o s[m]
            <7>1. m \in 1..m /\ ~(m < m) /\ m # 1
              BY <4>2, <5>3
            <7>2. G[m] = IF m < m THEN F[m] ELSE IF m = 1 THEN s[m] ELSE F[m - 1] \o s[m]
              BY <7>1
            <7> HIDE DEF G
            <7> QED
              BY <7>1, <7>2
          <6> HIDE DEF G
          <6> QED
            BY <4>2, <5>2, <5>3, <6>1
        <5>4. CASE i < m
          <6>1. i \in 1..(m - 1)
            BY <5>4
          <6>2. F[i] = F[i - 1] \o s[i]
            BY <2>4, <4>2, <6>1 DEF Flattens
          <6> QED
            BY <4>2, <5>2, <5>4, <6>2
        <5> QED
          BY <5>3, <5>4
      <4> QED
        BY <4>1, <4>2
    <3> QED BY <3>1
  <2>6. Flattens(G, s, m)
    <3>1. G = [i \in 1..m |-> G[i]]
      OBVIOUS
    <3> HIDE DEF G
    <3> QED BY <2>5, <3>1 DEF Flattens
  <2> QED
    BY <2>1, <2>6
<1> QED
  BY <1>1

\* FlattenSeq joins sequences one after the other.
LEMMA FlattenIs ==
    ASSUME NEW s, Len(s) \in Nat \ {0}
    PROVE  \E F : Flattens(F, s, Len(s)) /\ FlattenSeq(s) = F[Len(s)]
<1> DEFINE G == CHOOSE F : F = [i \in 1..Len(s) |-> IF i = 1 THEN s[i] ELSE F[i - 1] \o s[i]]
<1>1. Flattens(G, s, Len(s))
  BY FlattenExists DEF Flattens
<1>2. FlattenSeq(s) = G[Len(s)]
  BY DEF FlattenSeq
<1> QED
  BY <1>1, <1>2

\* Arithmetic of offsets.
LEMMA Grows ==
    ASSUME NEW a \in Nat, NEW b \in Nat, NEW c, c = a + b
    PROVE  c \in Nat /\ a <= c
OBVIOUS

\* Arithmetic of offsets.
LEMMA Before ==
    ASSUME NEW a \in Nat, NEW b \in Nat, NEW c \in Nat, c = a + b, NEW d \in Nat, c <= d, NEW i \in 1..b
    PROVE  a + i \in 1..d
OBVIOUS

\* In the sequence s flattened, its k-th member ends at q[k].
Offsets(s, n, q) ==
    /\ q[0] = 0 /\ Len(FlattenSeq(s)) = q[n]
    /\ \A k \in 0..n : q[k] \in Nat
    /\ \A k \in 1..n : q[k] = q[k - 1] + Len(s[k])
    /\ \A k \in 1..n : \A i \in 1..Len(s[k]) : FlattenSeq(s)[q[k - 1] + i] = s[k][i]

\* Where each of several joined sequences begins, and what its elements are.
LEMMA Flattened ==
    ASSUME NEW s, NEW n \in Nat, n # 0, Len(s) = n, \A k \in 1..n : IsSeq(s[k])
    PROVE  /\ IsSeq(FlattenSeq(s))
           /\ \E q : Offsets(s, n, q)
<1>1. PICK F : Flattens(F, s, n) /\ FlattenSeq(s) = F[n]
  BY FlattenIs
<1>2. F[1] = s[1] /\ \A k \in 2..n : F[k] = F[k - 1] \o s[k]
  <2>1. 1 \in 1..n /\ \A k \in 2..n : k \in 1..n /\ k # 1
    OBVIOUS
  <2> QED
    BY <1>1, <2>1 DEF Flattens
<1>3. \A k \in 1..n : Len(s[k]) \in Nat
  BY SeqDomain
<1> DEFINE q == [k \in 0..n |-> IF k = 0 THEN 0 ELSE Len(F[k])]
           At(m) == /\ IsSeq(F[m])
                    /\ \A k \in 1..m : q[k] \in Nat /\ q[k] = q[k - 1] + Len(s[k]) /\ q[k] <= q[m]
                    /\ \A k \in 1..m : \A i \in 1..Len(s[k]) : F[m][q[k - 1] + i] = s[k][i]
           S == {m \in 1..n : At(m)}
<1>4. q[0] = 0 /\ \A k \in 1..n : q[k] = Len(F[k])
  OBVIOUS
<1> HIDE DEF q
<1>5. 1 \in S
  <2>1. IsSeq(F[1]) /\ 1 \in 1..n
    BY <1>2
  <2>2. \A k \in 1..1 : k = 1 /\ k - 1 = 0
    OBVIOUS
  <2>3. q[1] = Len(s[1]) /\ Len(s[1]) \in Nat
    BY <1>2, <1>3, <1>4, <2>1
  <2>4. \A i \in 1..Len(s[1]) : 0 + i = i
    BY <2>3
  <2>5. At(1)
    BY <1>2, <1>4, <2>1, <2>2, <2>3, <2>4
  <2> HIDE DEF At
  <2> QED
    BY <2>1, <2>5
<1>6. ASSUME NEW m \in 1..(n - 1), m \in S PROVE m + 1 \in S
  <2>1. m \in 1..n /\ m + 1 \in 1..n /\ m + 1 \in 2..n /\ (m + 1) - 1 = m
    OBVIOUS
  <2>2. F[m + 1] = F[m] \o s[m + 1]
    BY <1>2, <2>1
  <2>3. At(m)
    BY <1>6
  <2>4. IsSeq(F[m]) /\ IsSeq(s[m + 1])
    BY <2>1, <2>3
  <2>5. /\ IsSeq(F[m + 1])
        /\ Len(F[m + 1]) = Len(F[m]) + Len(s[m + 1])
        /\ \A i \in 1..Len(F[m]) : F[m + 1][i] = F[m][i]
        /\ \A i \in 1..Len(s[m + 1]) : F[m + 1][Len(F[m]) + i] = s[m + 1][i]
    <3> DEFINE a == F[m]
               b == s[m + 1]
    <3>1. IsSeq(a) /\ IsSeq(b)
      BY <2>4
    <3> HIDE DEF a, b
    <3>2. /\ IsSeq(a \o b)
          /\ Len(a \o b) = Len(a) + Len(b)
          /\ \A i \in 1..Len(a) : (a \o b)[i] = a[i]
          /\ \A i \in 1..Len(b) : (a \o b)[Len(a) + i] = b[i]
      BY <3>1, Joining
    <3> QED
      BY <2>2, <3>2 DEF a, b
  <2>6. q[m] = Len(F[m]) /\ q[m + 1] = Len(F[m + 1]) /\ q[m] \in Nat /\ Len(s[m + 1]) \in Nat
    BY <1>3, <1>4, <2>1, <2>3
  <2>7. q[m + 1] = q[m] + Len(s[m + 1]) /\ q[m + 1] \in Nat /\ q[m] <= q[m + 1]
    <3>1. q[m + 1] = q[m] + Len(s[m + 1])
      BY <2>5, <2>6
    <3> QED
      BY <2>6, <3>1, Grows
  <2>8. \A k \in 1..(m + 1) : k \in 1..m \/ (k = m + 1 /\ k - 1 = m)
    OBVIOUS
  <2>9. ASSUME NEW k \in 1..m
        PROVE  q[k] \in Nat /\ q[k] = q[k - 1] + Len(s[k]) /\ q[k] <= q[m + 1]
    <3>1. q[k] \in Nat /\ q[k] = q[k - 1] + Len(s[k]) /\ q[k] <= q[m]
      BY <2>3
    <3>2. q[m] \in Nat /\ q[m + 1] \in Nat /\ q[m] <= q[m + 1]
      BY <2>6, <2>7
    <3>3. q[k] <= q[m + 1]
      BY <3>1, <3>2
    <3> QED
      BY <3>1, <3>3
  <2>10. ASSUME NEW k \in 1..m, NEW i \in 1..Len(s[k])
         PROVE  F[m + 1][q[k - 1] + i] = s[k][i]
    <3>1. F[m][q[k - 1] + i] = s[k][i] /\ q[k] \in Nat /\ q[k] = q[k - 1] + Len(s[k]) /\ q[k] <= q[m]
      BY <2>3
    <3>2. q[k - 1] \in Nat
      <4>1. CASE k = 1
        BY <1>4, <4>1
      <4>2. CASE k # 1
        <5>1. k - 1 \in 1..m
          BY <2>1, <4>2
        <5> QED
          BY <2>3, <5>1
      <4> QED
        BY <4>1, <4>2
    <3>3. Len(s[k]) \in Nat
      BY <1>3, <2>1
    <3>4. q[k - 1] + i \in 1..Len(F[m])
      <4>1. Len(F[m]) \in Nat /\ q[k] <= Len(F[m])
        BY <2>6, <3>1
      <4> QED
        BY <3>1, <3>2, <3>3, <4>1, Before
    <3> QED
      BY <2>5, <3>1, <3>4
  <2>11. At(m + 1)
    <3>1. \A k \in 1..(m + 1) : q[k] \in Nat /\ q[k] = q[k - 1] + Len(s[k]) /\ q[k] <= q[m + 1]
      BY <2>7, <2>8, <2>9
    <3>2. \A k \in 1..(m + 1) : \A i \in 1..Len(s[k]) : F[m + 1][q[k - 1] + i] = s[k][i]
      BY <2>5, <2>6, <2>8, <2>10
    <3> QED
      BY <2>5, <3>1, <3>2
  <2> HIDE DEF At
  <2> QED
    BY <2>1, <2>11
<1>7. n \in S
  <2> HIDE DEF S
  <2>1. \A k \in 1..n : k \in S
    BY <1>5, <1>6, StepByStep
  <2> QED
    BY <2>1
<1>8. At(n)
  BY <1>7
<1>9. Len(F[n]) = q[n] /\ \A k \in 0..n : q[k] \in Nat
  <2>1. \A k \in 0..n : k = 0 \/ k \in 1..n
    OBVIOUS
  <2> QED
    BY <1>4, <1>8, <2>1
<1>10. Offsets(s, n, q)
  BY <1>1, <1>4, <1>8, <1>9 DEF Offsets
<1> QED
  BY <1>1, <1>8, <1>10

--------------------------------------------------------------------------------
(* Texts in which no id is carried twice *)

UniqueIds(lines) ==
    \A i, j \in Carriers(lines) :
       (i # j /\ HasAttr(lines[i], "id") /\ HasAttr(lines[j], "id")) =>
          lines[i].attrs["id"] # lines[j].attrs["id"]

Implicits(lines, S) == {k \in S : UnitKind(lines[k]) = "implicit"}

\* computeUnits: a block without a directive is known by its number.
LEMMA ImplicitKey ==
    ASSUME NEW lines, NEW S, NEW i, UnitAt(lines, S, i).kind = "implicit"
    PROVE  UnitAt(lines, S, i).key = <<"implicit", Cardinality(UpTo(Implicits(lines, S), i))>>
<1>1. UnitKind(lines[i]) = "implicit"
  BY DEF UnitAt
<1>2. {j \in S : j <= i /\ UnitKind(lines[j]) = "implicit"} = UpTo(Implicits(lines, S), i)
  BY DEF UpTo, Implicits
<1>3. UnitAt(lines, S, i).key =
        <<"implicit", Cardinality({j \in S : j <= i /\ UnitKind(lines[j]) = "implicit"})>>
  BY <1>1 DEF UnitAt
<1> QED
  BY <1>2, <1>3

\* computeUnits: in a page with unique ids a group is known by its id, and by
\* its line without one.
LEMMA GroupKey ==
    ASSUME NEW lines, UniqueIds(lines), NEW S \in SUBSET DOMAIN lines,
           NEW i \in DOMAIN lines, i \in Int, lines[i].kind = "open"
    PROVE  LET u == UnitAt(lines, S, i) IN
           /\ HasAttr(lines[i], "id") => u.key = <<"group", lines[i].attrs["id"]>> /\ u.fault = "none"
           /\ ~HasAttr(lines[i], "id") => u.key = <<"line", i>> /\ u.fault # "none"
<1> DEFINE before == {j \in S : j < i}
           claimed == OpenIds(lines, {j \in before : lines[j].kind = "open"})
           u == UnitAt(lines, S, i)
<1>1. UnitKind(lines[i]) = "group"
  BY DEF UnitKind
<1>2. u.key = GroupIdentity(lines[i].attrs, i, claimed).key
  BY <1>1 DEF UnitAt
<1>3. u.fault = GroupIdentity(lines[i].attrs, i, claimed).fault
  BY <1>1 DEF UnitAt
<1>4. HasAttr(lines[i], "id") => lines[i].attrs["id"] \notin claimed
  <2>1. ASSUME HasAttr(lines[i], "id"), NEW h \in before, lines[h].kind = "open",
               HasAttr(lines[h], "id"), lines[h].attrs["id"] = lines[i].attrs["id"]
        PROVE  FALSE
    <3>1. h \in Carriers(lines) /\ i \in Carriers(lines) /\ h # i
      BY <2>1 DEF Carriers
    <3> QED
      BY <2>1, <3>1 DEF UniqueIds
  <2> QED
    BY <2>1 DEF OpenIds
<1> HIDE DEF claimed, u
<1>5. CASE HasAttr(lines[i], "id")
  BY <1>2, <1>3, <1>4, <1>5 DEF GroupIdentity, HasAttr, u
<1>6. CASE ~HasAttr(lines[i], "id")
  BY <1>2, <1>3, <1>6 DEF GroupIdentity, HasAttr, u
<1> QED
  BY <1>5, <1>6 DEF u

\* No two units have the same key.
LEMMA KeysApart ==
    ASSUME NEW lines, IsSeq(lines), UniqueIds(lines),
           NEW m \in 1..Len(ComputeUnits(lines)), NEW n \in 1..Len(ComputeUnits(lines)),
           ComputeUnits(lines)[m].key = ComputeUnits(lines)[n].key
    PROVE  m = n
<1> DEFINE S == UnitStarts(lines)
           U == ComputeUnits(lines)
<1>1. /\ Len(U) \in Nat
      /\ \A k \in 1..Len(U) : /\ U[k] = UnitAt(lines, S, U[k].first)
                              /\ U[k].first \in S
                              /\ U[k].kind = UnitKind(lines[U[k].first])
      /\ \A j, k \in 1..Len(U) : j < k => U[j].first < U[k].first
  BY ComputeFacts
<1>2. /\ S \in SUBSET (Nat \ {0}) /\ IsFiniteSet(S)
      /\ \A s \in S : s \in 1..Len(lines)
  BY StartFacts
<1>3. Len(lines) \in Nat /\ DOMAIN lines = 1..Len(lines)
  BY SeqDomain
<1> HIDE DEF U, S
<1>4. ASSUME NEW a \in 1..Len(U), NEW b \in 1..Len(U), a < b, U[a].key = U[b].key
      PROVE  FALSE
  <2> DEFINE i == U[a].first
             j == U[b].first
  <2>1. /\ i \in S /\ j \in S /\ i < j /\ i \in DOMAIN lines /\ j \in DOMAIN lines /\ i \in Int /\ j \in Int
        /\ i \in Nat /\ j \in Nat
        /\ U[a] = UnitAt(lines, S, i) /\ U[b] = UnitAt(lines, S, j)
    <3>1. i \in S /\ j \in S /\ i < j /\ U[a] = UnitAt(lines, S, i) /\ U[b] = UnitAt(lines, S, j)
      BY <1>1, <1>4
    <3>2. i \in 1..Len(lines) /\ j \in 1..Len(lines)
      BY <1>2, <3>1
    <3> QED
      BY <1>3, <3>1, <3>2
  <2>2. S \in SUBSET DOMAIN lines
    BY <1>2, <1>3
  <2> HIDE DEF i, j
  <2> DEFINE u == UnitAt(lines, S, i)
             w == UnitAt(lines, S, j)
  <2>3. /\ u.kind = "atom" => u.key = <<"atom", lines[i].attrs["id"]>>
        /\ u.kind = "implicit" => u.key[1] = "implicit"
        /\ u.kind \in {"atom", "implicit", "group"}
        /\ u.kind = "group" <=> lines[i].kind = "open"
        /\ w.kind = "atom" => w.key = <<"atom", lines[j].attrs["id"]>>
        /\ w.kind = "implicit" => w.key[1] = "implicit"
        /\ w.kind \in {"atom", "implicit", "group"}
        /\ w.kind = "group" <=> lines[j].kind = "open"
    BY KeyFacts
  <2>4. u.kind = "group" =>
           \/ HasAttr(lines[i], "id") /\ u.key = <<"group", lines[i].attrs["id"]>>
           \/ u.key = <<"line", i>>
    BY <2>1, <2>2, <2>3, GroupKey
  <2>5. w.kind = "group" =>
           \/ HasAttr(lines[j], "id") /\ w.key = <<"group", lines[j].attrs["id"]>>
           \/ w.key = <<"line", j>>
    BY <2>1, <2>2, <2>3, GroupKey
  <2>6. u.key = w.key
    BY <1>4, <2>1
  <2>7. u.kind = UnitKind(lines[i]) /\ w.kind = UnitKind(lines[j])
    BY DEF UnitAt
  <2> HIDE DEF u, w
  <2>8. CASE u.kind = "atom"
    <3>1. w.kind = "atom"
      BY <2>3, <2>5, <2>6, <2>8
    <3>2. lines[i].attrs["id"] = lines[j].attrs["id"]
      BY <2>3, <2>6, <2>8, <3>1
    <3>3. /\ lines[i].kind = "atom" /\ HasAttr(lines[i], "id")
          /\ lines[j].kind = "atom" /\ HasAttr(lines[j], "id")
      BY <2>7, <2>8, <3>1 DEF UnitKind
    <3>4. i \in Carriers(lines) /\ j \in Carriers(lines) /\ i # j
      BY <2>1, <3>3 DEF Carriers
    <3> QED
      BY <3>2, <3>3, <3>4 DEF UniqueIds
  <2>9. CASE u.kind = "group"
    <3>1. w.kind = "group"
      BY <2>3, <2>4, <2>5, <2>6, <2>9
    <3>2. \/ /\ HasAttr(lines[i], "id") /\ HasAttr(lines[j], "id")
             /\ lines[i].attrs["id"] = lines[j].attrs["id"]
          \/ i = j
      BY <2>4, <2>5, <2>6, <2>9, <3>1
    <3>3. i \in Carriers(lines) /\ j \in Carriers(lines) /\ i # j
      BY <2>1, <2>3, <2>9, <3>1 DEF Carriers
    <3> QED
      BY <3>2, <3>3 DEF UniqueIds
  <2>10. CASE u.kind = "implicit"
    <3>1. w.kind = "implicit"
      BY <2>3, <2>5, <2>6, <2>10
    <3> DEFINE T == Implicits(lines, S)
    <3>2. /\ u.key = <<"implicit", Cardinality(UpTo(T, i))>>
          /\ w.key = <<"implicit", Cardinality(UpTo(T, j))>>
      BY <2>10, <3>1, ImplicitKey DEF u, w
    <3>4. Cardinality(UpTo(T, i)) = Cardinality(UpTo(T, j))
      <4>1. u.key[2] = Cardinality(UpTo(T, i)) /\ w.key[2] = Cardinality(UpTo(T, j))
        <5> HIDE DEF T
        <5> QED
          BY <3>2
      <4> QED
        BY <2>6, <4>1
    <3>5. i \in T /\ j \in T
      BY <2>1, <2>7, <2>10, <3>1 DEF Implicits
    <3>6. T \in SUBSET (Nat \ {0}) /\ IsFiniteSet(T)
      <4>1. T \in SUBSET S
        BY DEF Implicits
      <4> QED
        BY <1>2, <4>1, FS_Subset
    <3> HIDE DEF T
    <3>7. /\ Cardinality(T) \in Nat
          /\ Cardinality(UpTo(T, i)) \in 1..Cardinality(T)
          /\ Cardinality(UpTo(T, j)) \in 1..Cardinality(T)
          /\ Cardinality(UpTo(T, i)) < Cardinality(UpTo(T, j))
      BY <2>1, <3>5, <3>6, Ranks
    <3> QED
      BY <3>4, <3>7
  <2> QED
    BY <2>3, <2>8, <2>9, <2>10
<1>5. ~(m < n) /\ ~(n < m)
  BY <1>4 DEF U
<1> QED
  BY <1>5

--------------------------------------------------------------------------------
(* The order after a move *)

\* The elements of a sequence with one more.
LEMMA Inserted ==
    ASSUME NEW s, IsSeq(s), NEW p \in 1..(Len(s) + 1), NEW x
    PROVE  /\ IsSeq(InsertAt(s, p, x)) /\ Len(InsertAt(s, p, x)) = Len(s) + 1
           /\ \A i \in 1..(p - 1) : InsertAt(s, p, x)[i] = s[i]
           /\ InsertAt(s, p, x)[p] = x
           /\ \A i \in (p + 1)..(Len(s) + 1) : InsertAt(s, p, x)[i] = s[i - 1]
<1> DEFINE a == SubSeq(s, 1, p - 1)
           b == SubSeq(s, p, Len(s))
           n == Len(s)
<1>1. n \in Nat
  BY SeqDomain
<1>2. /\ IsSeq(a) /\ Len(a) = p - 1
      /\ \A i \in 1..(p - 1) : a[i] = s[i]
  <2>1. /\ IsSeq(SubSeq(s, 1, p - 1))
        /\ Len(SubSeq(s, 1, p - 1)) = IF 1 <= p - 1 THEN (p - 1) - 1 + 1 ELSE 0
        /\ \A i \in 1..((p - 1) - 1 + 1) : SubSeq(s, 1, p - 1)[i] = s[1 + i - 1]
    BY <1>1, Cutting
  <2> QED
    BY <1>1, <2>1
<1>3. /\ IsSeq(b) /\ Len(b) = n - p + 1
      /\ \A i \in 1..(n - p + 1) : b[i] = s[p + i - 1]
  BY <1>1, Cutting
<1>4. IsSeq(<<x>>) /\ Len(<<x>>) = 1 /\ <<x>>[1] = x
  BY Single
<1>5. InsertAt(s, p, x) = (a \o <<x>>) \o b
  BY DEF InsertAt
<1> HIDE DEF a, b, n
<1> DEFINE d == a \o <<x>>
<1>6. /\ IsSeq(d) /\ Len(d) = p
      /\ \A i \in 1..(p - 1) : d[i] = s[i]
      /\ d[p] = x
  <2>1. /\ IsSeq(d)
        /\ Len(d) = Len(a) + 1
        /\ \A i \in 1..Len(a) : d[i] = a[i]
        /\ \A i \in 1..1 : d[Len(a) + i] = <<x>>[i]
    BY <1>2, <1>4, Joining
  <2>2. d[Len(a) + 1] = x
    BY <1>4, <2>1
  <2> HIDE DEF d
  <2> QED
    BY <1>1, <1>2, <2>1, <2>2
<1> HIDE DEF d
<1>7. /\ IsSeq(d \o b)
      /\ Len(d \o b) = Len(d) + Len(b)
      /\ \A i \in 1..Len(d) : (d \o b)[i] = d[i]
      /\ \A i \in Len(d)+1..Len(d) + Len(b) : (d \o b)[i] = b[i - Len(d)]
  <2>1. IsSeq(d) /\ IsSeq(b)
    BY <1>3, <1>6
  <2> QED
    BY <2>1, Joining
<1>8. InsertAt(s, p, x) = d \o b
  BY <1>5 DEF d
<1>9. \A i \in (p + 1)..(n + 1) : /\ i \in Len(d)+1..Len(d) + Len(b)
                                  /\ i - Len(d) \in 1..(n - p + 1)
                                  /\ p + (i - Len(d)) - 1 = i - 1
  BY <1>1, <1>3, <1>6 DEF n
<1>10. Len(d) + Len(b) = n + 1
  BY <1>1, <1>3, <1>6 DEF n
<1>11. \A i \in 1..p : (d \o b)[i] = d[i]
  BY <1>6, <1>7
<1>12. \A i \in 1..(p - 1) : i \in 1..p
  BY <1>1 DEF n
<1>13. p \in 1..p
  BY <1>1 DEF n
<1> QED
  BY <1>3, <1>6, <1>7, <1>8, <1>9, <1>10, <1>11, <1>12, <1>13 DEF n

MovedTo(n, m, t) == Min({IF m < t THEN t - 1 ELSE t, n})

\* reorderUnit: the order of the units after a move.
LEMMA MovedFacts ==
    ASSUME NEW n \in Nat, NEW m \in 1..n, NEW t \in 1..(n + 1)
    PROVE  LET order == MovedOrder(n, m, t)
               w == MovedTo(n, m, t)
           IN /\ IsSeq(order) /\ Len(order) = n /\ DOMAIN order = 1..n
              /\ w \in 1..n
              /\ order[w] = m
              /\ \A k \in 1..(w - 1) : order[k] = IF k < m THEN k ELSE k + 1
              /\ \A k \in (w + 1)..n : order[k] = IF k - 1 < m THEN k - 1 ELSE k
<1> DEFINE id == [k \in 1..n |-> k]
           wanted == IF m < t THEN t - 1 ELSE t
           w == Min({wanted, n})
           r == RemoveAt(id, m)
           order == InsertAt(r, w, m)
<1>1. IsSeq(id) /\ Len(id) = n /\ \A k \in 1..n : id[k] = k
  <2>1. id = [k \in 1..n |-> id[k]]
    OBVIOUS
  <2>2. \A k \in 1..n : id[k] = k
    OBVIOUS
  <2> HIDE DEF id
  <2> QED
    BY <2>1, <2>2, FunctionSeq
<1>2. wanted \in Nat /\ wanted >= 1
  OBVIOUS
<1>3. w \in 1..n
  <2> HIDE DEF wanted
  <2>1. w = IF wanted <= n THEN wanted ELSE n
    BY <1>2, MinOfTwo
  <2> QED
    BY <1>2, <2>1
<1>4. MovedOrder(n, m, t) = order /\ MovedTo(n, m, t) = w
  BY DEF MovedOrder, MovedTo
<1> HIDE DEF id, wanted, w
<1>5. /\ IsSeq(r) /\ Len(r) = n - 1
      /\ \A i \in 1..(m - 1) : r[i] = id[i]
      /\ \A i \in m..(n - 1) : r[i] = id[i + 1]
  BY <1>1, Removed
<1> HIDE DEF r
<1>6. \A k \in 1..(n - 1) : r[k] = IF k < m THEN k ELSE k + 1
  <2>1. ASSUME NEW k \in 1..(n - 1) PROVE r[k] = IF k < m THEN k ELSE k + 1
    <3>1. CASE k < m
      <4>1. k \in 1..(m - 1) /\ k \in 1..n
        BY <3>1
      <4> QED
        BY <1>1, <1>5, <3>1, <4>1
    <3>2. CASE ~(k < m)
      <4>1. k \in m..(n - 1) /\ k + 1 \in 1..n
        BY <3>2
      <4> QED
        BY <1>1, <1>5, <3>2, <4>1
    <3> QED
      BY <3>1, <3>2
  <2> QED
    BY <2>1
<1>7. /\ IsSeq(order) /\ Len(order) = n
      /\ \A i \in 1..(w - 1) : order[i] = r[i]
      /\ order[w] = m
      /\ \A i \in (w + 1)..n : order[i] = r[i - 1]
  <2>1. w \in 1..(Len(r) + 1) /\ Len(r) + 1 = n
    BY <1>3, <1>5
  <2> QED
    BY <1>5, <2>1, Inserted
<1> HIDE DEF order
<1>8. \A k \in 1..(w - 1) : order[k] = IF k < m THEN k ELSE k + 1
  <2>1. \A k \in 1..(w - 1) : k \in 1..(n - 1)
    BY <1>3
  <2> QED
    BY <1>6, <1>7, <2>1
<1>9. \A k \in (w + 1)..n : order[k] = IF k - 1 < m THEN k - 1 ELSE k
  <2>1. \A k \in (w + 1)..n : k - 1 \in 1..(n - 1) /\ (k - 1) + 1 = k
    BY <1>3
  <2> QED
    BY <1>6, <1>7, <2>1
<1> QED
  BY <1>3, <1>4, <1>7, <1>8, <1>9, SeqDomain DEF order

\* An order of 1..n.
Shuffles(order, n) ==
    /\ \A k \in 1..n : order[k] \in 1..n
    /\ \A j, k \in 1..n : order[j] = order[k] => j = k
    /\ \A u \in 1..n : \E k \in 1..n : order[k] = u

\* A move only permutes.
LEMMA MovedPermutes ==
    ASSUME NEW n \in Nat, NEW m \in 1..n, NEW t \in 1..(n + 1)
    PROVE  Shuffles(MovedOrder(n, m, t), n)
<1> DEFINE order == MovedOrder(n, m, t)
           w == MovedTo(n, m, t)
<1>1. /\ w \in 1..n
      /\ order[w] = m
      /\ \A k \in 1..(w - 1) : order[k] = IF k < m THEN k ELSE k + 1
      /\ \A k \in (w + 1)..n : order[k] = IF k - 1 < m THEN k - 1 ELSE k
  BY MovedFacts
<1> HIDE DEF order, w
<1>2. \A k \in 1..n : \/ k = w /\ order[k] = m
                      \/ k \in 1..(w - 1) /\ order[k] = IF k < m THEN k ELSE k + 1
                      \/ k \in (w + 1)..n /\ order[k] = IF k - 1 < m THEN k - 1 ELSE k
  <2>1. \A k \in 1..n : k = w \/ k \in 1..(w - 1) \/ k \in (w + 1)..n
    BY <1>1
  <2> QED
    BY <1>1, <2>1
<1>3. \A k \in 1..n : order[k] \in 1..n
  BY <1>1, <1>2
<1>4. ASSUME NEW j \in 1..n, NEW k \in 1..n, order[j] = order[k] PROVE j = k
  BY <1>1, <1>2, <1>4
<1>5. ASSUME NEW u \in 1..n PROVE \E k \in 1..n : order[k] = u
  <2> DEFINE p == IF u < m THEN u ELSE u - 1
  <2>1. CASE u = m
    BY <1>1, <2>1
  <2>2. CASE u # m /\ p < w
    <3>1. p \in 1..(w - 1) /\ p \in 1..n
      BY <1>1, <2>2
    <3>2. order[p] = u
      BY <1>1, <2>2, <3>1
    <3> HIDE DEF p
    <3> QED
      BY <3>1, <3>2
  <2>3. CASE u # m /\ ~(p < w)
    <3>1. p + 1 \in (w + 1)..n /\ p + 1 \in 1..n /\ (p + 1) - 1 = p
      BY <1>1, <2>3
    <3>2. order[p + 1] = u
      BY <1>1, <2>3, <3>1
    <3> HIDE DEF p
    <3> QED
      BY <3>1, <3>2
  <2> QED
    BY <2>1, <2>2, <2>3
<1> QED
  BY <1>3, <1>4, <1>5 DEF order, Shuffles

--------------------------------------------------------------------------------
(* The pieces of a reordered text *)

\* The units of a text are apart, and what is in none of them is blank.
LEMMA UnitLines ==
    ASSUME NEW lines, IsSeq(lines), Paired(lines)
    PROVE  LET U == ComputeUnits(lines) IN
           /\ Len(U) \in Nat /\ DOMAIN U = 1..Len(U)
           /\ \A c \in 1..Len(U) :
                /\ U[c].first \in UnitStarts(lines)
                /\ U[c].first \in 1..Len(lines) /\ U[c].last \in U[c].first..Len(lines)
                /\ U[c].last \in 1..Len(lines)
                /\ PreambleEnd(lines) < U[c].first
                /\ U[c].last = UnitEnd(lines, U[c].first)
           /\ \A c, d \in 1..Len(U) : c < d => U[c].last < U[d].first
           /\ \A i \in 1..Len(lines) :
                (PreambleEnd(lines) < i /\ \A c \in 1..Len(U) : i < U[c].first \/ U[c].last < i)
                  => IsBlank(lines[i])
<1> DEFINE U == ComputeUnits(lines)
           S == UnitStarts(lines)
<1>1. /\ Len(U) \in Nat /\ DOMAIN U = 1..Len(U)
      /\ \A k \in 1..Len(U) : /\ U[k].first \in S
                              /\ U[k].last = UnitEnd(lines, U[k].first)
      /\ \A j, k \in 1..Len(U) : j < k => U[j].first < U[k].first
      /\ \A s \in S : \E k \in 1..Len(U) : U[k].first = s
  BY ComputeFacts
<1> HIDE DEF U
<1>2. Len(lines) \in Nat
  BY SeqDomain
<1>3. ASSUME NEW c \in 1..Len(U)
      PROVE  /\ U[c].first \in S
             /\ U[c].first \in 1..Len(lines) /\ U[c].last \in U[c].first..Len(lines)
             /\ U[c].last \in 1..Len(lines)
             /\ PreambleEnd(lines) < U[c].first
             /\ U[c].last = UnitEnd(lines, U[c].first)
  <2>1. /\ U[c].first \in S /\ U[c].last = UnitEnd(lines, U[c].first)
        /\ U[c].first \in 1..Len(lines) /\ U[c].last \in U[c].first..Len(lines)
        /\ PreambleEnd(lines) < U[c].first
    BY <1>1, UnitFacts
  <2>2. U[c].last \in 1..Len(lines)
    BY <1>2, <2>1
  <2> QED
    BY <2>1, <2>2
<1>4. ASSUME NEW c \in 1..Len(U), NEW d \in 1..Len(U), c < d PROVE U[c].last < U[d].first
  BY <1>1, <1>4, UnitsApart
<1>5. ASSUME NEW i \in 1..Len(lines), PreambleEnd(lines) < i,
             \A c \in 1..Len(U) : i < U[c].first \/ U[c].last < i, ~IsBlank(lines[i])
      PROVE  FALSE
  <2>1. PICK s \in S : s <= i /\ i <= UnitEnd(lines, s)
    BY <1>5, UnitsCover
  <2>2. PICK c \in 1..Len(U) : U[c].first = s
    BY <1>1
  <2>3. U[c].first <= i /\ i <= U[c].last
    BY <1>1, <2>1, <2>2
  <2>4. U[c].first \in Nat /\ U[c].last \in Nat
    BY <1>3
  <2> QED
    BY <1>5, <2>3, <2>4
<1> QED
  BY <1>1, <1>3, <1>4, <1>5 DEF U

\* Arithmetic of gaps.
LEMMA Inside ==
    ASSUME NEW n \in Nat, NEW e \in Nat, NEW x \in 1..n, NEW y \in 1..n, x < y, e < x,
           NEW i \in 1..((y - 1) - (x + 1) + 1)
    PROVE  LET p == (x + 1) + i - 1 IN p \in 1..n /\ p \in Nat /\ e < p /\ x < p /\ p < y
OBVIOUS

\* Arithmetic of gaps.
LEMMA NoneBetween ==
    ASSUME NEW x \in Nat, NEW y \in Nat, (y - 1) - (x + 1) + 1 = 0
    PROVE  y = x + 1
OBVIOUS

\* The lines between two units that are put next to each other.
LEMMA GapFacts ==
    ASSUME NEW lines, IsSeq(lines), Paired(lines), UniqueIds(lines),
           NEW a \in 1..Len(ComputeUnits(lines)), NEW b \in 1..Len(ComputeUnits(lines))
    PROVE  LET U == ComputeUnits(lines)
               gap == GapBetween(lines, U, a, b)
           IN /\ IsSeq(gap) /\ Len(gap) \in Nat
              /\ \A i \in 1..Len(gap) : IsBlank(gap[i])
              /\ Len(gap) = 0 => b = a + 1 /\ U[b].first = U[a].last + 1
<1> DEFINE U == ComputeUnits(lines)
           gap == GapBetween(lines, U, a, b)
           pairs == {n \in 1..(Len(U) - 1) : U[n].key = U[a].key /\ U[n + 1].key = U[b].key}
<1>1. /\ Len(U) \in Nat
      /\ \A c \in 1..Len(U) :
           /\ U[c].first \in 1..Len(lines) /\ U[c].last \in U[c].first..Len(lines)
           /\ U[c].last \in 1..Len(lines)
           /\ PreambleEnd(lines) < U[c].first
      /\ \A c, d \in 1..Len(U) : c < d => U[c].last < U[d].first
      /\ \A i \in 1..Len(lines) :
           (PreambleEnd(lines) < i /\ \A c \in 1..Len(U) : i < U[c].first \/ U[c].last < i)
             => IsBlank(lines[i])
  BY UnitLines
<1>2. \A m, n \in 1..Len(U) : U[m].key = U[n].key => m = n
  BY KeysApart
<1>3. Len(lines) \in Nat /\ PreambleEnd(lines) \in Nat
  BY SeqDomain, PreambleFacts
<1>4. gap = IF pairs = {} THEN <<Blank>>
            ELSE SubSeq(lines, U[Max(pairs)].last + 1, U[Max(pairs) + 1].first - 1)
  BY DEF GapBetween
<1> HIDE DEF gap, U
<1>5. CASE pairs = {}
  <2>1. gap = <<Blank>>
    BY <1>4, <1>5
  <2>2. IsSeq(<<Blank>>) /\ Len(<<Blank>>) = 1 /\ <<Blank>>[1] = Blank
    BY Single
  <2>3. IsBlank(Blank)
    BY DEF IsBlank, Blank
  <2>4. \A i \in 1..1 : i = 1
    OBVIOUS
  <2> QED
    BY <2>1, <2>2, <2>3, <2>4 DEF gap, U
<1>6. CASE pairs # {}
  <2>1. \A n \in pairs : n = a /\ b = a + 1
    <3>1. ASSUME NEW n \in pairs PROVE n = a /\ b = a + 1
      <4>1. n \in 1..Len(U) /\ n + 1 \in 1..Len(U)
        BY <1>1
      <4>2. n = a /\ n + 1 = b
        BY <1>2, <4>1 DEF U
      <4> QED
        BY <4>2
    <3> QED
      BY <3>1
  <2>2. pairs = {a} /\ b = a + 1
    BY <1>6, <2>1
  <2>3. Max(pairs) = a
    <3>1. Max({a}) \in {a}
      <4>1. a \in Nat /\ a <= a
        BY <1>1 DEF U
      <4>2. {a} \in SUBSET Nat /\ {a} # {} /\ \A n \in {a} : n <= a
        BY <4>1
      <4> QED
        BY <4>1, <4>2, MaxFacts
    <3> HIDE DEF pairs
    <3> QED
      BY <2>2, <3>1
  <2> DEFINE f == U[a].last + 1
             t == U[b].first - 1
  <2>4. gap = SubSeq(lines, f, t)
    BY <1>4, <1>6, <2>2, <2>3
  <2>5. /\ U[a].last \in 1..Len(lines) /\ U[b].first \in 1..Len(lines)
        /\ U[a].last < U[b].first /\ PreambleEnd(lines) < U[a].last
    <3>1. /\ U[a].first \in 1..Len(lines) /\ U[a].last \in U[a].first..Len(lines)
          /\ U[a].last \in 1..Len(lines) /\ PreambleEnd(lines) < U[a].first
      BY <1>1 DEF U
    <3>2. U[b].first \in 1..Len(lines) /\ U[a].last < U[b].first
      <4>1. a \in 1..Len(U) /\ b \in 1..Len(U) /\ a < b
        BY <1>1, <2>2 DEF U
      <4> QED
        BY <1>1, <4>1
    <3> QED
      BY <1>3, <3>1, <3>2
  <2>6. f \in Int /\ t \in Int /\ 1 <= f /\ t <= Len(lines) /\ f <= t + 1
    BY <1>3, <2>5
  <2>7. /\ IsSeq(gap) /\ Len(gap) = IF f <= t THEN t - f + 1 ELSE 0
        /\ \A i \in 1..(t - f + 1) : gap[i] = lines[f + i - 1]
    <3> HIDE DEF f, t
    <3> QED
      BY <2>4, <2>6, Cutting
  <2>8. Len(gap) = t - f + 1 /\ Len(gap) \in Nat
    <3> HIDE DEF f, t
    <3> QED
      BY <2>6, <2>7
  <2>9. ASSUME NEW i \in 1..(t - f + 1) PROVE IsBlank(gap[i])
    <3> DEFINE p == f + i - 1
    <3>1. p \in 1..Len(lines) /\ p \in Nat /\ PreambleEnd(lines) < p /\ U[a].last < p /\ p < U[b].first
      BY <1>3, <2>5, Inside
    <3>2. \A c \in 1..Len(U) : p < U[c].first \/ U[c].last < p
      <4>1. ASSUME NEW c \in 1..Len(U) PROVE p < U[c].first \/ U[c].last < p
        <5>0. /\ U[c].first \in Nat /\ U[c].last \in Nat /\ p \in Nat
              /\ U[a].last \in Nat /\ U[b].first \in Nat
          <6>1. U[c].first \in 1..Len(lines) /\ U[c].last \in 1..Len(lines)
            BY <1>1
          <6>2. \A x \in 1..Len(lines) : x \in Nat
            BY <1>3
          <6>3. p \in Nat
            BY <3>1
          <6> HIDE DEF p
          <6> QED
            BY <2>5, <6>1, <6>2, <6>3
        <5>1. c \in Nat /\ a \in Nat /\ a \in 1..Len(U) /\ b \in 1..Len(U)
          BY <1>1 DEF U
        <5>2. CASE c < a
          <6>1. U[c].last < U[a].first /\ U[a].first <= U[a].last /\ U[a].first \in Nat
            BY <1>1, <5>1, <5>2
          <6>2. U[a].last < p
            BY <3>1
          <6> HIDE DEF p
          <6> QED
            BY <5>0, <6>1, <6>2
        <5>3. CASE c = a
          BY <3>1, <5>3
        <5>4. CASE c = b
          BY <3>1, <5>4
        <5>5. CASE b < c
          <6>1. U[b].last < U[c].first /\ U[b].first <= U[b].last /\ U[b].last \in Nat
            BY <1>1, <5>1, <5>5
          <6>2. p < U[b].first
            BY <3>1
          <6> HIDE DEF p
          <6> DEFINE u == U[b].first
                     v == U[b].last
                     w == U[c].first
          <6>3. p < u /\ u <= v /\ v < w /\ p \in Nat /\ u \in Nat /\ v \in Nat /\ w \in Nat
            BY <5>0, <6>1, <6>2
          <6>4. p < w
            <7> HIDE DEF u, v, w
            <7> QED
              BY <6>3
          <6> QED
            BY <6>4
        <5>6. c < a \/ c = a \/ c = b \/ b < c
          BY <2>2, <5>1
        <5> QED
          BY <5>2, <5>3, <5>4, <5>5, <5>6
      <4> QED
        BY <4>1
    <3>3. IsBlank(lines[p])
      <4> HIDE DEF p
      <4> QED
        BY <1>1, <3>1, <3>2
    <3> QED
      BY <2>7, <3>3
  <2>10. Len(gap) = 0 => U[b].first = U[a].last + 1
    <3>1. U[a].last \in Nat /\ U[b].first \in Nat
      BY <1>3, <2>5
    <3> QED
      BY <2>8, <3>1, NoneBetween
  <2> HIDE DEF f, t
  <2> QED
    BY <2>2, <2>7, <2>8, <2>9, <2>10 DEF gap, U
<1> QED
  BY <1>5, <1>6

\* reorderUnit: the preamble stays and only blank lines follow it.
LEMMA NewPreamble ==
    ASSUME NEW lines, IsSeq(lines), Paired(lines), NEW order, Len(ComputeUnits(lines)) # 0
    PROVE  LET pre == Preamble(lines, ComputeUnits(lines), order)
               pe == PreambleEnd(lines)
           IN /\ IsSeq(pre) /\ Len(pre) \in Nat /\ pe <= Len(pre)
              /\ \A p \in 1..pe : pre[p] = lines[p]
              /\ \A p \in (pe + 1)..Len(pre) : IsBlank(pre[p])
<1> DEFINE U == ComputeUnits(lines)
           pre == Preamble(lines, U, order)
           pe == PreambleEnd(lines)
           f == U[1].first
<1>1. /\ Len(U) \in Nat
      /\ \A c \in 1..Len(U) :
           /\ U[c].first \in 1..Len(lines) /\ U[c].last \in U[c].first..Len(lines)
           /\ pe < U[c].first
      /\ \A c, d \in 1..Len(U) : c < d => U[c].last < U[d].first
      /\ \A i \in 1..Len(lines) :
           (pe < i /\ \A c \in 1..Len(U) : i < U[c].first \/ U[c].last < i) => IsBlank(lines[i])
  BY UnitLines
<1>2. Len(lines) \in Nat /\ pe \in 0..Len(lines)
  BY SeqDomain, PreambleFacts
<1>3. f \in 1..Len(lines) /\ pe < f /\ 1 \in 1..Len(U)
  BY <1>1
<1>4. ASSUME NEW i \in (pe + 1)..(f - 1) PROVE i \in 1..Len(lines) /\ IsBlank(lines[i])
  <2>1. i \in 1..Len(lines) /\ pe < i /\ i < f
    BY <1>2, <1>3
  <2>2. \A c \in 1..Len(U) : i < U[c].first
    <3>1. ASSUME NEW c \in 1..Len(U) PROVE i < U[c].first
      <4>1. CASE c = 1
        BY <2>1, <4>1
      <4>2. CASE 1 < c
        <5>1. U[1].last < U[c].first /\ f <= U[1].last /\ U[1].last \in Nat /\ f \in Nat /\ U[c].first \in Nat
          BY <1>1, <1>3, <4>2
        <5> HIDE DEF f
        <5> QED
          BY <2>1, <5>1
      <4> QED
        BY <1>1, <4>1, <4>2
    <3> QED
      BY <3>1
  <2> QED
    BY <1>1, <2>1, <2>2
<1>5. pre = IF pe = 0 THEN <<>>
            ELSE SubSeq(lines, 1, pe) \o
                 (IF U[order[1]].key = U[1].key THEN SubSeq(lines, pe + 1, f - 1) ELSE <<Blank>>)
  BY DEF Preamble
<1> HIDE DEF pre, f, pe, U
<1> DEFINE a == SubSeq(lines, 1, pe)
           b == IF U[order[1]].key = U[1].key THEN SubSeq(lines, pe + 1, f - 1) ELSE <<Blank>>
<1>6. IsSeq(a) /\ Len(a) = pe /\ \A p \in 1..pe : a[p] = lines[p]
  <2>1. /\ IsSeq(SubSeq(lines, 1, pe)) /\ Len(SubSeq(lines, 1, pe)) = IF 1 <= pe THEN pe - 1 + 1 ELSE 0
        /\ \A i \in 1..(pe - 1 + 1) : SubSeq(lines, 1, pe)[i] = lines[1 + i - 1]
    BY <1>2, Cutting
  <2> QED
    BY <1>2, <2>1
<1>7. IsSeq(b) /\ Len(b) \in Nat /\ \A i \in 1..Len(b) : IsBlank(b[i])
  <2>1. CASE U[order[1]].key = U[1].key
    <3>1. /\ IsSeq(SubSeq(lines, pe + 1, f - 1))
          /\ Len(SubSeq(lines, pe + 1, f - 1)) = IF pe + 1 <= f - 1 THEN (f - 1) - (pe + 1) + 1 ELSE 0
          /\ \A i \in 1..((f - 1) - (pe + 1) + 1) : SubSeq(lines, pe + 1, f - 1)[i] = lines[(pe + 1) + i - 1]
      BY <1>2, <1>3, Cutting
    <3>2. b = SubSeq(lines, pe + 1, f - 1)
      BY <2>1
    <3>3. \A i \in 1..((f - 1) - (pe + 1) + 1) : (pe + 1) + i - 1 \in (pe + 1)..(f - 1)
      BY <1>2, <1>3
    <3>4. Len(b) = (f - 1) - (pe + 1) + 1 /\ Len(b) \in Nat
      <4>1. f \in Nat /\ pe \in Nat /\ pe < f
        BY <1>2, <1>3
      <4> HIDE DEF b
      <4> QED
        BY <3>1, <3>2, <4>1
    <3>5. ASSUME NEW i \in 1..Len(b) PROVE IsBlank(b[i])
      <4>1. i \in 1..((f - 1) - (pe + 1) + 1)
        BY <3>4
      <4> HIDE DEF b
      <4> QED
        BY <1>4, <3>1, <3>2, <3>3, <4>1
    <3> HIDE DEF b
    <3> QED
      BY <3>1, <3>2, <3>4, <3>5
  <2>2. CASE ~(U[order[1]].key = U[1].key)
    <3>1. IsSeq(<<Blank>>) /\ Len(<<Blank>>) = 1 /\ <<Blank>>[1] = Blank
      BY Single
    <3>2. IsBlank(Blank)
      BY DEF IsBlank, Blank
    <3>3. \A i \in 1..1 : i = 1
      OBVIOUS
    <3> QED
      BY <2>2, <3>1, <3>2, <3>3
  <2> QED
    BY <2>1, <2>2
<1> HIDE DEF a, b
<1>8. CASE pe = 0
  BY <1>5, <1>8, EmptyIsSeq DEF pre, pe, U
<1>9. CASE pe # 0
  <2>1. pre = a \o b
    BY <1>5, <1>9 DEF a, b
  <2>2. IsSeq(a) /\ IsSeq(b)
    BY <1>6, <1>7
  <2>3. /\ IsSeq(a \o b)
        /\ Len(a \o b) = Len(a) + Len(b)
        /\ \A i \in 1..Len(a) : (a \o b)[i] = a[i]
        /\ \A i \in Len(a)+1..Len(a) + Len(b) : (a \o b)[i] = b[i - Len(a)]
    BY <2>2, Joining
  <2>4. IsSeq(pre) /\ Len(pre) = pe + Len(b) /\ Len(pre) \in Nat /\ pe <= Len(pre)
    BY <1>2, <1>6, <1>7, <2>1, <2>3
  <2>5. \A p \in 1..pe : pre[p] = lines[p]
    BY <1>6, <2>1, <2>3
  <2>6. ASSUME NEW p \in (pe + 1)..Len(pre) PROVE IsBlank(pre[p])
    <3>1. p - pe \in 1..Len(b) /\ p \in pe+1..pe + Len(b)
      BY <1>2, <1>7, <2>4
    <3>2. pre[p] = b[p - pe]
      BY <1>6, <2>1, <2>3, <3>1
    <3> QED
      BY <1>7, <3>1, <3>2
  <2> QED
    BY <2>4, <2>5, <2>6 DEF pre, pe, U
<1> QED
  BY <1>8, <1>9

--------------------------------------------------------------------------------
(* Where the units of a reordered text are *)

\* Offsets do not decrease.
LEMMA Monotone ==
    ASSUME NEW n \in Nat, NEW q, \A k \in 0..n : q[k] \in Nat, \A k \in 1..n : q[k - 1] <= q[k]
    PROVE  \A k \in 0..n : \A j \in 0..k : q[j] <= q[k]
<1> DEFINE S == {k \in 1..n : \A j \in 0..k : q[j] <= q[k]}
<1>1. n > 0 => 1 \in S
  <2>1. ASSUME n > 0 PROVE 1 \in S
    <3>1. \A j \in 0..1 : j = 0 \/ j = 1
      OBVIOUS
    <3>2. 1 \in 1..n /\ 1 - 1 = 0 /\ 1 \in 0..n
      BY <2>1
    <3>3. q[0] <= q[1] /\ q[1] \in Nat
      BY <3>2
    <3>4. q[1] <= q[1]
      BY <3>3
    <3> QED
      BY <3>1, <3>2, <3>3, <3>4
  <2> QED
    BY <2>1
<1>2. ASSUME NEW k \in 1..(n - 1), k \in S PROVE k + 1 \in S
  <2>1. k + 1 \in 1..n /\ (k + 1) - 1 = k /\ k \in 0..n /\ k + 1 \in 0..n
    OBVIOUS
  <2>2. q[k] <= q[k + 1] /\ q[k] \in Nat /\ q[k + 1] \in Nat
    <3>1. q[(k + 1) - 1] <= q[k + 1]
      BY <2>1
    <3> QED
      BY <2>1, <3>1
  <2>3. ASSUME NEW j \in 0..(k + 1) PROVE q[j] <= q[k + 1]
    <3>1. CASE j = k + 1
      BY <2>2, <3>1
    <3>2. CASE j # k + 1
      <4>1. j \in 0..k /\ j \in 0..n
        BY <3>2
      <4>2. q[j] <= q[k] /\ q[j] \in Nat
        BY <1>2, <4>1
      <4> QED
        BY <2>2, <4>2
    <3> QED
      BY <3>1, <3>2
  <2> QED
    BY <2>1, <2>3
<1> HIDE DEF S
<1>3. \A k \in 1..n : k \in S
  BY <1>1, <1>2, StepByStep
<1>4. ASSUME NEW k \in 0..n, NEW j \in 0..k PROVE q[j] <= q[k]
  <2>1. CASE k = 0
    <3>1. j = 0 /\ q[0] \in Nat
      BY <2>1
    <3> QED
      BY <2>1, <3>1
  <2>2. CASE k # 0
    <3>1. k \in S
      BY <1>3, <2>2
    <3> QED
      BY <3>1 DEF S
  <2> QED
    BY <2>1, <2>2
<1> QED
  BY <1>4

\* Every line of a joined text is in one of the parts.
LEMMA Enclosed ==
    ASSUME NEW n \in Nat, NEW q, q[0] = 0, NEW p \in 1..q[n], q[n] \in Nat, n # 0,
           \A k \in 0..n : q[k] \in Nat
    PROVE  \E k \in 1..n : q[k - 1] < p /\ p <= q[k]
<1> DEFINE S == {k \in 1..n : p <= q[k]}
<1>1. S \in SUBSET Nat /\ n \in S
  OBVIOUS
<1>2. PICK k \in S : \A j \in S : k <= j
  <2> HIDE DEF S
  <2> QED
    BY <1>1, Least
<1>3. q[k - 1] < p
  <2>1. CASE k = 1
    BY <2>1
  <2>2. CASE k # 1
    <3>1. k - 1 \in 1..n /\ k - 1 \in 0..n /\ k - 1 < k
      BY <2>2
    <3>2. ~(p <= q[k - 1])
      BY <1>2, <3>1
    <3>3. q[k - 1] \in Nat /\ p \in Nat
      BY <3>1
    <3> QED
      BY <3>2, <3>3
  <2> QED
    BY <2>1, <2>2
<1> QED
  BY <1>2, <1>3

\* How far the k-th unit of the new order reaches below its first line.
Reach(lines, order, k) ==
    ComputeUnits(lines)[order[k]].last - ComputeUnits(lines)[order[k]].first

\* In the new text the k-th unit begins at the line g[k].
Laid(lines, new, order, g) ==
    LET U == ComputeUnits(lines)
        pe == PreambleEnd(lines)
    IN /\ IsSeq(new) /\ pe <= Len(new)
       /\ \A p \in 1..pe : new[p] = lines[p]
       /\ \A k \in 1..Len(U) :
            /\ g[k] \in Nat /\ pe < g[k] /\ g[k] + Reach(lines, order, k) <= Len(new)
            /\ \A i \in 0..Reach(lines, order, k) :
                 new[g[k] + i] = lines[U[order[k]].first + i]
            /\ \/ k = 1 /\ g[k] = pe + 1
               \/ pe + 1 < g[k] /\ IsBlank(new[g[k] - 1])
               \/ /\ k > 1 /\ g[k] = g[k - 1] + Reach(lines, order, k - 1) + 1
                  /\ order[k] = order[k - 1] + 1
                  /\ U[order[k]].first = U[order[k - 1]].last + 1
       /\ \A j, k \in 1..Len(U) : j < k => g[j] + Reach(lines, order, j) < g[k]
       /\ \A p \in (pe + 1)..Len(new) :
            IsBlank(new[p]) \/ \E k \in 1..Len(U) : g[k] <= p /\ p <= g[k] + Reach(lines, order, k)

\* An order of the units.
Permutes(lines, order) ==
    LET n == Len(ComputeUnits(lines)) IN
    /\ n # 0 /\ DOMAIN order = 1..n
    /\ \A k \in 1..n : order[k] \in 1..n
    /\ \A j, k \in 1..n : order[j] = order[k] => j = k
    /\ \A u \in 1..n : \E k \in 1..n : order[k] = u

\* The text that Reordered makes where it makes a new one.
Rearranged(lines, units, order) ==
    Preamble(lines, units, order)
      \o FlattenSeq([k \in DOMAIN order |->
           (IF k = 1 THEN <<>> ELSE GapBetween(lines, units, order[k - 1], order[k]))
             \o SpanOf(lines, units[order[k]])])
      \o SubSeq(lines, Last(units).last + 1, Len(lines))

GapAbove(lines, order, k) ==
    IF k = 1 THEN <<>> ELSE GapBetween(lines, ComputeUnits(lines), order[k - 1], order[k])

\* reorderUnit: a unit in the new text is the blank lines above it and its
\* own lines.
LEMMA PieceFacts ==
    ASSUME NEW lines, IsSeq(lines), Paired(lines), UniqueIds(lines),
           NEW order, Permutes(lines, order), NEW k \in 1..Len(ComputeUnits(lines))
    PROVE  LET U == ComputeUnits(lines)
               gap == GapAbove(lines, order, k)
               piece == gap \o SpanOf(lines, U[order[k]])
               r == Reach(lines, order, k)
           IN /\ IsSeq(piece) /\ Len(piece) = Len(gap) + r + 1
              /\ Len(gap) \in Nat /\ r \in Nat
              /\ \A i \in 1..Len(gap) : IsBlank(piece[i])
              /\ \A i \in 0..r : piece[Len(gap) + 1 + i] = lines[U[order[k]].first + i]
              /\ (Len(gap) = 0 /\ k > 1) => /\ order[k] = order[k - 1] + 1
                                            /\ U[order[k]].first = U[order[k - 1]].last + 1
<1> DEFINE U == ComputeUnits(lines)
           gap == GapAbove(lines, order, k)
           f == U[order[k]].first
           t == U[order[k]].last
           r == Reach(lines, order, k)
           span == SubSeq(lines, f, t)
           piece == gap \o span
<1>1. order[k] \in 1..Len(U) /\ (k > 1 => order[k - 1] \in 1..Len(U)) /\ Len(U) \in Nat
  <2>1. Len(U) \in Nat
    BY UnitLines
  <2>2. k > 1 => k - 1 \in 1..Len(U)
    BY <2>1
  <2> QED
    BY <2>1, <2>2 DEF Permutes
<1>2. f \in 1..Len(lines) /\ t \in f..Len(lines) /\ t \in 1..Len(lines) /\ Len(lines) \in Nat
  BY <1>1, UnitLines, SeqDomain
<1>3. r = t - f /\ r \in Nat
  BY <1>2 DEF Reach
<1>4. /\ IsSeq(gap) /\ Len(gap) \in Nat
      /\ \A i \in 1..Len(gap) : IsBlank(gap[i])
      /\ (Len(gap) = 0 /\ k > 1) => order[k] = order[k - 1] + 1 /\ f = U[order[k - 1]].last + 1
  <2>1. CASE k = 1
    BY <2>1, EmptyIsSeq DEF GapAbove
  <2>2. CASE k # 1
    <3>1. k > 1
      BY <1>1, <2>2
    <3> QED
      BY <1>1, <2>2, <3>1, GapFacts DEF GapAbove
  <2> QED
    BY <2>1, <2>2
<1>5. SpanOf(lines, U[order[k]]) = span
  BY DEF SpanOf
<1> HIDE DEF U, gap, f, t, r
<1>6. IsSeq(span) /\ Len(span) = r + 1 /\ \A i \in 0..r : span[i + 1] = lines[f + i]
  <2>1. /\ IsSeq(span) /\ Len(span) = IF f <= t THEN t - f + 1 ELSE 0
        /\ \A i \in 1..(t - f + 1) : span[i] = lines[f + i - 1]
    BY <1>2, Cutting
  <2> HIDE DEF span
  <2>2. ASSUME NEW i \in 0..r PROVE span[i + 1] = lines[f + i]
    <3>1. i + 1 \in 1..(t - f + 1) /\ f + (i + 1) - 1 = f + i
      BY <1>2, <1>3
    <3> QED
      BY <2>1, <3>1
  <2>3. Len(span) = r + 1
    BY <1>2, <1>3, <2>1
  <2> QED
    BY <2>1, <2>2, <2>3
<1> HIDE DEF span
<1>7. /\ IsSeq(piece) /\ Len(piece) = Len(gap) + Len(span)
      /\ \A i \in 1..Len(gap) : piece[i] = gap[i]
      /\ \A i \in 1..Len(span) : piece[Len(gap) + i] = span[i]
  <2>1. IsSeq(gap) /\ IsSeq(span)
    BY <1>4, <1>6
  <2> QED
    BY <2>1, Joining
<1> HIDE DEF piece
<1>8. ASSUME NEW i \in 0..r PROVE piece[Len(gap) + 1 + i] = lines[f + i]
  <2>1. i + 1 \in 1..Len(span) /\ Len(gap) + (i + 1) = Len(gap) + 1 + i
    BY <1>3, <1>4, <1>6
  <2>2. piece[Len(gap) + (i + 1)] = span[i + 1]
    BY <1>7, <2>1
  <2> QED
    BY <1>6, <2>1, <2>2
<1>9. Len(piece) = Len(gap) + r + 1
  BY <1>3, <1>4, <1>6, <1>7
<1>10. \A i \in 1..Len(gap) : IsBlank(piece[i])
  BY <1>4, <1>7
<1> QED
  BY <1>3, <1>4, <1>5, <1>7, <1>8, <1>9, <1>10 DEF piece, U, gap, f, r

\* reorderUnit: only blank lines come after the last unit.
LEMMA LastUnit ==
    ASSUME NEW lines, IsSeq(lines), Paired(lines), Len(ComputeUnits(lines)) # 0
    PROVE  LET last == Last(ComputeUnits(lines)).last
               tail == SubSeq(lines, last + 1, Len(lines))
           IN /\ IsSeq(tail) /\ Len(tail) \in Nat
              /\ \A i \in 1..Len(tail) : IsBlank(tail[i])
<1> DEFINE U == ComputeUnits(lines)
           n == Len(U)
           last == U[n].last
           tail == SubSeq(lines, last + 1, Len(lines))
<1>1. /\ Len(U) \in Nat
      /\ \A c \in 1..Len(U) :
           /\ U[c].first \in 1..Len(lines) /\ U[c].last \in U[c].first..Len(lines)
           /\ U[c].last \in 1..Len(lines)
           /\ PreambleEnd(lines) < U[c].first
      /\ \A c, d \in 1..Len(U) : c < d => U[c].last < U[d].first
      /\ \A i \in 1..Len(lines) :
           (PreambleEnd(lines) < i /\ \A c \in 1..Len(U) : i < U[c].first \/ U[c].last < i)
             => IsBlank(lines[i])
  BY UnitLines
<1>2. Len(lines) \in Nat /\ PreambleEnd(lines) \in Nat
  BY SeqDomain, PreambleFacts
<1>3. n \in 1..Len(U)
  BY <1>1
<1>4. last \in 1..Len(lines) /\ PreambleEnd(lines) < last
  <2>1. U[n].first \in 1..Len(lines) /\ last \in U[n].first..Len(lines) /\ PreambleEnd(lines) < U[n].first
    BY <1>1, <1>3
  <2> HIDE DEF last, U
  <2> QED
    BY <1>2, <2>1
<1>5. ASSUME NEW i \in 1..Len(lines), last < i PROVE IsBlank(lines[i])
  <2>1. \A c \in 1..Len(U) : U[c].last < i
    <3>1. ASSUME NEW c \in 1..Len(U) PROVE U[c].last < i
      <4>1. CASE c = n
        BY <1>5, <4>1
      <4>2. CASE c < n
        <5>1. /\ U[c].last < U[n].first /\ U[c].last \in 1..Len(lines)
              /\ U[n].first \in 1..Len(lines) /\ last \in U[n].first..Len(lines)
          BY <1>1, <1>3, <4>2
        <5> HIDE DEF U, last
        <5> QED
          BY <1>2, <1>4, <1>5, <5>1
      <4> QED
        BY <1>1, <4>1, <4>2
    <3> QED
      BY <3>1
  <2>2. PreambleEnd(lines) < i
    BY <1>2, <1>4, <1>5
  <2> QED
    BY <1>1, <2>1, <2>2
<1>6. Last(U).last = last
  BY DEF Last
<1> HIDE DEF last, U
<1>7. /\ IsSeq(tail) /\ Len(tail) = IF last + 1 <= Len(lines) THEN Len(lines) - (last + 1) + 1 ELSE 0
      /\ \A i \in 1..(Len(lines) - (last + 1) + 1) : tail[i] = lines[(last + 1) + i - 1]
  BY <1>2, <1>4, Cutting
<1> HIDE DEF tail
<1>8. Len(tail) = Len(lines) - last /\ Len(tail) \in Nat
  BY <1>2, <1>4, <1>7
<1>9. \A i \in 1..Len(tail) : /\ i \in 1..(Len(lines) - (last + 1) + 1)
                              /\ (last + 1) + i - 1 \in 1..Len(lines)
                              /\ last < (last + 1) + i - 1
  BY <1>2, <1>4, <1>8
<1>10. \A i \in 1..Len(tail) : IsBlank(tail[i])
  BY <1>5, <1>7, <1>9
<1> QED
  BY <1>6, <1>7, <1>8, <1>10 DEF tail, U

\* Arithmetic of offsets.
LEMMA OffsetOf ==
    ASSUME NEW a \in Nat, NEW c \in Nat, NEW m \in Nat, NEW b \in Nat,
           NEW e, e = a + c, e <= m, NEW i \in 1..c
    PROVE  a + i \in 1..m /\ b + a + i = b + (a + i) /\ b + (a + i) \in 1..(b + m)
OBVIOUS

\* reorderUnit: where each unit is in the new text, and that the other lines
\* are blank.
LEMMA Layout ==
    ASSUME NEW lines, IsSeq(lines), Paired(lines), UniqueIds(lines),
           NEW order, Permutes(lines, order)
    PROVE  \E g : Laid(lines, Rearranged(lines, ComputeUnits(lines), order), order, g)
<1> DEFINE U == ComputeUnits(lines)
           n == Len(U)
           pe == PreambleEnd(lines)
           pre == Preamble(lines, U, order)
           Gap(k) == GapAbove(lines, order, k)
           R(k) == Reach(lines, order, k)
           s == [k \in 1..n |-> Gap(k) \o SpanOf(lines, U[order[k]])]
           flat == FlattenSeq(s)
           tail == SubSeq(lines, Last(U).last + 1, Len(lines))
           new == Rearranged(lines, U, order)
<1>1. n \in Nat /\ n # 0 /\ DOMAIN order = 1..n
  BY UnitLines DEF Permutes
<1>2. new = (pre \o flat) \o tail
  <2>1. [k \in DOMAIN order |->
           (IF k = 1 THEN <<>> ELSE GapBetween(lines, U, order[k - 1], order[k]))
             \o SpanOf(lines, U[order[k]])] = s
    BY <1>1 DEF GapAbove
  <2> QED
    BY <2>1 DEF Rearranged
<1>3. /\ IsSeq(pre) /\ Len(pre) \in Nat /\ pe <= Len(pre)
      /\ \A p \in 1..pe : pre[p] = lines[p]
      /\ \A p \in (pe + 1)..Len(pre) : IsBlank(pre[p])
  BY <1>1, NewPreamble
<1>4. /\ IsSeq(tail) /\ Len(tail) \in Nat
      /\ \A i \in 1..Len(tail) : IsBlank(tail[i])
  BY <1>1, LastUnit
<1>5. pe \in Nat
  BY PreambleFacts
<1>6. ASSUME NEW k \in 1..n
      PROVE  /\ IsSeq(s[k]) /\ Len(s[k]) = Len(Gap(k)) + R(k) + 1
             /\ Len(Gap(k)) \in Nat /\ R(k) \in Nat
             /\ \A i \in 1..Len(Gap(k)) : IsBlank(s[k][i])
             /\ \A i \in 0..R(k) : s[k][Len(Gap(k)) + 1 + i] = lines[U[order[k]].first + i]
             /\ (Len(Gap(k)) = 0 /\ k > 1) => /\ order[k] = order[k - 1] + 1
                                              /\ U[order[k]].first = U[order[k - 1]].last + 1
  <2>1. s[k] = Gap(k) \o SpanOf(lines, U[order[k]])
    OBVIOUS
  <2> HIDE DEF s
  <2> QED
    BY <2>1, PieceFacts
<1>7. Len(s) = n
  <2>1. s = [k \in 1..n |-> s[k]]
    OBVIOUS
  <2> HIDE DEF s
  <2> QED
    BY <1>1, <2>1, FunctionSeq
<1> HIDE DEF s, pre, tail, Gap, R, new
<1>8. IsSeq(flat)
  BY <1>1, <1>6, <1>7, Flattened
<1>9. PICK q : /\ q[0] = 0 /\ Len(flat) = q[n]
               /\ \A k \in 0..n : q[k] \in Nat
               /\ \A k \in 1..n : q[k] = q[k - 1] + Len(s[k])
               /\ \A k \in 1..n : \A i \in 1..Len(s[k]) : flat[q[k - 1] + i] = s[k][i]
  <2>1. \A k \in 1..n : IsSeq(s[k])
    BY <1>6
  <2>2. n \in Nat /\ n # 0 /\ Len(s) = n
    BY <1>1, <1>7
  <2> HIDE DEF n, U, flat
  <2>4. \A k \in 1..n : IsSeq(s[k])
    BY <2>1
  <2>3. \E q : Offsets(s, n, q)
    BY <2>1, <2>2, Flattened
  <2>5. PICK q : Offsets(s, n, q)
    BY <2>3
  <2> QED
    BY <2>5 DEF Offsets, flat
<1> HIDE DEF flat
<1>10. q[n] \in Nat
  BY <1>1, <1>9
<1> DEFINE b == Len(pre)
           d == pre \o flat
<1>11. /\ IsSeq(d) /\ Len(d) = b + q[n]
       /\ \A i \in 1..b : d[i] = pre[i]
       /\ \A i \in 1..q[n] : d[b + i] = flat[i]
  <2>1. IsSeq(pre) /\ IsSeq(flat)
    BY <1>3, <1>8
  <2>2. Len(flat) = q[n]
    BY <1>9
  <2>3. d = pre \o flat /\ b = Len(pre)
    OBVIOUS
  <2> HIDE DEF d, b, n, U
  <2>4. /\ IsSeq(d) /\ Len(d) = Len(pre) + Len(flat)
        /\ \A i \in 1..Len(pre) : d[i] = pre[i]
        /\ \A i \in 1..Len(flat) : d[Len(pre) + i] = flat[i]
    BY <2>1, <2>3, Joining
  <2> QED
    BY <2>2, <2>3, <2>4
<1> HIDE DEF d
<1>12. /\ IsSeq(new) /\ Len(new) = b + q[n] + Len(tail)
       /\ \A i \in 1..(b + q[n]) : new[i] = d[i]
       /\ \A i \in 1..Len(tail) : new[b + q[n] + i] = tail[i]
  <2>1. IsSeq(d) /\ IsSeq(tail)
    BY <1>4, <1>11
  <2>2. new = d \o tail
    BY <1>2 DEF d
  <2>3. /\ IsSeq(new) /\ Len(new) = Len(d) + Len(tail)
        /\ \A i \in 1..Len(d) : new[i] = d[i]
        /\ \A i \in 1..Len(tail) : new[Len(d) + i] = tail[i]
    BY <2>1, <2>2, Joining
  <2>4. Len(d) = b + q[n]
    BY <1>11
  <2> HIDE DEF b
  <2> QED
    BY <2>3, <2>4
<1> HIDE DEF b
<1>13. b \in Nat /\ pe <= b
  BY <1>3 DEF b
\* Where the lines of the k-th piece are.
<1>14. ASSUME NEW k \in 1..n
       PROVE  /\ q[k - 1] \in Nat /\ q[k] \in Nat /\ q[k] = q[k - 1] + Len(Gap(k)) + R(k) + 1
              /\ q[k - 1] <= q[k] /\ q[k] <= q[n]
  <2>1. k - 1 \in 0..n /\ k \in 0..n /\ n \in 0..n /\ k \in 0..n
    BY <1>1
  <2>2. q[k - 1] \in Nat /\ q[k] \in Nat
    BY <1>9, <2>1
  <2>3. q[k] = q[k - 1] + Len(Gap(k)) + R(k) + 1
    <3>1. q[k] = q[k - 1] + Len(s[k]) /\ Len(s[k]) = Len(Gap(k)) + R(k) + 1
      BY <1>6, <1>9
    <3>2. Len(Gap(k)) \in Nat /\ R(k) \in Nat
      BY <1>6
    <3> QED
      BY <2>2, <3>1, <3>2
  <2>4. q[k - 1] <= q[k]
    BY <1>6, <2>2, <2>3
  <2>5. \A j \in 1..n : q[j - 1] <= q[j]
    <3>1. ASSUME NEW j \in 1..n PROVE q[j - 1] <= q[j]
      <4>1. q[j] = q[j - 1] + Len(s[j]) /\ Len(s[j]) = Len(Gap(j)) + R(j) + 1
        BY <1>6, <1>9
      <4>2. Len(Gap(j)) \in Nat /\ R(j) \in Nat
        BY <1>6
      <4>3. j - 1 \in 0..n
        BY <1>1
      <4>4. q[j - 1] \in Nat
        BY <1>9, <4>3
      <4> QED
        BY <4>1, <4>2, <4>4
    <3> QED
      BY <3>1
  <2>6. q[k] <= q[n]
    <3>1. \A i \in 0..n : \A j \in 0..i : q[j] <= q[i]
      BY <1>1, <1>9, <2>5, Monotone
    <3> QED
      BY <2>1, <3>1
  <2> QED
    BY <2>2, <2>3, <2>4, <2>6
<1>15. ASSUME NEW k \in 1..n, NEW i \in 1..Len(s[k]) PROVE new[b + q[k - 1] + i] = s[k][i]
  <2>1. q[k - 1] \in Nat /\ q[k] = q[k - 1] + Len(s[k]) /\ q[k] <= q[n] /\ Len(s[k]) \in Nat /\ q[k] \in Nat
    BY <1>6, <1>9, <1>14, SeqDomain
  <2>2. q[k - 1] + i \in 1..q[n] /\ b + q[k - 1] + i = b + (q[k - 1] + i)
        /\ b + (q[k - 1] + i) \in 1..(b + q[n])
    BY <1>10, <1>13, <2>1, OffsetOf
  <2>3. new[b + (q[k - 1] + i)] = d[b + (q[k - 1] + i)]
    BY <1>12, <2>2
  <2>4. d[b + (q[k - 1] + i)] = flat[q[k - 1] + i]
    BY <1>11, <2>2
  <2>5. flat[q[k - 1] + i] = s[k][i]
    BY <1>9
  <2> QED
    BY <2>2, <2>3, <2>4, <2>5
<1> DEFINE g == [k \in 1..n |-> b + q[k - 1] + Len(Gap(k)) + 1]
<1>16. \A k \in 1..n : g[k] = b + q[k - 1] + Len(Gap(k)) + 1
  OBVIOUS
<1> HIDE DEF g
<1>17. ASSUME NEW k \in 1..n
       PROVE  /\ g[k] \in Nat /\ b + q[k - 1] < g[k] /\ g[k] + R(k) = b + q[k] /\ pe < g[k]
              /\ g[k] + R(k) <= Len(new)
              /\ Len(Gap(k)) \in Nat /\ R(k) \in Nat
  <2>1. Len(Gap(k)) \in Nat /\ R(k) \in Nat
    BY <1>6
  <2>2. q[k - 1] \in Nat /\ q[k] = q[k - 1] + Len(Gap(k)) + R(k) + 1 /\ q[k] <= q[n] /\ q[k] \in Nat
    BY <1>14
  <2>3. /\ g[k] = b + q[k - 1] + Len(Gap(k)) + 1 /\ b \in Nat /\ pe \in Nat /\ pe <= b
        /\ q[n] \in Nat /\ Len(tail) \in Nat /\ Len(new) = b + q[n] + Len(tail)
    BY <1>4, <1>5, <1>10, <1>12, <1>13, <1>16
  <2> DEFINE a == q[k - 1]
             l == Len(Gap(k))
             r == R(k)
             e == q[k]
             m == q[n]
             h == g[k]
             t == Len(tail)
  <2>5. /\ a \in Nat /\ l \in Nat /\ r \in Nat /\ m \in Nat /\ b \in Nat /\ t \in Nat /\ pe \in Nat
        /\ pe <= b /\ e = a + l + r + 1 /\ e <= m /\ h = b + a + l + 1
    BY <2>1, <2>2, <2>3
  <2> HIDE DEF n, pe, U, a, l, r, e, m, h, t
  <2>6. h \in Nat /\ b + a < h /\ h + r = b + e /\ pe < h /\ h + r <= b + m + t
    BY <2>5
  <2>4. /\ g[k] \in Nat /\ b + q[k - 1] < g[k] /\ g[k] + R(k) = b + q[k] /\ pe < g[k]
        /\ g[k] + R(k) <= b + q[n] + Len(tail)
    BY <2>6 DEF a, l, r, e, m, h, t
  <2> QED
    BY <2>1, <2>3, <2>4
<1>18. ASSUME NEW k \in 1..n, NEW i \in 0..R(k) PROVE new[g[k] + i] = lines[U[order[k]].first + i]
  <2>1. Len(Gap(k)) \in Nat /\ R(k) \in Nat /\ q[k - 1] \in Nat
    BY <1>6, <1>14
  <2>2. Len(Gap(k)) + 1 + i \in 1..Len(s[k]) /\ g[k] + i = b + q[k - 1] + (Len(Gap(k)) + 1 + i)
    <3>1. /\ g[k] = b + q[k - 1] + Len(Gap(k)) + 1 /\ b \in Nat /\ pe \in Nat /\ pe <= b
          /\ q[n] \in Nat /\ q[k] = q[k - 1] + Len(Gap(k)) + R(k) + 1 /\ q[k] <= q[n] /\ 0 \in Nat
          /\ Len(s[k]) = Len(Gap(k)) + R(k) + 1
      BY <1>5, <1>6, <1>10, <1>13, <1>14, <1>16
    <3> DEFINE a == q[k - 1]
               l == Len(Gap(k))
               r == R(k)
               h == g[k]
    <3>5. a \in Nat /\ l \in Nat /\ r \in Nat /\ b \in Nat /\ h = b + a + l + 1 /\ i \in 0..r
      BY <2>1, <3>1
    <3> HIDE DEF n, pe, U, a, l, r, h
    <3>6. l + 1 + i \in 1..(l + r + 1) /\ h + i = b + a + (l + 1 + i)
      BY <3>5
    <3>2. /\ Len(Gap(k)) + 1 + i \in 1..(Len(Gap(k)) + R(k) + 1)
          /\ g[k] + i = b + q[k - 1] + (Len(Gap(k)) + 1 + i)
      BY <3>6 DEF a, l, r, h
    <3> QED
      BY <3>1, <3>2
  <2>3. new[b + q[k - 1] + (Len(Gap(k)) + 1 + i)] = s[k][Len(Gap(k)) + 1 + i]
    BY <1>15, <2>2
  <2> QED
    BY <1>6, <2>2, <2>3
<1>19. ASSUME NEW k \in 1..n
       PROVE  \/ k = 1 /\ g[k] = pe + 1
              \/ pe + 1 < g[k] /\ IsBlank(new[g[k] - 1])
              \/ /\ k > 1 /\ g[k] = g[k - 1] + R(k - 1) + 1
                 /\ order[k] = order[k - 1] + 1
                 /\ U[order[k]].first = U[order[k - 1]].last + 1
  <2>0. Len(Gap(k)) \in Nat /\ R(k) \in Nat /\ q[k - 1] \in Nat /\ g[k] = b + q[k - 1] + Len(Gap(k)) + 1
    BY <1>6, <1>14, <1>16
  <2>1. CASE Len(Gap(k)) # 0
    <3>1. Len(Gap(k)) \in 1..Len(s[k]) /\ Len(Gap(k)) \in 1..Len(Gap(k))
          /\ g[k] - 1 = b + q[k - 1] + Len(Gap(k))
      BY <1>6, <1>13, <2>0, <2>1
    <3>2. new[g[k] - 1] = s[k][Len(Gap(k))]
      BY <1>15, <3>1
    <3>3. IsBlank(s[k][Len(Gap(k))])
      BY <1>6, <3>1
    <3>4. pe + 1 < g[k]
      BY <1>5, <1>13, <2>0, <2>1
    <3> QED
      BY <3>2, <3>3, <3>4
  <2>2. CASE Len(Gap(k)) = 0 /\ k > 1
    <3>1. k - 1 \in 1..n
      BY <1>1, <2>2
    <3>2. g[k - 1] + R(k - 1) = b + q[k - 1]
      BY <1>17, <3>1
    <3>3. g[k] = g[k - 1] + R(k - 1) + 1
      <4>1. g[k - 1] \in Nat /\ R(k - 1) \in Nat
        BY <1>17, <3>1
      <4> QED
        BY <1>13, <2>0, <2>2, <3>2, <4>1
    <3> QED
      BY <1>6, <2>2, <3>3
  <2>3. CASE Len(Gap(k)) = 0 /\ k = 1
    <3>1. q[0] = 0 /\ g[1] = b + 1
      BY <1>9, <1>13, <2>0, <2>3
    <3>2. CASE b = pe
      BY <2>3, <3>1, <3>2
    <3>3. CASE b # pe
      <4>1. b \in (pe + 1)..b /\ b \in 1..(b + q[n]) /\ b \in 1..b /\ g[1] - 1 = b
        BY <1>5, <1>10, <1>13, <3>1, <3>3
      <4>2. new[b] = pre[b]
        BY <1>11, <1>12, <4>1
      <4>3. IsBlank(pre[b])
        BY <1>3, <4>1 DEF b
      <4>4. pe + 1 < g[1]
        BY <1>5, <1>13, <3>1, <3>3
      <4> QED
        BY <2>3, <4>1, <4>2, <4>3, <4>4
    <3> QED
      BY <3>2, <3>3
  <2>4. k > 1 \/ k = 1
    BY <1>1
  <2> QED
    BY <2>1, <2>2, <2>3, <2>4
<1>20. ASSUME NEW j \in 1..n, NEW k \in 1..n, j < k PROVE g[j] + R(j) < g[k]
  <2>1. \A i \in 1..n : q[i - 1] <= q[i]
    BY <1>14
  <2>2. \A i \in 0..n : \A h \in 0..i : q[h] <= q[i]
    BY <1>1, <1>9, <2>1, Monotone
  <2>3. k - 1 \in 0..n /\ j \in 0..(k - 1)
    BY <1>1, <1>20
  <2>4. q[j] <= q[k - 1]
    BY <2>2, <2>3
  <2>5. g[j] + R(j) = b + q[j] /\ b + q[k - 1] < g[k] /\ q[j] \in Nat /\ q[k - 1] \in Nat /\ g[k] \in Nat
    BY <1>14, <1>17
  <2> QED
    BY <1>13, <2>4, <2>5
<1>21. ASSUME NEW p \in (pe + 1)..Len(new)
       PROVE  IsBlank(new[p]) \/ \E k \in 1..n : g[k] <= p /\ p <= g[k] + R(k)
  <2>0. p \in Nat /\ pe < p
    BY <1>5
  <2>1. CASE p <= b
    <3>1. p \in (pe + 1)..b /\ p \in 1..(b + q[n]) /\ p \in 1..b
      BY <1>5, <1>10, <1>13, <2>0, <2>1
    <3>2. new[p] = pre[p]
      BY <1>11, <1>12, <3>1
    <3> QED
      BY <1>3, <3>1, <3>2 DEF b
  <2>2. CASE b + q[n] < p
    <3>1. p - (b + q[n]) \in 1..Len(tail) /\ b + q[n] + (p - (b + q[n])) = p
      BY <1>4, <1>10, <1>12, <1>13, <2>0, <2>2
    <3>2. new[b + q[n] + (p - (b + q[n]))] = tail[p - (b + q[n])]
      BY <1>12, <3>1
    <3> QED
      BY <1>4, <3>1, <3>2
  <2>3. CASE b < p /\ p <= b + q[n]
    <3> DEFINE x == p - b
    <3>1. x \in 1..q[n] /\ p = b + x
      BY <1>10, <1>13, <2>0, <2>3
    <3> HIDE DEF x
    <3>2. PICK k \in 1..n : q[k - 1] < x /\ x <= q[k]
      BY <1>1, <1>9, <1>10, <3>1, Enclosed
    <3>3. /\ q[k - 1] \in Nat /\ q[k] \in Nat /\ g[k] = b + q[k - 1] + Len(Gap(k)) + 1
          /\ Len(Gap(k)) \in Nat /\ R(k) \in Nat /\ g[k] + R(k) = b + q[k]
      BY <1>14, <1>16, <1>17
    <3>6. IF g[k] <= p THEN p <= g[k] + R(k)
          ELSE x - q[k - 1] \in 1..Len(Gap(k)) /\ b + q[k - 1] + (x - q[k - 1]) = p
      <4>1. /\ b \in Nat /\ pe \in Nat /\ pe <= b /\ 0 \in Nat
            /\ q[n] \in Nat /\ q[k] = q[k - 1] + Len(Gap(k)) + R(k) + 1 /\ q[k] <= q[n]
        BY <1>5, <1>10, <1>13, <1>14
      <4> DEFINE a == q[k - 1]
                 l == Len(Gap(k))
                 r == R(k)
                 e == q[k]
                 m == q[n]
                 h == g[k]
      <4>5. /\ a \in Nat /\ l \in Nat /\ r \in Nat /\ m \in Nat /\ b \in Nat
            /\ e = a + l + r + 1 /\ e <= m /\ h = b + a + l + 1 /\ x \in 1..m /\ p = b + x
            /\ a < x /\ x <= e
        BY <3>1, <3>2, <3>3, <4>1
      <4> HIDE DEF n, pe, U, a, l, r, e, m, h
      <4>6. IF h <= p THEN p <= h + r ELSE x - a \in 1..l /\ b + a + (x - a) = p
        BY <4>5
      <4> QED
        BY <4>6 DEF a, l, r, e, m, h
    <3>4. CASE g[k] <= p
      BY <3>4, <3>6
    <3>5. CASE ~(g[k] <= p)
      <4>1. x - q[k - 1] \in 1..Len(Gap(k)) /\ b + q[k - 1] + (x - q[k - 1]) = p
        BY <3>5, <3>6
      <4>2. x - q[k - 1] \in 1..Len(s[k])
        <5>1. Len(s[k]) = Len(Gap(k)) + R(k) + 1
          BY <1>6
        <5> QED
          BY <3>3, <4>1, <5>1
      <4>3. new[b + q[k - 1] + (x - q[k - 1])] = s[k][x - q[k - 1]]
        BY <1>15, <4>2
      <4> QED
        BY <1>6, <4>1, <4>3
    <3> QED
      BY <3>4, <3>5
  <2> QED
    BY <1>10, <1>13, <2>0, <2>1, <2>2, <2>3
<1>22. pe <= Len(new) /\ \A p \in 1..pe : new[p] = lines[p]
  <2>1. \A p \in 1..pe : p \in 1..b /\ p \in 1..(b + q[n])
    BY <1>5, <1>10, <1>13
  <2>2. \A p \in 1..pe : new[p] = lines[p]
    BY <1>3, <1>11, <1>12, <2>1
  <2>3. pe <= Len(new)
    BY <1>4, <1>5, <1>10, <1>12, <1>13
  <2> QED
    BY <2>2, <2>3
<1>23. Laid(lines, new, order, g)
  <2> HIDE DEF n, U, pe
  <2>1. \A k \in 1..n :
            /\ g[k] \in Nat /\ pe < g[k] /\ g[k] + R(k) <= Len(new)
            /\ \A i \in 0..R(k) : new[g[k] + i] = lines[U[order[k]].first + i]
            /\ \/ k = 1 /\ g[k] = pe + 1
               \/ pe + 1 < g[k] /\ IsBlank(new[g[k] - 1])
               \/ /\ k > 1 /\ g[k] = g[k - 1] + R(k - 1) + 1
                  /\ order[k] = order[k - 1] + 1
                  /\ U[order[k]].first = U[order[k - 1]].last + 1
    BY <1>17, <1>18, <1>19
  <2>2. \A j, k \in 1..n : j < k => g[j] + R(j) < g[k]
    BY <1>20
  <2>3. \A p \in (pe + 1)..Len(new) :
            IsBlank(new[p]) \/ \E k \in 1..n : g[k] <= p /\ p <= g[k] + R(k)
    BY <1>21
  <2> QED
    BY <1>12, <1>22, <2>1, <2>2, <2>3 DEF Laid, n, U, pe, R
<1> QED
  BY <1>23 DEF new

--------------------------------------------------------------------------------
(* The lines of a rewritten text, on any page *)

\* A text with lines among S.
Over(s, S) == s \in Seq(S)

\* A text over a set of lines, spelled out.
LEMMA OverIs ==
    ASSUME NEW s, NEW S
    PROVE  Over(s, S) <=> IsSeq(s) /\ Range(s) \subseteq S
<1>1. ASSUME Over(s, S) PROVE IsSeq(s) /\ Range(s) \subseteq S
  <2>1. IsSeq(s)
    BY <1>1, SomeSeq DEF Over
  <2>2. \A i \in DOMAIN s : s[i] \in S
    BY <1>1, LenProperties, ElementOfSeq DEF Over
  <2> QED
    BY <2>1, <2>2 DEF Range
<1>2. ASSUME IsSeq(s), Range(s) \subseteq S PROVE Over(s, S)
  BY <1>2, SeqDomain DEF Over
<1> QED
  BY <1>1, <1>2

\* A text over some lines is over more of them.
LEMMA OverMore ==
    ASSUME NEW S, NEW s, Over(s, S), NEW T, S \subseteq T
    PROVE  Over(s, T)
BY SeqMonotonic DEF Over

\* Two texts over some lines, joined.
LEMMA OverJoin ==
    ASSUME NEW S, NEW s, NEW t, Over(s, S), Over(t, S)
    PROVE  Over(s \o t, S)
BY ConcatProperties DEF Over

\* A part of a text over some lines.
LEMMA OverCut ==
    ASSUME NEW S, NEW s, Over(s, S), NEW a \in Int, NEW b \in Int, 1 <= a, b <= Len(s)
    PROVE  Over(SubSeq(s, a, b), S)
<1>1. \A i \in 1..Len(s) : s[i] \in S
  BY ElementOfSeq DEF Over
<1>2. Len(s) \in Nat
  BY LenProperties DEF Over
<1>3. \A i \in a..b : i \in 1..Len(s)
  BY <1>2
<1> QED
  BY <1>1, <1>3, SubSeqProperties DEF Over

\* A text of one line.
LEMMA OverSingle ==
    ASSUME NEW S, NEW x \in S
    PROVE  Over(<<x>>, S)
BY DEF Over

\* The empty text.
LEMMA OverEmpty ==
    ASSUME NEW S
    PROVE  Over(<<>>, S)
BY DEF Over

\* Several texts over some lines, joined.
LEMMA OverFlatten ==
    ASSUME NEW S, NEW s, NEW n \in Nat, n # 0, Len(s) = n, \A k \in 1..n : Over(s[k], S)
    PROVE  Over(FlattenSeq(s), S)
<1>1. PICK F : Flattens(F, s, n) /\ FlattenSeq(s) = F[n]
  BY FlattenIs
<1>2. F[1] = s[1] /\ \A k \in 2..n : F[k] = F[k - 1] \o s[k]
  <2>1. 1 \in 1..n /\ \A k \in 2..n : k \in 1..n /\ k # 1
    OBVIOUS
  <2> QED
    BY <1>1, <2>1 DEF Flattens
<1> DEFINE G == {m \in 1..n : Over(F[m], S)}
<1>3. 1 \in G
  <2>1. 1 \in 1..n
    OBVIOUS
  <2> QED
    BY <1>2, <2>1
<1>4. ASSUME NEW m \in 1..(n - 1), m \in G PROVE m + 1 \in G
  <2>1. m + 1 \in 2..n /\ m + 1 \in 1..n /\ (m + 1) - 1 = m
    OBVIOUS
  <2>2. F[m + 1] = F[m] \o s[m + 1]
    BY <1>2, <2>1
  <2>3. Over(F[m], S) /\ Over(s[m + 1], S)
    BY <1>4, <2>1
  <2> QED
    BY <2>1, <2>2, <2>3, OverJoin
<1> HIDE DEF G
<1>5. \A k \in 1..n : k \in G
  BY <1>3, <1>4, StepByStep
<1>6. n \in G
  BY <1>5
<1> QED
  BY <1>1, <1>6 DEF G

\* A text without one of its lines.
LEMMA OverRemove ==
    ASSUME NEW S, NEW s, Over(s, S), NEW p \in 1..Len(s)
    PROVE  Over(RemoveAt(s, p), S) /\ Len(RemoveAt(s, p)) = Len(s) - 1
<1>1. Len(s) \in Nat /\ IsSeq(s)
  BY LenProperties, SomeSeq DEF Over
<1>2. Over(SubSeq(s, 1, p - 1), S) /\ Over(SubSeq(s, p + 1, Len(s)), S)
  <2>1. p - 1 \in Int /\ p + 1 \in Int /\ 1 <= p + 1 /\ p - 1 <= Len(s) /\ Len(s) \in Int /\ Len(s) <= Len(s)
    BY <1>1
  <2> QED
    BY <2>1, OverCut
<1>3. Len(RemoveAt(s, p)) = Len(s) - 1
  BY <1>1, Removed
<1> QED
  BY <1>2, <1>3, OverJoin DEF RemoveAt

\* Where a unit ends, on any page.
LEMMA AnyEnd ==
    ASSUME NEW lines, IsSeq(lines), NEW i \in 1..Len(lines)
    PROVE  UnitEnd(lines, i) \in i..Len(lines)
<1>1. Len(lines) \in Nat
  BY SeqDomain
<1>2. CASE lines[i].kind # "open"
  BY <1>2, PlainEnd
<1>3. CASE lines[i].kind = "open"
  <2> DEFINE C == {j \in i..Len(lines) : lines[j].kind = "close"}
  <2>1. UnitEnd(lines, i) = IF C = {} THEN Len(lines) ELSE Min(C)
    BY <1>3 DEF UnitEnd
  <2>2. C \in SUBSET Nat /\ \A c \in C : c \in i..Len(lines)
    OBVIOUS
  <2> HIDE DEF C
  <2>3. C # {} => Min(C) \in C
    BY <2>2, MinFacts
  <2>4. Len(lines) \in i..Len(lines)
    BY <1>1
  <2>5. CASE C = {}
    BY <2>1, <2>4, <2>5
  <2>6. CASE C # {}
    BY <2>1, <2>2, <2>3, <2>6
  <2> QED
    BY <2>5, <2>6
<1> QED
  BY <1>2, <1>3

\* computeUnits: a unit's lines are lines of the page, whatever the page.
LEMMA AnyUnit ==
    ASSUME NEW lines, IsSeq(lines), NEW n \in 1..Len(ComputeUnits(lines))
    PROVE  LET u == ComputeUnits(lines)[n] IN
           u.first \in 1..Len(lines) /\ u.last \in u.first..Len(lines) /\ u.last \in 1..Len(lines)
<1> DEFINE i == Ascending(UnitStarts(lines))[n]
           u == ComputeUnits(lines)[n]
<1>1. i \in UnitStarts(lines) /\ u.first = i /\ u.last = UnitEnd(lines, i)
  BY ComputeFacts
<1>2. i \in 1..Len(lines) /\ Len(lines) \in Nat
  BY <1>1, StartFacts, SeqDomain
<1> HIDE DEF i, u
<1>3. UnitEnd(lines, i) \in i..Len(lines)
  BY <1>2, AnyEnd
<1>4. u.first \in 1..Len(lines) /\ u.last \in u.first..Len(lines) /\ u.last \in 1..Len(lines)
  BY <1>1, <1>2, <1>3
<1> QED
  BY <1>4 DEF u

\* A unit found by its key has that key.
LEMMA FindUnitFacts ==
    ASSUME NEW units, IsSeq(units), NEW key
    PROVE  /\ FindUnit(units, key) \in 0..Len(units)
           /\ FindUnit(units, key) # 0 => units[FindUnit(units, key)].key = key
           /\ FindUnit(units, key) = 0 => \A n \in 1..Len(units) : units[n].key # key
<1> DEFINE S == {n \in DOMAIN units : units[n].key = key}
<1>1. DOMAIN units = 1..Len(units) /\ Len(units) \in Nat
  BY SeqDomain
<1>2. S \in SUBSET (Nat \ {0}) /\ \A n \in S : n \in 1..Len(units) /\ units[n].key = key
  BY <1>1
<1>3. \A n \in 1..Len(units) : units[n].key = key => n \in S
  BY <1>1
<1>4. FindUnit(units, key) = FirstOf(S)
  BY DEF FindUnit
<1> HIDE DEF S
<1>5. FirstOf(S) \in Nat /\ (FirstOf(S) = 0 <=> S = {}) /\ (S # {} => FirstOf(S) \in S)
  BY <1>2, FirstOfFacts
<1> QED
  BY <1>1, <1>2, <1>3, <1>4, <1>5

\* reorderUnit: the lines between two units are lines of the page or blank.
LEMMA OverGap ==
    ASSUME NEW lines, IsSeq(lines), NEW S, Range(lines) \subseteq S, Blank \in S, NEW a, NEW b
    PROVE  Over(GapBetween(lines, ComputeUnits(lines), a, b), S)
<1> DEFINE U == ComputeUnits(lines)
           pairs == {n \in 1..(Len(U) - 1) : U[n].key = U[a].key /\ U[n + 1].key = U[b].key}
           n == Max(pairs)
           gap == GapBetween(lines, U, a, b)
<1>1. gap = IF pairs = {} THEN <<Blank>> ELSE SubSeq(lines, U[n].last + 1, U[n + 1].first - 1)
  BY DEF GapBetween
<1>2. Len(U) \in Nat
  BY ComputeFacts
<1>3. pairs \in SUBSET Nat /\ \A m \in pairs : m <= Len(U) /\ m \in 1..Len(U) /\ m + 1 \in 1..Len(U)
  BY <1>2
<1> HIDE DEF pairs
<1>4. CASE pairs = {}
  <2>1. Over(<<Blank>>, S)
    BY OverSingle
  <2> QED
    BY <1>1, <1>4, <2>1 DEF gap
<1>5. CASE pairs # {}
  <2>1. n \in pairs
    BY <1>2, <1>3, <1>5, MaxFacts
  <2> HIDE DEF n
  <2>2. n \in 1..Len(U) /\ n + 1 \in 1..Len(U)
    BY <1>3, <2>1
  <2> DEFINE x == U[n].last
             y == U[n + 1].first
  <2>3. x \in 1..Len(lines) /\ y \in 1..Len(lines)
    BY <2>2, AnyUnit
  <2>4. Over(lines, S) /\ Len(lines) \in Nat
    BY OverIs, SeqDomain
  <2>5. gap = SubSeq(lines, x + 1, y - 1)
    BY <1>1, <1>5
  <2> HIDE DEF x, y, U, gap
  <2>6. x + 1 \in Int /\ y - 1 \in Int /\ 1 <= x + 1 /\ y - 1 <= Len(lines)
    BY <2>3, <2>4
  <2>7. Over(gap, S)
    BY <2>4, <2>5, <2>6, OverCut
  <2> QED
    BY <2>7 DEF gap, U
<1> QED
  BY <1>4, <1>5

\* reorderUnit: the lines before the units are lines of the page or blank.
LEMMA OverPreamble ==
    ASSUME NEW lines, IsSeq(lines), NEW S, Range(lines) \subseteq S, Blank \in S, NEW order,
           Len(ComputeUnits(lines)) # 0
    PROVE  Over(Preamble(lines, ComputeUnits(lines), order), S)
<1> DEFINE U == ComputeUnits(lines)
           end == PreambleEnd(lines)
           y == U[1].first
           first == SubSeq(lines, 1, end)
           cut == SubSeq(lines, end + 1, y - 1)
<1>1. Over(lines, S) /\ Len(lines) \in Nat /\ end \in 0..Len(lines)
  BY OverIs, SeqDomain, PreambleFacts
<1>2. y \in 1..Len(lines)
  <2>1. 1 \in 1..Len(U)
    BY ComputeFacts
  <2> QED
    BY <2>1, AnyUnit
<1>3. Over(<<Blank>>, S) /\ Over(<<>>, S)
  BY OverSingle, OverEmpty
<1>4. Preamble(lines, U, order) =
        IF end = 0 THEN <<>>
        ELSE first \o (IF U[order[1]].key = U[1].key THEN cut ELSE <<Blank>>)
  BY DEF Preamble
<1> HIDE DEF y, end, U
<1>5. Over(first, S) /\ Over(cut, S)
  <2>1. end \in Int /\ end <= Len(lines) /\ end + 1 \in Int /\ 1 <= end + 1 /\ y - 1 \in Int /\ y - 1 <= Len(lines)
    BY <1>1, <1>2
  <2> QED
    BY <1>1, <2>1, OverCut
<1> HIDE DEF first, cut
<1>6. Over(first \o cut, S) /\ Over(first \o <<Blank>>, S)
  BY <1>3, <1>5, OverJoin
<1> QED
  BY <1>3, <1>4, <1>6 DEF U

\* The positions a move sets its target to.
LEMMA TargetFacts ==
    ASSUME NEW units, IsSeq(units), NEW target, NEW place, place # "start",
           target = None \/ FindUnit(units, target) # 0
    PROVE  TargetIndex(units, target, place) \in 1..(Len(units) + 1)
<1>1. Len(units) \in Nat
  BY SeqDomain
<1>2. CASE target = None
  <2>1. TargetIndex(units, target, place) = Len(units) + 1
    BY <1>2 DEF TargetIndex, None
  <2> QED
    BY <1>1, <2>1
<1>3. CASE target # None
  <2>1. FindUnit(units, target) \in 1..Len(units)
    <3>1. FindUnit(units, target) \in 0..Len(units)
      BY FindUnitFacts
    <3> QED
      BY <1>1, <1>3, <3>1
  <2>2. \/ TargetIndex(units, target, place) = FindUnit(units, target) + 1
        \/ TargetIndex(units, target, place) = FindUnit(units, target) + 0
    BY <1>3 DEF TargetIndex, None
  <2> QED
    BY <1>1, <2>1, <2>2
<1> QED
  BY <1>2, <1>3

\* What an answered move is: the text as it was or its units in a new order.
LEMMA ReorderIs ==
    ASSUME NEW lines, IsSeq(lines), NEW moved, NEW target, NEW place, place # "start",
           NEW new, ReorderUnit(lines, moved, target, place) = Rewritten(new)
    PROVE  LET U == ComputeUnits(lines)
               m == FindUnit(U, moved)
               t == TargetIndex(U, target, place)
               order == MovedOrder(Len(U), m, t)
           IN /\ m \in 1..Len(U) /\ Len(U) \in Nat
              /\ \/ moved = target /\ new = lines
                 \/ /\ moved # target /\ t \in 1..(Len(U) + 1)
                    /\ target = None \/ FindUnit(U, target) \in 1..Len(U)
                    /\ DOMAIN order = 1..Len(U)
                    /\ \/ /\ new = lines
                          /\ \A n \in 1..Len(U) : U[order[n]].key = U[n].key
                       \/ new = Rearranged(lines, U, order)
<1> DEFINE U == ComputeUnits(lines)
           m == FindUnit(U, moved)
           t == TargetIndex(U, target, place)
           order == MovedOrder(Len(U), m, t)
<1>1. IsSeq(U) /\ Len(U) \in Nat
  BY ComputeFacts
<1>2. ReorderUnit(lines, moved, target, place) =
        IF m = 0 THEN Refused
        ELSE IF target # <<"none">> /\ FindUnit(U, target) = 0 THEN Refused
        ELSE IF moved = target THEN Rewritten(lines)
        ELSE Reordered(lines, U, order)
  BY DEF ReorderUnit, MoveUnit
<1>3. Refused # Rewritten(new) /\ \A x : Rewritten(x) = Rewritten(new) => x = new
  <2>1. Refused.ok = FALSE /\ Rewritten(new).ok = TRUE
    BY DEF Refused, Rewritten
  <2>2. ASSUME NEW x, Rewritten(x) = Rewritten(new) PROVE x = new
    <3>1. Rewritten(x).text = x /\ Rewritten(new).text = new
      BY DEF Rewritten
    <3> QED
      BY <2>2, <3>1
  <2> QED
    BY <2>1, <2>2
<1>4. m # 0 /\ (target = None \/ FindUnit(U, target) # 0)
  <2> HIDE DEF U, m, t, order
  <2> QED
    BY <1>2, <1>3 DEF None
<1>5. m \in 1..Len(U) /\ (target = None \/ FindUnit(U, target) \in 1..Len(U))
  <2> HIDE DEF U
  <2>1. \A key : FindUnit(U, key) \in 0..Len(U)
    BY <1>1, FindUnitFacts
  <2> QED
    BY <1>1, <1>4, <2>1 DEF m
<1>6. t \in 1..(Len(U) + 1)
  <2> HIDE DEF U
  <2> QED
    BY <1>1, <1>4, TargetFacts DEF t
<1>7. DOMAIN order = 1..Len(U)
  <2> HIDE DEF U, m, t
  <2> QED
    BY <1>1, <1>5, <1>6, MovedFacts DEF order
<1>8. CASE moved = target
  <2>1. Rewritten(lines) = Rewritten(new)
    BY <1>2, <1>4, <1>8 DEF None
  <2> QED
    BY <1>1, <1>3, <1>5, <1>8, <2>1
<1>9. CASE moved # target
  <2>1. Reordered(lines, U, order) = Rewritten(new)
    <3> HIDE DEF U, m, t, order
    <3> QED
      BY <1>2, <1>4, <1>9 DEF None
  <2>2. CASE \A k \in DOMAIN order : U[order[k]].key = U[k].key
    <3>1. Reordered(lines, U, order) = Rewritten(lines)
      <4> HIDE DEF U, order
      <4> QED
        BY <2>2 DEF Reordered
    <3>2. new = lines
      BY <1>3, <2>1, <3>1
    <3> QED
      BY <1>1, <1>5, <1>6, <1>7, <1>9, <2>2, <3>2
  <2>3. CASE ~\A k \in DOMAIN order : U[order[k]].key = U[k].key
    <3>1. Reordered(lines, U, order) = Rewritten(Rearranged(lines, U, order))
      <4> HIDE DEF U, order
      <4> QED
        BY <2>3 DEF Reordered, Rearranged
    <3>2. new = Rearranged(lines, U, order)
      BY <1>3, <2>1, <3>1
    <3> QED
      BY <1>1, <1>5, <1>6, <1>7, <1>9, <3>2
  <2> QED
    BY <2>2, <2>3
<1> QED
  BY <1>8, <1>9

\* reorderUnit: every line is one of the page or blank, whatever the page.
LEMMA OverReorder ==
    ASSUME NEW lines, IsSeq(lines), NEW moved, NEW target, NEW place, place # "start",
           NEW new, ReorderUnit(lines, moved, target, place) = Rewritten(new),
           NEW S, Range(lines) \subseteq S, Blank \in S
    PROVE  Over(new, S)
<1> DEFINE U == ComputeUnits(lines)
           m == FindUnit(U, moved)
           t == TargetIndex(U, target, place)
           order == MovedOrder(Len(U), m, t)
           pre == Preamble(lines, U, order)
           gap(k) == IF k = 1 THEN <<>> ELSE GapBetween(lines, U, order[k - 1], order[k])
           s == [k \in DOMAIN order |-> gap(k) \o SpanOf(lines, U[order[k]])]
           tail == SubSeq(lines, Last(U).last + 1, Len(lines))
<1>1. /\ m \in 1..Len(U) /\ Len(U) \in Nat
      /\ new = lines \/ (t \in 1..(Len(U) + 1) /\ DOMAIN order = 1..Len(U) /\ new = Rearranged(lines, U, order))
  BY ReorderIs
<1>2. Over(lines, S) /\ Len(lines) \in Nat
  BY OverIs, SeqDomain
<1>3. CASE new = lines
  BY <1>2, <1>3
<1>4. CASE t \in 1..(Len(U) + 1) /\ DOMAIN order = 1..Len(U) /\ new = Rearranged(lines, U, order)
  <2>1. Over(pre, S)
    BY <1>1, OverPreamble
  <2>2. \A k \in 1..Len(U) : order[k] \in 1..Len(U)
    <3> HIDE DEF U, m, t
    <3> QED
      BY <1>1, <1>4, MovedPermutes DEF Shuffles
  <2>3. ASSUME NEW k \in 1..Len(U) PROVE Over(s[k], S)
    <3> DEFINE u == U[order[k]]
               span == SubSeq(lines, u.first, u.last)
               g == gap(k)
    <3>1. u.first \in 1..Len(lines) /\ u.last \in 1..Len(lines)
      BY <2>2, AnyUnit
    <3>2. Over(span, S)
      <4>1. u.first \in Int /\ u.last \in Int /\ 1 <= u.first /\ u.last <= Len(lines)
        BY <1>2, <3>1
      <4> HIDE DEF u
      <4> QED
        BY <1>2, <4>1, OverCut
    <3>3. Over(g, S)
      <4>1. CASE k = 1
        BY <4>1, OverEmpty
      <4>2. CASE k # 1
        BY <4>2, OverGap
      <4> QED
        BY <4>1, <4>2
    <3>4. s[k] = g \o span
      BY <1>4 DEF SpanOf
    <3> HIDE DEF g, span, s
    <3> QED
      BY <3>2, <3>3, <3>4, OverJoin
  <2>4. Len(s) = Len(U)
    <3>1. s = [k \in 1..Len(U) |-> s[k]]
      BY <1>4
    <3> HIDE DEF s
    <3> QED
      BY <1>1, <3>1, FunctionSeq
  <2>5. Over(tail, S)
    <3> DEFINE x == Last(U).last
    <3>1. x \in 1..Len(lines)
      <4>1. Len(U) \in 1..Len(U) /\ Last(U) = U[Len(U)]
        BY <1>1 DEF Last
      <4> QED
        BY <4>1, AnyUnit
    <3> HIDE DEF x
    <3>2. x + 1 \in Int /\ Len(lines) \in Int /\ 1 <= x + 1 /\ Len(lines) <= Len(lines)
      BY <1>2, <3>1
    <3>3. Over(SubSeq(lines, x + 1, Len(lines)), S)
      BY <1>2, <3>2, OverCut
    <3> QED
      BY <3>3 DEF x
  <2>6. new = (pre \o FlattenSeq(s)) \o tail
    BY <1>4 DEF Rearranged
  <2> HIDE DEF s, pre, tail
  <2>7. Len(U) # 0
    BY <1>1
  <2> HIDE DEF U
  <2>8. Over(FlattenSeq(s), S)
    BY <1>1, <2>3, <2>4, <2>7, OverFlatten
  <2>9. Over(pre \o FlattenSeq(s), S)
    BY <2>1, <2>8, OverJoin
  <2> QED
    BY <2>5, <2>6, <2>9, OverJoin
<1> QED
  BY <1>1, <1>3, <1>4

\* The text of an answer.
LEMMA AnswerIs ==
    ASSUME NEW x, NEW new, Rewritten(x) = Rewritten(new)
    PROVE  x = new
<1>1. Rewritten(x).text = x /\ Rewritten(new).text = new
  BY DEF Rewritten
<1> QED
  BY <1>1

\* A refusal is no text.
LEMMA RefusedIs ==
    ASSUME NEW new
    PROVE  Refused # Rewritten(new)
<1>1. Refused.ok = FALSE /\ Rewritten(new).ok = TRUE
  BY DEF Refused, Rewritten
<1> QED
  BY <1>1

\* insertGroupMarkers: every line is one of the page or a marker.
LEMMA OverAround ==
    ASSUME NEW lines, IsSeq(lines), NEW f \in 1..Len(lines), NEW t \in f..Len(lines), NEW open,
           NEW S, Range(lines) \subseteq S, open \in S, Close \in S
    PROVE  Over(Around(lines, f, t, open), S)
<1> DEFINE a == SubSeq(lines, 1, f - 1)
           b == SubSeq(lines, f, t)
           c == SubSeq(lines, t + 1, Len(lines))
<1>1. Over(lines, S) /\ Len(lines) \in Nat
  BY OverIs, SeqDomain
<1>2. /\ f - 1 \in Int /\ f - 1 <= Len(lines) /\ t \in Int /\ t <= Len(lines) /\ t + 1 \in Int
      /\ 1 <= t + 1 /\ Len(lines) <= Len(lines) /\ Len(lines) \in Int /\ 1 <= f /\ f \in Int
  BY <1>1
<1>3. Over(a, S) /\ Over(b, S) /\ Over(c, S)
  BY <1>1, <1>2, OverCut
<1>4. Over(<<open>>, S) /\ Over(<<Close>>, S)
  BY OverSingle
<1>5. Around(lines, f, t, open) = (((a \o <<open>>) \o b) \o <<Close>>) \o c
  BY DEF Around
<1> HIDE DEF a, b, c
<1>6. Over(a \o <<open>>, S)
  BY <1>3, <1>4, OverJoin
<1>7. Over((a \o <<open>>) \o b, S)
  BY <1>3, <1>6, OverJoin
<1>8. Over(((a \o <<open>>) \o b) \o <<Close>>, S)
  BY <1>4, <1>7, OverJoin
<1>9. Over((((a \o <<open>>) \o b) \o <<Close>>) \o c, S)
  BY <1>3, <1>8, OverJoin
<1> QED
  BY <1>5, <1>9

\* What an answered grouping is: a run of units without a group, with markers around it.
LEMMA GroupIs ==
    ASSUME NEW lines, IsSeq(lines), NEW keys, NEW id, NEW given,
           NEW new, InsertGroupMarkers(lines, keys, id, given) = Rewritten(new)
    PROVE  LET units == ComputeUnits(lines) IN
           \E a \in 1..Len(units) : \E b \in a..Len(units) :
              /\ \A n \in a..b : units[n].kind # "group"
              /\ Positions(units, keys) = a..b
              /\ Cardinality(keys) = b - a + 1
              /\ id \notin ExistingIds(lines)
              /\ new = Around(lines, units[a].first, units[b].last, Open(NewGroup(id, given)))
<1> DEFINE units == ComputeUnits(lines)
<1>1. MarkUnits(lines, units, keys, id, given) = Rewritten(new)
  BY DEF InsertGroupMarkers
<1>2. MarkUnits(lines, units, keys, id, given).ok
  BY <1>1 DEF Rewritten
<1>3. PICK a \in 1..Len(units) : \E b \in a..Len(units) :
              /\ \A n \in a..b : units[n].kind # "group"
              /\ Positions(units, keys) = a..b
              /\ Cardinality(keys) = b - a + 1
              /\ id \notin ExistingIds(lines)
              /\ MarkUnits(lines, units, keys, id, given)
                   = Rewritten(Around(lines, units[a].first, units[b].last,
                                      Open(NewGroup(id, given))))
  BY <1>2, MarkedRun
<1>4. PICK b \in a..Len(units) :
              /\ \A n \in a..b : units[n].kind # "group"
              /\ Positions(units, keys) = a..b
              /\ Cardinality(keys) = b - a + 1
              /\ id \notin ExistingIds(lines)
              /\ MarkUnits(lines, units, keys, id, given)
                   = Rewritten(Around(lines, units[a].first, units[b].last,
                                      Open(NewGroup(id, given))))
  BY <1>3
<1>5. new = Around(lines, units[a].first, units[b].last, Open(NewGroup(id, given)))
  <2> HIDE DEF units
  <2> QED
    BY <1>1, <1>4, AnswerIs
<1> HIDE DEF units
<1> QED
  BY <1>4, <1>5 DEF units

\* insertGroupMarkers: every line is one of the page or a marker, whatever
\* the page.
LEMMA OverGroup ==
    ASSUME NEW lines, IsSeq(lines), NEW keys, NEW id, NEW given,
           NEW new, InsertGroupMarkers(lines, keys, id, given) = Rewritten(new),
           NEW S, Range(lines) \subseteq S, Open(NewGroup(id, given)) \in S, Close \in S
    PROVE  Over(new, S)
<1> DEFINE units == ComputeUnits(lines)
<1>0. PICK a \in 1..Len(units) : \E b \in a..Len(units) :
              new = Around(lines, units[a].first, units[b].last, Open(NewGroup(id, given)))
  BY GroupIs
<1>1. PICK b \in a..Len(units) :
              new = Around(lines, units[a].first, units[b].last, Open(NewGroup(id, given)))
  BY <1>0
<1>2. b \in 1..Len(units) /\ a <= b /\ Len(units) \in Nat
  BY ComputeFacts
<1> DEFINE f == units[a].first
           t == units[b].last
<1>3. f \in 1..Len(lines) /\ t \in 1..Len(lines)
  BY <1>2, AnyUnit
<1>4. f <= t
  <2>1. CASE a = b
    <3>1. t \in units[b].first..Len(lines) /\ units[b].first = f
      BY <1>2, <2>1, AnyUnit
    <3> HIDE DEF units, t, f
    <3> QED
      BY <1>3, <3>1
  <2>2. CASE a # b
    <3>1. units[a].first < units[b].first /\ units[b].last \in units[b].first..Len(lines)
          /\ units[b].first \in 1..Len(lines)
      <4>1. a < b
        BY <1>2, <2>2
      <4> QED
        BY <1>2, <4>1, ComputeFacts, AnyUnit
    <3> HIDE DEF units
    <3> QED
      BY <1>3, <3>1
  <2> QED
    BY <2>1, <2>2
<1>5. t \in f..Len(lines)
  BY <1>3, <1>4
<1> HIDE DEF f, t
<1>6. new = Around(lines, f, t, Open(NewGroup(id, given)))
  BY <1>1 DEF f, t
<1> QED
  BY <1>3, <1>5, <1>6, OverAround

\* What an answered ungrouping is: the two markers of a unit that ends with one removed.
LEMMA UngroupIs ==
    ASSUME NEW lines, IsSeq(lines), NEW key, NEW new, RemoveGroupMarkers(lines, key) = Rewritten(new)
    PROVE  LET U == ComputeUnits(lines)
               n == FindUnit(U, key)
           IN /\ n \in 1..Len(U) /\ U[n].key = key
              /\ lines[U[n].last].kind = "close"
              /\ new = RemoveLineCollapsingSeam(RemoveLineCollapsingSeam(lines, U[n].last), U[n].first)
<1> DEFINE U == ComputeUnits(lines)
           n == FindUnit(U, key)
<1>1. IsSeq(U) /\ Len(U) \in Nat
  BY ComputeFacts
<1>2. Rewritten(new) = IF n = 0 \/ lines[U[n].last].kind # "close" THEN Refused
                       ELSE Rewritten(RemoveLineCollapsingSeam(
                              RemoveLineCollapsingSeam(lines, U[n].last), U[n].first))
  BY DEF RemoveGroupMarkers, UngroupIn, UnmarkUnit
<1>3. n \in 0..Len(U) /\ (n # 0 => U[n].key = key)
  <2> HIDE DEF U
  <2> QED
    BY <1>1, FindUnitFacts
<1> HIDE DEF n
<1>4. n # 0 /\ lines[U[n].last].kind = "close"
  <2> HIDE DEF U
  <2> QED
    BY <1>2, RefusedIs
<1>5. new = RemoveLineCollapsingSeam(RemoveLineCollapsingSeam(lines, U[n].last), U[n].first)
  <2> HIDE DEF U
  <2> QED
    BY <1>2, <1>4, AnswerIs
<1> QED
  BY <1>1, <1>3, <1>4, <1>5 DEF n

\* removeLineCollapsingSeam: every line is one of the page, and one or two
\* fewer.
LEMMA OverCollapse ==
    ASSUME NEW S, NEW s, Over(s, S), NEW at \in 1..Len(s)
    PROVE  LET out == RemoveLineCollapsingSeam(s, at) IN
           /\ Over(out, S) /\ Len(out) \in Nat
           /\ Len(out) = Len(s) - 1 \/ Len(out) = Len(s) - 2
           /\ at - 1 <= Len(out)
<1> DEFINE out == RemoveAt(s, at)
           two == RemoveAt(out, at)
<1>1. Len(s) \in Nat
  BY LenProperties DEF Over
<1>2. Over(out, S) /\ Len(out) = Len(s) - 1
  BY OverRemove
<1>3. \/ RemoveLineCollapsingSeam(s, at) = out
      \/ at <= Len(out) /\ RemoveLineCollapsingSeam(s, at) = two
  BY DEF RemoveLineCollapsingSeam
<1> HIDE DEF out
<1>4. at <= Len(out) => Over(two, S) /\ Len(two) = Len(out) - 1
  <2>1. at <= Len(out) => at \in 1..Len(out)
    BY <1>1, <1>2
  <2> QED
    BY <1>2, <2>1, OverRemove
<1> HIDE DEF two
<1> QED
  BY <1>1, <1>2, <1>3, <1>4

\* removeGroupMarkers: every line is one of the page, whatever the page.
LEMMA OverUngroup ==
    ASSUME NEW lines, IsSeq(lines), NEW key, IsGroupKey(key),
           NEW new, RemoveGroupMarkers(lines, key) = Rewritten(new),
           NEW S, Range(lines) \subseteq S
    PROVE  Over(new, S)
<1> DEFINE U == ComputeUnits(lines)
           n == FindUnit(U, key)
           f == U[n].first
           t == U[n].last
           mid == RemoveLineCollapsingSeam(lines, t)
<1>1. /\ n \in 1..Len(U) /\ U[n].key = key /\ lines[t].kind = "close"
      /\ new = RemoveLineCollapsingSeam(mid, f)
  BY UngroupIs
<1>2. f \in 1..Len(lines) /\ t \in f..Len(lines) /\ t \in 1..Len(lines) /\ Len(lines) \in Nat
  BY <1>1, AnyUnit, SeqDomain
<1>3. lines[f].kind = "open"
  <2>1. U[n] = UnitAt(lines, UnitStarts(lines), f) /\ U[n].kind = UnitKind(lines[f])
    BY <1>1, ComputeFacts
  <2>2. U[n].kind \in {"atom", "implicit", "group"}
    BY <2>1, KeyFacts
  <2>3. U[n].kind = "atom" => key[1] = "atom"
    BY <1>1, <2>1, KeyFacts
  <2>4. U[n].kind = "implicit" => key[1] = "implicit"
    BY <1>1, <2>1, KeyFacts
  <2>5. U[n].kind = "group"
    <3> HIDE DEF U, n
    <3> QED
      BY <2>2, <2>3, <2>4 DEF IsGroupKey
  <2> QED
    BY <2>1, <2>5, KeyFacts
<1>4. f # t
  <2> HIDE DEF f, t
  <2> QED
    BY <1>1, <1>3
<1> HIDE DEF f, t, mid, n, U
<1>5. Over(lines, S)
  BY OverIs
<1>6. /\ Over(mid, S) /\ Len(mid) \in Nat
      /\ Len(mid) = Len(lines) - 1 \/ Len(mid) = Len(lines) - 2
      /\ t - 1 <= Len(mid)
  BY <1>2, <1>5, OverCollapse DEF mid
<1>7. f \in 1..Len(mid)
  <2>1. f <= t - 1
    BY <1>2, <1>4
  <2> QED
    BY <1>2, <1>6, <2>1
<1> QED
  BY <1>1, <1>6, <1>7, OverCollapse

--------------------------------------------------------------------------------
(* Attributes *)

\* Attributes with some left out.
LEMMA WithoutFacts ==
    ASSUME NEW a, NEW N
    PROVE  LET b == Without(a, N) IN
           /\ DOMAIN b = DOMAIN a \ N
           /\ \A n \in DOMAIN a \ N : b[n] = a[n]
           /\ Attributes(a) => Attributes(b)
<1> DEFINE b == Without(a, N)
<1>1. b = [n \in DOMAIN a \ N |-> a[n]]
  BY DEF Without
<1>2. DOMAIN b = DOMAIN a \ N /\ \A n \in DOMAIN a \ N : b[n] = a[n]
  BY <1>1
<1>3. b = [n \in DOMAIN b |-> b[n]]
  BY <1>1
<1> HIDE DEF b
<1>4. IsFiniteSet(DOMAIN a) => IsFiniteSet(DOMAIN b)
  BY <1>2, FS_Difference
<1>5. Attributes(a) => Attributes(b)
  BY <1>2, <1>3, <1>4 DEF Attributes
<1> QED
  BY <1>2, <1>5 DEF b

\* Attributes with one set.
LEMMA WithFacts ==
    ASSUME NEW a, NEW name, NEW value
    PROVE  LET b == With(a, name, value) IN
           /\ DOMAIN b = DOMAIN a \cup {name}
           /\ \A n \in DOMAIN a \ {name} : b[n] = a[n]
           /\ b[name] = value
           /\ (Attributes(a) /\ name # "") => Attributes(b)
<1> DEFINE b == With(a, name, value)
<1>1. b = [n \in DOMAIN a \cup {name} |-> IF n = name THEN value ELSE a[n]]
  BY DEF With
<1>2. /\ DOMAIN b = DOMAIN a \cup {name} /\ b[name] = value
      /\ \A n \in DOMAIN a \ {name} : b[n] = a[n]
  BY <1>1
<1>3. b = [n \in DOMAIN b |-> b[n]]
  BY <1>1
<1> HIDE DEF b
<1>4. IsFiniteSet(DOMAIN a) => IsFiniteSet(DOMAIN b)
  <2>1. IsFiniteSet({name})
    BY FS_Singleton
  <2>2. IsFiniteSet(DOMAIN a) => IsFiniteSet(DOMAIN a \cup {name})
    BY <2>1, FS_Union
  <2> QED
    BY <1>2, <2>2
<1>5. (Attributes(a) /\ name # "") => Attributes(b)
  BY <1>2, <1>3, <1>4 DEF Attributes
<1> QED
  BY <1>2, <1>5 DEF b

\* What is kept of attributes tells all but the name and the digest.
LEMMA KeptSame ==
    ASSUME NEW a, NEW b,
           DOMAIN a \ {"slug", "digest"} = DOMAIN b \ {"slug", "digest"},
           \A n \in DOMAIN a \ {"slug", "digest"} : a[n] = b[n]
    PROVE  Kept(a) = Kept(b)
<1> DEFINE D == DOMAIN a \ {"slug", "digest"}
<1>1. Kept(a) = [n \in D |-> a[n]] /\ Kept(b) = [n \in D |-> b[n]]
  BY DEF Kept, Without
<1>2. \A n \in D : a[n] = b[n]
  OBVIOUS
<1> HIDE DEF D
<1> QED
  BY <1>1, <1>2

\* Attributes that agree but for the slug and the digest.
LEMMA KeptIs ==
    ASSUME NEW a, NEW b, Kept(a) = Kept(b)
    PROVE  /\ DOMAIN a \ {"slug", "digest"} = DOMAIN b \ {"slug", "digest"}
           /\ \A n \in DOMAIN a \ {"slug", "digest"} : a[n] = b[n]
<1>1. DOMAIN Kept(a) = DOMAIN a \ {"slug", "digest"} /\ \A n \in DOMAIN a \ {"slug", "digest"} : Kept(a)[n] = a[n]
  BY WithoutFacts DEF Kept
<1>2. DOMAIN Kept(b) = DOMAIN b \ {"slug", "digest"} /\ \A n \in DOMAIN b \ {"slug", "digest"} : Kept(b)[n] = b[n]
  BY WithoutFacts DEF Kept
<1> QED
  BY <1>1, <1>2

\* A rename leaves the id, the digest and all that is kept.
LEMMA RenamedFacts ==
    ASSUME NEW a, NEW given
    PROVE  LET b == Renamed(a, given) IN
           /\ Kept(b) = Kept(a)
           /\ Attributes(a) => Attributes(b)
           /\ "id" \in DOMAIN b <=> "id" \in DOMAIN a
           /\ "id" \in DOMAIN a => b["id"] = a["id"]
           /\ "digest" \in DOMAIN b <=> "digest" \in DOMAIN a
           /\ "digest" \in DOMAIN a => b["digest"] = a["digest"]
<1> DEFINE slug == SanitizeSlug(given)
           b == Renamed(a, given)
<1>1. b = Without(a, {"slug"}) \/ b = With(a, "slug", slug)
  BY DEF Renamed
<1> HIDE DEF b, slug
<1>2. CASE b = Without(a, {"slug"})
  <2>1. DOMAIN b = DOMAIN a \ {"slug"} /\ (\A n \in DOMAIN a \ {"slug"} : b[n] = a[n]) /\ (Attributes(a) => Attributes(b))
    BY <1>2, WithoutFacts
  <2>2. Kept(b) = Kept(a)
    BY <2>1, KeptSame
  <2> QED
    BY <2>1, <2>2 DEF b
<1>3. CASE b = With(a, "slug", slug)
  <2>0. "slug" # ""
    OBVIOUS
  <2>1. DOMAIN b = DOMAIN a \cup {"slug"} /\ (\A n \in DOMAIN a \ {"slug"} : b[n] = a[n]) /\ (Attributes(a) => Attributes(b))
    <3>1. \A n \in DOMAIN a \ {"slug"} : With(a, "slug", slug)[n] = a[n]
      BY DEF With
    <3>2. DOMAIN With(a, "slug", slug) = DOMAIN a \cup {"slug"}
      BY WithFacts
    <3>3. Attributes(a) => Attributes(With(a, "slug", slug))
      BY <2>0, WithFacts
    <3> QED
      BY <1>3, <3>1, <3>2, <3>3
  <2>2. Kept(b) = Kept(a)
    BY <2>1, KeptSame
  <2> QED
    BY <2>1, <2>2 DEF b
<1> QED
  BY <1>1, <1>2, <1>3

\* Lines that add nothing new to what directives with an id say.
Adds(S, x) ==
    \/ x.kind \notin {"atom", "open"}
    \/ x.kind = "open" /\ Attributes(x.attrs)
    \/ /\ x.kind = "atom" /\ Attributes(x.attrs) /\ HasAttr(x, "id")
       /\ \E m \in S : /\ m.kind = "atom" /\ HasAttr(m, "id") /\ m.attrs["id"] = x.attrs["id"]
                       /\ Kept(m.attrs) = Kept(x.attrs)

\* Lines that agree with what is there can be added to it.
LEMMA StaysConsistent ==
    ASSUME NEW S, Consistent(S), NEW T, \A x \in T : Adds(S, x)
    PROVE  Consistent(S \cup T)
<1>1. ASSUME NEW l \in S \cup T, l.kind \in {"atom", "open"} PROVE Attributes(l.attrs)
  <2>1. CASE l \in S
    BY <1>1, <2>1 DEF Consistent
  <2>2. CASE l \in T
    BY <1>1, <2>2 DEF Adds
  <2> QED
    BY <2>1, <2>2
<1>2. ASSUME NEW l \in S \cup T, l.kind = "atom", HasAttr(l, "id")
      PROVE  \E m \in S : /\ m.kind = "atom" /\ HasAttr(m, "id") /\ m.attrs["id"] = l.attrs["id"]
                          /\ Kept(m.attrs) = Kept(l.attrs)
  <2>1. CASE l \in S
    BY <1>2, <2>1
  <2>2. CASE l \in T
    <3>1. Adds(S, l)
      BY <2>2
    <3> QED
      BY <1>2, <3>1 DEF Adds
  <2> QED
    BY <2>1, <2>2
<1>3. ASSUME NEW l \in S \cup T, NEW m \in S \cup T,
             l.kind = "atom", m.kind = "atom", HasAttr(l, "id"), HasAttr(m, "id"),
             l.attrs["id"] = m.attrs["id"]
      PROVE  Kept(l.attrs) = Kept(m.attrs)
  <2>1. PICK c \in S : /\ c.kind = "atom" /\ HasAttr(c, "id") /\ c.attrs["id"] = l.attrs["id"]
                       /\ Kept(c.attrs) = Kept(l.attrs)
    BY <1>2, <1>3
  <2>2. PICK d \in S : /\ d.kind = "atom" /\ HasAttr(d, "id") /\ d.attrs["id"] = m.attrs["id"]
                       /\ Kept(d.attrs) = Kept(m.attrs)
    BY <1>2, <1>3
  <2>3. c.attrs["id"] = d.attrs["id"]
    BY <1>3, <2>1, <2>2
  <2>4. Kept(c.attrs) = Kept(d.attrs)
    BY <2>1, <2>2, <2>3 DEF Consistent
  <2> QED
    BY <2>1, <2>2, <2>4
<1> QED
  BY <1>1, <1>3 DEF Consistent

--------------------------------------------------------------------------------
(* Rewrites of single lines *)

\* A text with one line replaced.
Patched(lines, p, x) == [lines EXCEPT ![p] = x]

\* A text with one line replaced.
LEMMA PatchedFacts ==
    ASSUME NEW lines, IsSeq(lines), NEW p \in 1..Len(lines), NEW x
    PROVE  /\ IsSeq(Patched(lines, p, x)) /\ Len(Patched(lines, p, x)) = Len(lines)
           /\ Patched(lines, p, x)[p] = x
           /\ \A i \in 1..Len(lines) : i # p => Patched(lines, p, x)[i] = lines[i]
           /\ \A S : (Range(lines) \subseteq S /\ x \in S) => Over(Patched(lines, p, x), S)
<1> DEFINE t == Patched(lines, p, x)
<1>1. DOMAIN lines = 1..Len(lines) /\ Len(lines) \in Nat
  BY SeqDomain
<1>2. /\ DOMAIN t = 1..Len(lines) /\ t[p] = x
      /\ \A i \in 1..Len(lines) : i # p => t[i] = lines[i]
  BY <1>1 DEF Patched
<1>3. t = [i \in 1..Len(lines) |-> t[i]]
  BY <1>1 DEF Patched
<1> HIDE DEF t
<1>4. IsSeq(t) /\ Len(t) = Len(lines)
  BY <1>1, <1>3, FunctionSeq
<1>5. ASSUME NEW S, Range(lines) \subseteq S, x \in S PROVE Over(t, S)
  <2>1. \A i \in 1..Len(lines) : lines[i] \in S
    BY <1>1, <1>5 DEF Range
  <2>2. \A i \in DOMAIN t : t[i] \in S
    BY <1>2, <1>5, <2>1
  <2>3. Range(t) \subseteq S
    BY <2>2 DEF Range
  <2> QED
    BY <1>4, <2>3, OverIs
<1> QED
  BY <1>2, <1>4, <1>5 DEF t

\* findAtomDirectiveLine: the first directive with the id.
LEMMA DirectiveFacts ==
    ASSUME NEW lines, IsSeq(lines), NEW id
    PROVE  /\ DirectiveLine(lines, id) \in 0..Len(lines)
           /\ DirectiveLine(lines, id) # 0 => IsAtom(lines[DirectiveLine(lines, id)], id)
           /\ \A i \in 1..Len(lines) : IsAtom(lines[i], id) =>
                DirectiveLine(lines, id) # 0 /\ DirectiveLine(lines, id) <= i
<1> DEFINE S == {i \in DOMAIN lines : IsAtom(lines[i], id)}
<1>1. DOMAIN lines = 1..Len(lines) /\ Len(lines) \in Nat
  BY SeqDomain
<1>2. S \in SUBSET (Nat \ {0}) /\ \A i \in S : i \in 1..Len(lines) /\ IsAtom(lines[i], id)
  BY <1>1
<1>3. \A i \in 1..Len(lines) : IsAtom(lines[i], id) => i \in S
  BY <1>1
<1>4. DirectiveLine(lines, id) = FirstOf(S)
  BY DEF DirectiveLine
<1> HIDE DEF S
<1>5. FirstOf(S) \in Nat /\ (FirstOf(S) = 0 <=> S = {}) /\ (S # {} => FirstOf(S) \in S)
      /\ \A n \in S : FirstOf(S) <= n
  BY <1>2, FirstOfFacts
<1> QED
  BY <1>1, <1>2, <1>3, <1>4, <1>5

\* The attributes an attribute editor writes.
Saved(id, sent) == With(Renamed(Without(sent, {"id"}), SlugIn(sent)), "id", id)

\* What an answered edit of a directive's attributes is.
LEMMA SaveIs ==
    ASSUME NEW lines, IsSeq(lines), NEW id, NEW sent, NEW new, SaveAttrs(lines, id, sent) = Rewritten(new)
    PROVE  \E at \in 1..Len(lines) :
             IsAtom(lines[at], id) /\ new = Patched(lines, at, AtomTag(Saved(id, sent)))
<1> DEFINE at == DirectiveLine(lines, id)
<1>1. at \in 0..Len(lines) /\ (at # 0 => IsAtom(lines[at], id))
  BY DirectiveFacts
<1>2. Rewritten(new) = IF at = 0 THEN Refused ELSE Rewritten(Patched(lines, at, AtomTag(Saved(id, sent))))
  BY DEF SaveAttrs, Patched, Saved
<1> HIDE DEF at
<1>3. at # 0
  BY <1>2, RefusedIs
<1>4. new = Patched(lines, at, AtomTag(Saved(id, sent)))
  BY <1>2, <1>3, AnswerIs
<1>5. at \in 1..Len(lines)
  BY <1>1, <1>3, SeqDomain
<1> QED
  BY <1>1, <1>3, <1>4, <1>5

\* setAtomSlugInSource replaces one line, an atom's.
LEMMA AtomNameIs ==
    ASSUME NEW lines, IsSeq(lines), NEW id, NEW given, NEW new, SetAtomSlug(lines, id, given) = Rewritten(new)
    PROVE  \E at \in 1..Len(lines) :
             IsAtom(lines[at], id) /\ new = Patched(lines, at, AtomTag(Renamed(lines[at].attrs, given)))
<1> DEFINE at == DirectiveLine(lines, id)
<1>1. at \in 0..Len(lines) /\ (at # 0 => IsAtom(lines[at], id)) /\ Len(lines) \in Nat
  BY DirectiveFacts, SeqDomain
<1>2. Rewritten(new) = IF at = 0 THEN Refused
                       ELSE Rewritten([lines EXCEPT ![at] = AtomTag(Renamed(@.attrs, given))])
  BY DEF SetAtomSlug
<1> HIDE DEF at
<1>3. at # 0
  BY <1>2, RefusedIs
<1>4. at \in 1..Len(lines) /\ at \in DOMAIN lines
  BY <1>1, <1>3, SeqDomain
<1>5. [lines EXCEPT ![at] = AtomTag(Renamed(@.attrs, given))] = Patched(lines, at, AtomTag(Renamed(lines[at].attrs, given)))
  BY <1>4 DEF Patched
<1>6. new = Patched(lines, at, AtomTag(Renamed(lines[at].attrs, given)))
  BY <1>2, <1>3, <1>5, AnswerIs
<1> QED
  BY <1>1, <1>3, <1>4, <1>6

\* setGroupSlugInSource replaces one line, an opening marker.
LEMMA GroupNameIs ==
    ASSUME NEW lines, IsSeq(lines), NEW id, NEW given, NEW new, SetGroupSlug(lines, id, given) = Rewritten(new)
    PROVE  \E at \in 1..Len(lines) :
             IsOpen(lines[at], id) /\ new = Patched(lines, at, Open(Renamed(lines[at].attrs, given)))
<1> DEFINE S == {i \in DOMAIN lines : IsOpen(lines[i], id)}
           at == FirstOf(S)
<1>1. DOMAIN lines = 1..Len(lines) /\ Len(lines) \in Nat
  BY SeqDomain
<1>2. S \in SUBSET (Nat \ {0}) /\ \A i \in S : i \in 1..Len(lines) /\ IsOpen(lines[i], id)
  BY <1>1
<1>3. Rewritten(new) = IF at = 0 THEN Refused
                       ELSE Rewritten([lines EXCEPT ![at] = Open(Renamed(@.attrs, given))])
  BY DEF SetGroupSlug
<1> HIDE DEF S
<1>4. at \in Nat /\ (at = 0 <=> S = {}) /\ (S # {} => at \in S)
  BY <1>2, FirstOfFacts
<1> HIDE DEF at
<1>5. at # 0
  BY <1>3, RefusedIs
<1>6. at \in 1..Len(lines) /\ at \in DOMAIN lines /\ IsOpen(lines[at], id)
  BY <1>1, <1>2, <1>4, <1>5
<1>7. [lines EXCEPT ![at] = Open(Renamed(@.attrs, given))] = Patched(lines, at, Open(Renamed(lines[at].attrs, given)))
  BY <1>6 DEF Patched
<1>8. new = Patched(lines, at, Open(Renamed(lines[at].attrs, given)))
  BY <1>3, <1>5, <1>7, AnswerIs
<1> QED
  BY <1>6, <1>8

--------------------------------------------------------------------------------
(* The cards of a text *)

Loose(lines) == {i \in BlockStarts(lines) : ~IsExplicit(lines, i)}

CardAt(lines, implicit, i) ==
    LET attrs == IF i \in implicit THEN <<>> ELSE lines[Heading(lines, i)].attrs
    IN [id |-> IF i \in implicit
                 THEN <<"implicit", Cardinality({k \in implicit : k <= i})>>
                 ELSE <<"atom", attrs["id"]>>,
        attrs |-> attrs,
        group |-> AtomGroup(lines, i),
        text |-> SubSeq(lines, i, BlockEnd(lines, i)),
        checkable |-> DigestCheckable(lines, i)]

\* parseAtoms: a block starts at a line of content.
LEMMA BlockStartsFacts ==
    ASSUME NEW lines, IsSeq(lines)
    PROVE  /\ BlockStarts(lines) \in SUBSET (Nat \ {0}) /\ IsFiniteSet(BlockStarts(lines))
           /\ \A i \in BlockStarts(lines) : i \in 1..Len(lines) /\ InBlock(lines[i])
<1>1. DOMAIN lines = 1..Len(lines) /\ Len(lines) \in Nat
  BY SeqDomain
<1>2. \A i \in BlockStarts(lines) : i \in 1..Len(lines) /\ InBlock(lines[i])
  BY <1>1 DEF BlockStarts
<1>3. IsFiniteSet(1..Len(lines)) /\ BlockStarts(lines) \subseteq 1..Len(lines)
  BY <1>1, <1>2, FS_Interval
<1> QED
  BY <1>1, <1>2, <1>3, FS_Subset

\* What parseAtoms answers: a card for each block, in their order.
LEMMA ParseFacts ==
    ASSUME NEW lines, IsSeq(lines)
    PROVE  LET B == BlockStarts(lines)
               A == Ascending(B)
               P == ParseAtoms(lines)
           IN /\ IsSeq(P) /\ Len(P) = Cardinality(B) /\ Len(P) \in Nat /\ DOMAIN P = 1..Len(P)
              /\ \A n \in 1..Len(P) : A[n] \in B /\ P[n] = CardAt(lines, Loose(lines), A[n])
              /\ \A i \in B : \E n \in 1..Len(P) : A[n] = i
              /\ \A m, n \in 1..Len(P) : m < n => A[m] < A[n]
<1> DEFINE B == BlockStarts(lines)
           A == Ascending(B)
           f == [n \in DOMAIN A |-> CardAt(lines, Loose(lines), A[n])]
           P == ParseAtoms(lines)
<1>1. B \in SUBSET (Nat \ {0}) /\ IsFiniteSet(B)
  BY BlockStartsFacts
<1>2. P = Tuple(f)
  BY DEF ParseAtoms, AtomsAt, CardAt, Loose
<1> HIDE DEF B
<1>3. /\ DOMAIN A = 1..Cardinality(B) /\ Cardinality(B) \in Nat
      /\ \A n \in 1..Cardinality(B) : A[n] \in B
      /\ \A i \in B : \E n \in 1..Cardinality(B) : A[n] = i
      /\ \A m, n \in 1..Cardinality(B) : m < n => A[m] < A[n]
  BY <1>1, AscendingFacts
<1> HIDE DEF A
<1>4. f = [n \in 1..Cardinality(B) |-> f[n]] /\ \A n \in 1..Cardinality(B) : f[n] = CardAt(lines, Loose(lines), A[n])
  BY <1>3
<1> HIDE DEF f, P
<1>5. IsSeq(f) /\ Len(f) = Cardinality(B) /\ DOMAIN f = 1..Cardinality(B) /\ Tuple(f) = f
  BY <1>3, <1>4, FunctionSeq
<1>6. P = f
  BY <1>2, <1>5
<1>7. /\ IsSeq(P) /\ Len(P) = Cardinality(B) /\ Len(P) \in Nat /\ DOMAIN P = 1..Len(P)
      /\ \A n \in 1..Len(P) : A[n] \in B /\ P[n] = CardAt(lines, Loose(lines), A[n])
      /\ \A i \in B : \E n \in 1..Len(P) : A[n] = i
      /\ \A m, n \in 1..Len(P) : m < n => A[m] < A[n]
  BY <1>3, <1>4, <1>5, <1>6
<1> QED
  BY <1>7 DEF P, A, B

\* parseAtoms: the directive a line comes after.
LEMMA HeadingFacts ==
    ASSUME NEW lines, IsSeq(lines), NEW i \in 1..Len(lines)
    PROVE  /\ Heading(lines, i) \in 0..(i - 1)
           /\ Heading(lines, i) # 0 => IsStructural(lines[Heading(lines, i)]) /\ Heading(lines, i) \in 1..Len(lines)
           /\ \A j \in 1..(i - 1) : IsStructural(lines[j]) => j <= Heading(lines, i)
<1> DEFINE S == {j \in 1..(i - 1) : IsStructural(lines[j])}
<1>1. Len(lines) \in Nat
  BY SeqDomain
<1>2. S \in SUBSET (Nat \ {0}) /\ i \in Nat /\ \A j \in S : j <= i /\ j \in 1..(i - 1) /\ IsStructural(lines[j])
  BY <1>1
<1>3. \A j \in 1..(i - 1) : IsStructural(lines[j]) => j \in S
  OBVIOUS
<1>4. Heading(lines, i) = LastOf(S)
  BY DEF Heading
<1> HIDE DEF S
<1>5. LastOf(S) \in Nat /\ (LastOf(S) = 0 <=> S = {}) /\ (S # {} => LastOf(S) \in S) /\ \A n \in S : n <= LastOf(S)
  BY <1>2, LastOfFacts
<1> QED
  BY <1>1, <1>2, <1>3, <1>4, <1>5

\* A card that is not implicit is a directive's.
LEMMA ExplicitCard ==
    ASSUME NEW lines, IsSeq(lines), NEW c \in Range(ParseAtoms(lines)), ~IsImplicit(c)
    PROVE  \E i \in BlockStarts(lines) : \E h \in 1..Len(lines) :
             /\ h = Heading(lines, i) /\ IsExplicit(lines, i)
             /\ lines[h].kind = "atom" /\ HasAttr(lines[h], "id")
             /\ c = CardAt(lines, Loose(lines), i)
             /\ c.attrs = lines[h].attrs /\ c.id = <<"atom", lines[h].attrs["id"]>>
             /\ c.id[2] = lines[h].attrs["id"]
<1> DEFINE A == Ascending(BlockStarts(lines))
           P == ParseAtoms(lines)
<1>1. PICK n \in 1..Len(P) : c = P[n]
  BY ParseFacts DEF Range
<1> DEFINE i == A[n]
           h == Heading(lines, i)
<1>2. i \in BlockStarts(lines) /\ c = CardAt(lines, Loose(lines), i)
  BY <1>1, ParseFacts
<1> HIDE DEF i
<1>3. i \notin Loose(lines)
  <2>1. ASSUME i \in Loose(lines) PROVE FALSE
    <3>1. c.id = <<"implicit", Cardinality({k \in Loose(lines) : k <= i})>>
      BY <1>2, <2>1 DEF CardAt
    <3> QED
      BY <3>1 DEF IsImplicit
  <2> QED
    BY <2>1
<1>4. IsExplicit(lines, i)
  BY <1>2, <1>3 DEF Loose
<1>5. h > 0 /\ lines[h].kind = "atom"
  BY <1>4 DEF IsExplicit
<1>6. i \in 1..Len(lines)
  BY <1>2, BlockStartsFacts
<1>7. h \in 1..Len(lines) /\ IsStructural(lines[h])
  <2>1. h \in 0..(i - 1) /\ (h # 0 => IsStructural(lines[h]) /\ h \in 1..Len(lines))
    BY <1>6, HeadingFacts
  <2> HIDE DEF h
  <2> QED
    BY <1>5, <1>6, <2>1
<1>8. HasAttr(lines[h], "id")
  BY <1>5, <1>7 DEF IsStructural
<1>9. c.attrs = lines[h].attrs /\ c.id = <<"atom", lines[h].attrs["id"]>>
  BY <1>2, <1>3 DEF CardAt
<1>10. c.id[2] = lines[h].attrs["id"]
  BY <1>9
<1> QED
  BY <1>2, <1>4, <1>5, <1>7, <1>8, <1>9, <1>10

--------------------------------------------------------------------------------
(* Rewrites of a block and of digests *)

\* replaceAtomBlockInSource: the new text has no blank line at its ends.
LEMMA TrimmedFacts ==
    ASSUME NEW new, IsSeq(new)
    PROVE  LET block == Trimmed(new) IN
           /\ IsSeq(block) /\ Len(block) \in Nat /\ DOMAIN block = 1..Len(block)
           /\ block # <<>> => /\ Len(block) # 0
                              /\ ~IsBlank(block[1]) /\ ~IsBlank(block[Len(block)])
<1> DEFINE full == {k \in DOMAIN new : ~IsBlank(new[k])}
           a == Min(full)
           b == Max(full)
           block == Trimmed(new)
<1>1. DOMAIN new = 1..Len(new) /\ Len(new) \in Nat
  BY SeqDomain
<1>2. full \in SUBSET Nat /\ \A k \in full : k \in 1..Len(new) /\ k <= Len(new) /\ ~IsBlank(new[k])
  BY <1>1
<1>3. block = IF full = {} THEN <<>> ELSE SubSeq(new, a, b)
  BY DEF Trimmed
<1> HIDE DEF full, block
<1>4. CASE full = {}
  <2>1. block = <<>>
    BY <1>3, <1>4
  <2>2. IsSeq(block)
    BY <2>1, EmptyIsSeq
  <2> QED
    BY <2>1, <2>2, SeqDomain DEF block
<1>5. CASE full # {}
  <2>1. a \in full /\ b \in full /\ a <= b
    <3>1. a \in full /\ \A n \in full : a <= n
      BY <1>2, <1>5, MinFacts
    <3>2. b \in full
      BY <1>1, <1>2, <1>5, MaxFacts
    <3> HIDE DEF a, b
    <3> QED
      BY <3>1, <3>2
  <2> HIDE DEF a, b
  <2>2. a \in 1..Len(new) /\ b \in 1..Len(new) /\ ~IsBlank(new[a]) /\ ~IsBlank(new[b])
    BY <1>2, <2>1
  <2>3. a \in Int /\ b \in Int /\ 1 <= a /\ b <= Len(new)
    BY <2>2
  <2>4. /\ IsSeq(SubSeq(new, a, b)) /\ Len(SubSeq(new, a, b)) = IF a <= b THEN b - a + 1 ELSE 0
        /\ \A i \in 1..(b - a + 1) : SubSeq(new, a, b)[i] = new[a + i - 1]
    BY <2>3, Cutting
  <2>5. block = SubSeq(new, a, b)
    BY <1>3, <1>5
  <2>6. IsSeq(block) /\ Len(block) = b - a + 1 /\ \A i \in 1..(b - a + 1) : block[i] = new[a + i - 1]
    BY <2>1, <2>4, <2>5
  <2>7. 1 \in 1..(b - a + 1) /\ a + 1 - 1 = a /\ b - a + 1 \in 1..(b - a + 1) /\ a + (b - a + 1) - 1 = b
    BY <2>1, <2>2
  <2>8. block[1] = new[a] /\ block[b - a + 1] = new[b]
    BY <2>6, <2>7
  <2>9. Len(block) # 0
    BY <2>1, <2>2, <2>6
  <2> QED
    BY <2>2, <2>6, <2>8, <2>9, SeqDomain DEF block
<1> QED
  BY <1>4, <1>5

\* A text with the lines below a directive, up to the end of its unit, replaced.
Rebuilt(lines, at, block) ==
    SubSeq(lines, 1, at) \o block \o SubSeq(lines, UnitEnd(lines, at) + 1, Len(lines))

\* replaceAtomBlockInSource puts content lines below an atom's directive.
LEMMA BlockIs ==
    ASSUME NEW lines, IsSeq(lines), NEW id, NEW page, IsSeq(page),
           NEW new, ReplaceAtomBlock(lines, id, page) = Rewritten(new)
    PROVE  \E at \in 1..Len(lines) :
             /\ IsAtom(lines[at], id)
             /\ new = Rebuilt(lines, at, Trimmed(page))
             /\ Trimmed(page) # <<>>
             /\ \A k \in 1..Len(Trimmed(page)) : ~LooksLikeDirectiveLine(Trimmed(page)[k])
<1> DEFINE at == DirectiveLine(lines, id)
           block == Trimmed(page)
<1>1. at \in 0..Len(lines) /\ (at # 0 => IsAtom(lines[at], id))
  BY DirectiveFacts
<1>2. DOMAIN block = 1..Len(block)
  BY TrimmedFacts
<1>3. Rewritten(new) = IF \/ at = 0
                          \/ block = <<>>
                          \/ \E k \in DOMAIN block : LooksLikeDirectiveLine(block[k])
                         THEN Refused
                         ELSE Rewritten(SubSeq(lines, 1, at) \o block
                                          \o SubSeq(lines, BlockBelow(lines, at) + 1, Len(lines)))
  BY DEF ReplaceAtomBlock
<1> HIDE DEF at, block
<1>4. at # 0 /\ block # <<>> /\ ~\E k \in DOMAIN block : LooksLikeDirectiveLine(block[k])
  BY <1>3, RefusedIs
<1>5. new = SubSeq(lines, 1, at) \o block \o SubSeq(lines, BlockBelow(lines, at) + 1, Len(lines))
  BY <1>3, <1>4, AnswerIs
<1>6. BlockBelow(lines, at) = UnitEnd(lines, at)
  <2>1. lines[at].kind # "open"
    BY <1>1, <1>4 DEF IsAtom
  <2> QED
    BY <2>1 DEF BlockBelow, UnitEnd
<1>7. at \in 1..Len(lines)
  BY <1>1, <1>4, SeqDomain
<1> QED
  BY <1>1, <1>2, <1>4, <1>5, <1>6, <1>7 DEF block, Rebuilt

\* In the new text the lines from at + 1 to e are replaced by those of a block.
Spliced(lines, at, e, block, new) ==
    /\ IsSeq(new) /\ Len(new) = Len(lines) - (e - at) + Len(block)
    /\ \A i \in 1..at : new[i] = lines[i]
    /\ \A i \in 1..Len(block) : new[at + i] = block[i]
    /\ \A i \in 1..(Len(lines) - e) : new[at + Len(block) + i] = lines[e + i]

\* replaceAtomBlockInSource: the lines of the new text.
LEMMA RebuiltFacts ==
    ASSUME NEW lines, IsSeq(lines), NEW at \in 1..Len(lines), NEW block, IsSeq(block)
    PROVE  /\ Spliced(lines, at, UnitEnd(lines, at), block, Rebuilt(lines, at, block))
           /\ \A S : (Range(lines) \subseteq S /\ Range(block) \subseteq S) =>
                Over(Rebuilt(lines, at, block), S)
<1> DEFINE e == UnitEnd(lines, at)
           a == SubSeq(lines, 1, at)
           c == SubSeq(lines, e + 1, Len(lines))
           d == a \o block
           new == Rebuilt(lines, at, block)
<1>1. Len(lines) \in Nat /\ Len(block) \in Nat /\ e \in at..Len(lines)
  BY SeqDomain, AnyEnd
<1>2. new = d \o c
  BY DEF Rebuilt
<1> HIDE DEF e, new
<1>3. /\ at \in Int /\ at <= Len(lines) /\ e + 1 \in Int /\ 1 <= e + 1 /\ Len(lines) \in Int
      /\ Len(lines) <= Len(lines) /\ 1 \in Int /\ 1 <= 1
  BY <1>1
<1>4. IsSeq(a) /\ Len(a) = at /\ \A i \in 1..at : a[i] = lines[i]
  <2>1. /\ IsSeq(a) /\ Len(a) = IF 1 <= at THEN at - 1 + 1 ELSE 0
        /\ \A i \in 1..(at - 1 + 1) : a[i] = lines[1 + i - 1]
    <3>1. 1 \in Int /\ at \in Int /\ 1 <= 1 /\ at <= Len(lines)
      BY <1>3
    <3> QED
      BY <3>1, Cutting
  <2> HIDE DEF a
  <2>2. \A i \in 1..at : i \in 1..(at - 1 + 1) /\ 1 + i - 1 = i
    BY <1>1
  <2> QED
    BY <1>1, <2>1, <2>2
<1>5. IsSeq(c) /\ Len(c) = Len(lines) - e /\ \A i \in 1..(Len(lines) - e) : c[i] = lines[e + i]
  <2>1. /\ IsSeq(c) /\ Len(c) = IF e + 1 <= Len(lines) THEN Len(lines) - (e + 1) + 1 ELSE 0
        /\ \A i \in 1..(Len(lines) - (e + 1) + 1) : c[i] = lines[(e + 1) + i - 1]
    BY <1>3, Cutting
  <2> HIDE DEF c
  <2>2. \A i \in 1..(Len(lines) - e) : i \in 1..(Len(lines) - (e + 1) + 1) /\ (e + 1) + i - 1 = e + i
    BY <1>1
  <2>3. Len(c) = Len(lines) - e
    BY <1>1, <2>1
  <2> QED
    BY <2>1, <2>2, <2>3
<1>6. ASSUME NEW S, Range(lines) \subseteq S, Range(block) \subseteq S PROVE Over(new, S)
  <2>1. Over(lines, S) /\ Over(block, S)
    BY <1>6, OverIs
  <2>2. Over(a, S) /\ Over(c, S)
    BY <1>3, <2>1, OverCut
  <2> HIDE DEF a, c
  <2>3. Over(d, S)
    BY <2>1, <2>2, OverJoin
  <2> HIDE DEF d
  <2> QED
    BY <1>2, <2>2, <2>3, OverJoin
<1> HIDE DEF a, c
<1>7. /\ IsSeq(d) /\ Len(d) = at + Len(block)
      /\ \A i \in 1..at : d[i] = lines[i]
      /\ \A i \in 1..Len(block) : d[at + i] = block[i]
  <2>1. IsSeq(a) /\ IsSeq(block)
    BY <1>4
  <2>2. /\ IsSeq(d) /\ Len(d) = Len(a) + Len(block)
        /\ \A i \in 1..Len(a) : d[i] = a[i]
        /\ \A i \in 1..Len(block) : d[Len(a) + i] = block[i]
    BY <2>1, Joining
  <2> HIDE DEF d
  <2> QED
    BY <1>4, <2>2
<1> HIDE DEF d
<1>8. /\ IsSeq(new) /\ Len(new) = (at + Len(block)) + (Len(lines) - e)
      /\ \A i \in 1..(at + Len(block)) : new[i] = d[i]
      /\ \A i \in 1..(Len(lines) - e) : new[(at + Len(block)) + i] = lines[e + i]
  <2>1. IsSeq(d) /\ IsSeq(c)
    BY <1>5, <1>7
  <2>2. /\ IsSeq(new) /\ Len(new) = Len(d) + Len(c)
        /\ \A i \in 1..Len(d) : new[i] = d[i]
        /\ \A i \in 1..Len(c) : new[Len(d) + i] = c[i]
    BY <1>2, <2>1, Joining
  <2> QED
    BY <1>5, <1>7, <2>2
<1>9. /\ \A i \in 1..at : i \in 1..(at + Len(block))
      /\ \A i \in 1..Len(block) : at + i \in 1..(at + Len(block))
      /\ (at + Len(block)) + (Len(lines) - e) = Len(lines) - (e - at) + Len(block)
  BY <1>1
<1>10. /\ IsSeq(new) /\ Len(new) = Len(lines) - (e - at) + Len(block)
       /\ \A i \in 1..at : new[i] = lines[i]
       /\ \A i \in 1..Len(block) : new[at + i] = block[i]
       /\ \A i \in 1..(Len(lines) - e) : new[at + Len(block) + i] = lines[e + i]
  BY <1>7, <1>8, <1>9
<1> QED
  BY <1>6, <1>10 DEF new, e, Spliced

\* A review's line: a directive asked for with its new digest, or the line as it was.
Stamped(l, entries) ==
    IF l.kind = "atom" /\ HasAttr(l, "id") /\ l.attrs["id"] \in DOMAIN entries
      THEN AtomTag(With(l.attrs, "digest", entries[l.attrs["id"]])) ELSE l

\* setAtomDigestsInSource changes directives in place.
LEMMA ReviewIs ==
    ASSUME NEW lines, IsSeq(lines), NEW entries, NEW new, SetAtomDigests(lines, entries) = Rewritten(new)
    PROVE  /\ IsSeq(new) /\ Len(new) = Len(lines)
           /\ \A i \in 1..Len(lines) : new[i] = Stamped(lines[i], entries)
<1> DEFINE f == [i \in 1..Len(lines) |-> Stamped(lines[i], entries)]
<1>1. DOMAIN lines = 1..Len(lines) /\ Len(lines) \in Nat
  BY SeqDomain
<1>2. Rewritten(new) = Refused \/ Rewritten(new) = Rewritten(f)
  BY <1>1 DEF SetAtomDigests, Stamped
<1>3. f = [i \in 1..Len(lines) |-> f[i]] /\ \A i \in 1..Len(lines) : f[i] = Stamped(lines[i], entries)
  OBVIOUS
<1> HIDE DEF f
<1>4. new = f
  BY <1>2, AnswerIs, RefusedIs
<1> QED
  BY <1>1, <1>3, <1>4, FunctionSeq

===============================================================================
