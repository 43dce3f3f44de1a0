----------------------------- MODULE ListProofs -----------------------------
(***************************************************************************)
(* Lemmas about finite sets of numbers and about lists, which the proofs   *)
(* about documents and about agents cite.                                  *)
(***************************************************************************)
EXTENDS Lists, SequencesExt, FiniteSetTheorems, SequenceTheorems, TLAPS

(* A finite set of numbers that is not empty has a greatest one: take a     *)
(* smallest subset without, and one number away from it.                    *)
LEMMA HasGreatest ==
    ASSUME NEW S \in SUBSET Int, IsFiniteSet(S), S # {}
    PROVE  \E m \in S : \A y \in S : y <= m
<1> DEFINE Great(U) == \E m \in U : \A y \in U : y <= m
           T == {U \in FiniteSubsetsOf(S) : U # {} /\ ~Great(U)}
<1> SUFFICES ASSUME ~Great(S) PROVE FALSE
    OBVIOUS
<1>0. S \in T
    BY DEF FiniteSubsetsOf
<1>1. PICK U \in T : \A V \in T : ~(<<V, U>> \in StrictSubsetOrdering(S))
    <2>1. IsWellFoundedOn(StrictSubsetOrdering(S), FiniteSubsetsOf(S))
        BY FS_StrictSubsetOrderingWellFounded
    <2>2. T \subseteq FiniteSubsetsOf(S) /\ T # {}
        BY <1>0
    <2> HIDE DEF T
    <2> QED BY <2>1, <2>2, WFMin
<1>2. PICK x \in U : TRUE
    OBVIOUS
<1>3. U \subseteq S /\ IsFiniteSet(U)
    BY DEF FiniteSubsetsOf
<1>4. IsFiniteSet(U \ {x})
    BY <1>3, FS_RemoveElement
<1>5. U \ {x} \notin T
    BY <1>1, <1>2, <1>3 DEF StrictSubsetOrdering
<1>6. U \ {x} = {} \/ Great(U \ {x})
    BY <1>3, <1>4, <1>5 DEF FiniteSubsetsOf
<1>7. CASE U \ {x} = {}
    <2>1. \A y \in U : y <= x
        BY <1>2, <1>3, <1>7
    <2> QED BY <1>2, <2>1
<1>8. CASE Great(U \ {x})
    <2>1. PICK m \in U \ {x} : \A y \in U \ {x} : y <= m
        BY <1>8
    <2>2. m \in Int /\ x \in Int /\ \A y \in U : y \in Int
        BY <1>2, <1>3, <2>1
    <2>3. CASE x <= m
        <3>1. \A y \in U : y <= m
            BY <2>1, <2>2, <2>3
        <3> QED BY <2>1, <3>1
    <2>4. CASE m <= x
        <3>1. \A y \in U : y <= x
            BY <1>2, <2>1, <2>2, <2>4
        <3> QED BY <1>2, <3>1
    <2> QED BY <2>2, <2>3, <2>4
<1> QED BY <1>6, <1>7, <1>8

LEMMA MaxIsGreatest ==
    ASSUME NEW S \in SUBSET Int, IsFiniteSet(S), S # {}
    PROVE  Max(S) \in S /\ \A y \in S : y <= Max(S)
<1>1. \E m \in S : \A y \in S : m >= y
    BY HasGreatest
<1>2. Max(S) \in S /\ \A y \in S : Max(S) >= y
    BY <1>1 DEF Max
<1> QED BY <1>2

LEMMA HasLeast ==
    ASSUME NEW S \in SUBSET Nat, S # {}
    PROVE  Min(S) \in S /\ \A y \in S : Min(S) <= y
<1>1. PICK x \in S : \A y \in S : ~(<<y, x>> \in OpToRel(<, Nat))
    BY NatLessThanWellFounded, WFMin
<1>2. \A y \in S : x <= y
    <2> SUFFICES ASSUME NEW y \in S PROVE ~(y < x)
        OBVIOUS
    <2>1. x \in Nat /\ y \in Nat
        OBVIOUS
    <2> QED BY <1>1, <2>1 DEF OpToRel
<1> QED BY <1>2 DEF Min

\* What holds of the first number and passes to each next holds of them all.
LEMMA SetInduction ==
    ASSUME NEW n \in Nat, NEW T, 0 \in T, \A k \in 1 .. n : k - 1 \in T => k \in T
    PROVE  \A k \in 0 .. n : k \in T
<1> DEFINE Rest == {k \in Nat : k <= n /\ k \notin T}
<1> SUFFICES ASSUME NEW k \in 0 .. n, k \notin T PROVE FALSE
    OBVIOUS
<1>1. Rest \in SUBSET Nat /\ Rest # {}
    OBVIOUS
<1>2. Min(Rest) \in Rest /\ \A y \in Rest : Min(Rest) <= y
    BY <1>1, HasLeast
<1> DEFINE m == Min(Rest)
<1>3. m \in Nat /\ m <= n /\ m \notin T /\ m # 0
    BY <1>2
<1>4. m - 1 \in Nat /\ m - 1 <= n /\ ~(m <= m - 1)
    BY <1>3
<1>5. m - 1 \in T
    BY <1>2, <1>4
<1>6. m \in 1 .. n
    BY <1>3
<1> QED BY <1>3, <1>5, <1>6

\* A finite set as a list has each of its elements.
LEMMA OrderFacts ==
    ASSUME NEW S, IsFiniteSet(S)
    PROVE  /\ Cardinality(S) \in Nat /\ SetToSeq(S) \in [1 .. Cardinality(S) -> S]
           /\ \A x \in S : \E i \in 1 .. Cardinality(S) : SetToSeq(S)[i] = x
<1> DEFINE n == Cardinality(S)
           s == SetToSeq(S)
<1>1. n \in Nat /\ ExistsBijection(1 .. n, S)
    BY FS_CardinalityType
<1>2. \E f \in [1 .. n -> S] : IsInjective(f)
    BY <1>1 DEF ExistsBijection, Bijection, Injection
<1>3. s \in [1 .. n -> S] /\ IsInjective(s)
    BY <1>2 DEF SetToSeq
<1>4. s \in Injection(1 .. n, S)
    BY <1>3 DEF Injection
<1>5. IsFiniteSet(1 .. n) /\ Cardinality(1 .. n) = n
    BY <1>1, FS_Interval
<1>6. s \in Surjection(1 .. n, S)
    BY <1>4, <1>5, FS_Injection
<1> QED BY <1>1, <1>3, <1>6 DEF Surjection

\* A list of lists is flattened list by list.
Flattened(g, ss) == g = [i \in 1 .. Len(ss) |-> IF i = 1 THEN ss[i] ELSE g[i - 1] \o ss[i]]
LEMMA FlattenFacts ==
    ASSUME NEW ss, Len(ss) \in Nat \ {0}
    PROVE  \E g : Flattened(g, ss) /\ FlattenSeq(ss) = g[Len(ss)]
<1> DEFINE n == Len(ss)
           Upto(g, m) == g = [i \in 1 .. m |-> IF i = 1 THEN ss[i] ELSE g[i - 1] \o ss[i]]
           T == {m \in 0 .. n : \E g : Upto(g, m)}
<1>1. 0 \in T
    <2> DEFINE g == [i \in {} |-> 0]
    <2>1. g = [i \in 1 .. 0 |-> IF i = 1 THEN ss[i] ELSE g[i - 1] \o ss[i]]
        OBVIOUS
    <2>2. Upto(g, 0) /\ 0 \in 0 .. n
        BY <2>1
    <2> HIDE DEF g, Upto
    <2> QED BY <2>2
<1>2. ASSUME NEW m \in 1 .. n, m - 1 \in T PROVE m \in T
    <2>1. PICK g : Upto(g, m - 1)
        BY <1>2
    <2> DEFINE v == IF m = 1 THEN ss[1] ELSE g[m - 1] \o ss[m]
               h == [i \in 1 .. m |-> IF i = m THEN v ELSE g[i]]
    <2>2. ASSUME NEW i \in 1 .. m
          PROVE  h[i] = IF i = 1 THEN ss[i] ELSE h[i - 1] \o ss[i]
        <3>1. CASE i = m
            <4>1. i # 1 => m - 1 \in 1 .. m /\ m - 1 # m
                BY <3>1
            <4> QED BY <3>1, <4>1
        <3>2. CASE i # m
            <4>1. i \in 1 .. m - 1 /\ (i # 1 => i - 1 \in 1 .. m /\ i - 1 # m)
                BY <3>2
            <4>2. g[i] = IF i = 1 THEN ss[i] ELSE g[i - 1] \o ss[i]
                BY <2>1, <4>1
            <4> QED BY <3>2, <4>1, <4>2
        <3> QED BY <3>1, <3>2
    <2>3. Upto(h, m)
        BY <2>2
    <2>4. m \in 0 .. n
        OBVIOUS
    <2> HIDE DEF h, Upto
    <2> QED BY <2>3, <2>4
<1> HIDE DEF T
<1>3. n \in T
    BY <1>1, <1>2, SetInduction
<1>4. \E g : Flattened(g, ss)
    BY <1>3 DEF T, Flattened
<1> DEFINE flat == CHOOSE g : Flattened(g, ss)
<1>5. Flattened(flat, ss)
    BY <1>4
<1>6. FlattenSeq(ss) = flat[Len(ss)]
    BY DEF FlattenSeq, Flattened
<1> QED BY <1>5, <1>6

\* The numbers of a list have a greatest one.
LEMMA NumbersAreFinite ==
    ASSUME NEW n \in Nat, NEW f \in [1 .. n -> Nat]
    PROVE  IsFiniteSet(Range(f)) /\ Cardinality(Range(f)) \in Nat
<1>1. f \in Surjection(1 .. n, Range(f))
    BY DEF Surjection, Range
<1>2. IsFiniteSet(1 .. n)
    BY FS_Interval
<1> QED BY <1>1, <1>2, FS_Surjection, FS_CardinalityType

LEMMA ListOf ==
    ASSUME NEW S, NEW n \in Nat, NEW s, s = [i \in 1 .. n |-> s[i]], \A i \in 1 .. n : s[i] \in S
    PROVE  s \in Seq(S) /\ Len(s) = n
<1>1. s \in [1 .. n -> S]
    OBVIOUS
<1>2. s \in Seq(S)
    BY <1>1, SeqDef
<1>3. DOMAIN s = 1 .. n /\ DOMAIN s = 1 .. Len(s) /\ Len(s) \in Nat
    BY <1>1, <1>2, LenProperties
<1> QED BY <1>2, <1>3

(* The places K of a list: each has its rank, and the k-th is the one of    *)
(* rank k.                                                                  *)
Rank(K, i) == Cardinality({j \in K : j <= i})

LEMMA RanksRise ==
    ASSUME NEW n \in Nat, NEW K \in SUBSET (1 .. n)
    PROVE  /\ IsFiniteSet(K) /\ Cardinality(K) \in Nat
           /\ \A i \in K : Rank(K, i) \in 1 .. Cardinality(K)
           /\ \A i, k \in K : i < k => Rank(K, i) < Rank(K, k)
<1>1. IsFiniteSet(K) /\ Cardinality(K) \in Nat
    <2>1. IsFiniteSet(1 .. n)
        BY FS_Interval
    <2> QED BY <2>1, FS_Subset, FS_CardinalityType
<1>2. \A i \in K : IsFiniteSet({j \in K : j <= i}) /\ Rank(K, i) \in Nat /\ Rank(K, i) <= Cardinality(K)
    BY <1>1, FS_Subset, FS_CardinalityType DEF Rank
<1>3. \A i \in K : Rank(K, i) # 0
    <2> SUFFICES ASSUME NEW i \in K, Rank(K, i) = 0 PROVE FALSE
        OBVIOUS
    <2>1. {j \in K : j <= i} = {}
        BY <1>2, FS_EmptySet DEF Rank
    <2> QED BY <2>1
<1>4. ASSUME NEW i \in K, NEW k \in K, i < k PROVE Rank(K, i) < Rank(K, k)
    <2> DEFINE Low == {j \in K : j <= i}
               High == {j \in K : j <= k}
    <2>1. i \in Nat /\ k \in Nat /\ \A j \in K : j \in Nat
        OBVIOUS
    <2>2. ASSUME NEW j \in Low PROVE j \in High
        <3>1. j \in Nat /\ j <= i
            BY <2>1
        <3> QED BY <1>4, <2>1, <3>1
    <2>3. k \in High /\ k \notin Low
        BY <1>4, <2>1
    <2>4. Rank(K, i) = Cardinality(Low) /\ Rank(K, k) = Cardinality(High)
        BY DEF Rank
    <2>5. IsFiniteSet(High) /\ Rank(K, i) \in Nat /\ Rank(K, k) \in Nat
        BY <1>2
    <2> HIDE DEF Low, High
    <2>6. Low \in SUBSET High /\ Low # High
        BY <2>2, <2>3
    <2>7. Cardinality(Low) <= Cardinality(High) /\ Cardinality(Low) # Cardinality(High)
        BY <2>5, <2>6, FS_Subset
    <2> QED BY <2>4, <2>5, <2>7
<1>5. \A i \in K : Rank(K, i) \in 1 .. Cardinality(K)
    <2>1. ASSUME NEW i \in K PROVE Rank(K, i) \in Nat /\ Rank(K, i) <= Cardinality(K) /\ Rank(K, i) # 0
        BY <1>2, <1>3
    <2> QED BY <1>1, <2>1
<1>6. \A i, k \in K : i < k => Rank(K, i) < Rank(K, k)
    BY <1>4
<1> QED BY <1>1, <1>5, <1>6

LEMMA NthOfRank ==
    ASSUME NEW n \in Nat, NEW K \in SUBSET (1 .. n)
    PROVE  /\ \A k \in 1 .. Cardinality(K) : Nth(K, k) \in K /\ Rank(K, Nth(K, k)) = k
           /\ \A i \in K : Nth(K, Rank(K, i)) = i
<1> DEFINE N == Cardinality(K)
           r == [i \in K |-> Rank(K, i)]
<1>1. /\ IsFiniteSet(K) /\ N \in Nat
      /\ \A i \in K : Rank(K, i) \in 1 .. N
      /\ \A i, k \in K : i < k => Rank(K, i) < Rank(K, k)
    BY RanksRise
<1>2. ASSUME NEW i \in K, NEW k \in K, Rank(K, i) = Rank(K, k) PROVE i = k
    <2>1. i \in Nat /\ k \in Nat /\ Rank(K, i) \in Nat /\ Rank(K, k) \in Nat
        BY <1>1
    <2>2. ~(i < k) /\ ~(k < i)
        BY <1>1, <1>2, <2>1
    <2> QED BY <2>1, <2>2
<1>3. r \in Injection(K, 1 .. N)
    <2>1. r \in [K -> 1 .. N]
        BY <1>1
    <2>2. \A i, k \in K : r[i] = r[k] => i = k
        BY <1>2
    <2> QED BY <2>1, <2>2 DEF Injection, IsInjective
<1>4. IsFiniteSet(1 .. N) /\ Cardinality(1 .. N) = N
    BY <1>1, FS_Interval
<1>5. r \in Surjection(K, 1 .. N)
    BY <1>3, <1>4, FS_Injection
<1>6. \A k \in 1 .. N : \E i \in K : Rank(K, i) = k
    BY <1>5 DEF Surjection
<1>7. ASSUME NEW k \in 1 .. N PROVE Nth(K, k) \in K /\ Rank(K, Nth(K, k)) = k
    BY <1>6 DEF Nth, Rank
<1>8. ASSUME NEW i \in K PROVE Nth(K, Rank(K, i)) = i
    BY <1>1, <1>2, <1>7
<1> QED BY <1>7, <1>8

(* What is kept of a list: as many entries as places, each of them the      *)
(* entry of its place, and no place twice.                                  *)
LEMMA KeptAtFacts ==
    ASSUME NEW S, NEW s \in Seq(S), NEW K \in SUBSET DOMAIN s
    PROVE  /\ KeptAt(s, K) \in Seq(S)
           /\ IsFiniteSet(K)
           /\ Len(KeptAt(s, K)) = Cardinality(K)
           /\ \A k \in 1 .. Len(KeptAt(s, K)) : Nth(K, k) \in K /\ KeptAt(s, K)[k] = s[Nth(K, k)]
           /\ \A k, l \in 1 .. Len(KeptAt(s, K)) : Nth(K, k) = Nth(K, l) => k = l
           /\ \A i \in K : \E k \in 1 .. Len(KeptAt(s, K)) : Nth(K, k) = i
<1> DEFINE N == Cardinality(K)
<1>1. Len(s) \in Nat /\ K \in SUBSET (1 .. Len(s)) /\ \A i \in DOMAIN s : s[i] \in S
    BY LenProperties, ElementOfSeq
<1>2. IsFiniteSet(K) /\ N \in Nat /\ \A i \in K : Rank(K, i) \in 1 .. N
    BY <1>1, RanksRise
<1>3. \A k \in 1 .. N : Nth(K, k) \in K /\ Rank(K, Nth(K, k)) = k
    BY <1>1, NthOfRank
<1>4. \A i \in K : Nth(K, Rank(K, i)) = i
    BY <1>1, NthOfRank
<1>5. KeptAt(s, K) \in [1 .. N -> S]
    BY <1>1, <1>3 DEF KeptAt
<1>6. KeptAt(s, K) \in Seq(S)
    BY <1>2, <1>5, SeqDef
<1>7. Len(KeptAt(s, K)) = N
    BY <1>2, <1>5, <1>6, LenProperties
<1>8. \A k \in 1 .. N : KeptAt(s, K)[k] = s[Nth(K, k)]
    BY DEF KeptAt
<1> QED BY <1>2, <1>3, <1>4, <1>6, <1>7, <1>8

(* A list without the entry at i: those after it move up.                   *)
LEMMA RemoveAtFacts ==
    ASSUME NEW S, NEW s \in Seq(S), NEW i \in DOMAIN s
    PROVE  /\ RemoveAt(s, i) \in Seq(S)
           /\ Len(RemoveAt(s, i)) = Len(s) - 1
           /\ \A k \in 1 .. Len(s) - 1 : RemoveAt(s, i)[k] = IF k < i THEN s[k] ELSE s[k + 1]
<1> DEFINE low == SubSeq(s, 1, i - 1)
           high == SubSeq(s, i + 1, Len(s))
<1>1. Len(s) \in Nat /\ i \in 1 .. Len(s) /\ \A k \in 1 .. Len(s) : s[k] \in S
    BY LenProperties, ElementOfSeq
<1>2. /\ low \in Seq(S) /\ Len(low) = i - 1
      /\ \A k \in 1 .. i - 1 : low[k] = s[k]
    <2>1. 1 \in Int /\ i - 1 \in Int /\ \A k \in 1 .. i - 1 : s[k] \in S
        BY <1>1
    <2>2. /\ low \in Seq(S) /\ Len(low) = IF 1 <= i - 1 THEN i - 1 - 1 + 1 ELSE 0
          /\ \A k \in 1 .. i - 1 - 1 + 1 : low[k] = s[1 + k - 1]
        BY <2>1, SubSeqProperties
    <2> QED BY <1>1, <2>2
<1>3. /\ high \in Seq(S) /\ Len(high) = Len(s) - i
      /\ \A k \in 1 .. Len(s) - i : high[k] = s[i + k]
    <2>1. i + 1 \in Int /\ Len(s) \in Int /\ \A k \in i + 1 .. Len(s) : s[k] \in S
        BY <1>1
    <2>2. /\ high \in Seq(S) /\ Len(high) = IF i + 1 <= Len(s) THEN Len(s) - (i + 1) + 1 ELSE 0
          /\ \A k \in 1 .. Len(s) - (i + 1) + 1 : high[k] = s[i + 1 + k - 1]
        BY <2>1, SubSeqProperties
    <2> QED BY <1>1, <2>2
<1>4. RemoveAt(s, i) = low \o high
    BY DEF RemoveAt
<1> HIDE DEF low, high
<1>5. /\ low \o high \in Seq(S) /\ Len(low \o high) = Len(s) - 1
      /\ \A k \in 1 .. Len(s) - 1 : (low \o high)[k] = IF k <= i - 1 THEN low[k] ELSE high[k - (i - 1)]
    BY SMTT(30), <1>1, <1>2, <1>3, ConcatProperties
<1>6. ASSUME NEW k \in 1 .. Len(s) - 1
      PROVE  (low \o high)[k] = IF k < i THEN s[k] ELSE s[k + 1]
    <2>1. CASE k < i
        BY <1>1, <1>2, <1>5, <2>1
    <2>2. CASE ~(k < i)
        <3>1. k - (i - 1) \in 1 .. Len(s) - i /\ i + (k - (i - 1)) = k + 1 /\ ~(k <= i - 1)
            BY <1>1, <2>2
        <3>2. high[k - (i - 1)] = s[k + 1]
            BY <1>3, <3>1
        <3> QED BY <1>5, <2>2, <3>1, <3>2
    <2> QED BY <2>1, <2>2
<1> QED BY <1>4, <1>5, <1>6
=============================================================================
