------------------------------ MODULE ProofFacts ------------------------------
(***************************************************************************)
(* Facts about numbers, finite sets and selections that the proofs share.  *)
(***************************************************************************)
EXTENDS Selection, Sequences, FiniteSetTheorems, FunctionTheorems, NaturalsInduction,
        WellFoundedInduction, TLAPS

\* A non-empty set of numbers has a smallest one.
LEMMA SmallestNat ==
    ASSUME NEW T \in SUBSET Nat, T # {} PROVE \E x \in T : \A y \in T : x <= y
<1>1. IsWellFoundedOn(OpToRel(<, Nat), Nat)
  BY NatLessThanWellFounded
<1>2. PICK x \in T : \A y \in T : ~(<<y, x>> \in OpToRel(<, Nat))
  BY <1>1, WFMin
<1>3. \A y \in T : ~(y < x)
  BY <1>2 DEF OpToRel
<1> QED BY <1>3

\* Induction from the end of an interval to its start.
LEMMA BackwardInduction ==
    ASSUME NEW n \in Nat, NEW T,
           \A p \in 1 .. n : (\A r \in p + 1 .. n : r \in T) => p \in T
    PROVE  \A p \in 1 .. n : p \in T
<1> DEFINE bad == {m \in Nat : m < n /\ n - m \notin T}
<1> SUFFICES ASSUME NEW p \in 1 .. n, p \notin T PROVE FALSE
  OBVIOUS
<1>1. n - p \in bad
  OBVIOUS
<1>2. PICK x \in bad : \A y \in bad : x <= y
  <2>1. bad \in SUBSET Nat /\ bad # {}
    BY <1>1
  <2> HIDE DEF bad
  <2> QED BY <2>1, SmallestNat
<1>3. ASSUME NEW r \in n - x + 1 .. n PROVE r \in T
  <2>1. n - r \in Nat /\ n - r < x /\ n - (n - r) = r /\ n - r < n
    BY <1>3
  <2> QED BY <1>2, <2>1
<1> QED BY <1>2, <1>3

\* A set of positions is finite and no larger than their number.
LEMMA CountUpTo ==
    ASSUME NEW n \in Nat, NEW S \in SUBSET (1 .. n)
    PROVE  IsFiniteSet(S) /\ Cardinality(S) \in Nat /\ Cardinality(S) <= n
<1>1. IsFiniteSet(1 .. n) /\ Cardinality(1 .. n) = n
  <2>1. IsFiniteSet(1 .. n) /\ Cardinality(1 .. n) = IF 1 > n THEN 0 ELSE n - 1 + 1
    BY FS_Interval
  <2> QED BY <2>1
<1>2. IsFiniteSet(S) /\ Cardinality(S) <= Cardinality(1 .. n)
  BY <1>1, FS_Subset
<1> QED BY <1>1, <1>2, FS_CardinalityType

\* One more position.
LEMMA CountOneMore ==
    ASSUME NEW n \in Nat, NEW S \in SUBSET (1 .. n), NEW x \in 1 .. n, x \notin S
    PROVE  Cardinality(S \cup {x}) = Cardinality(S) + 1 /\ Cardinality(S) + 1 <= n
<1>1. IsFiniteSet(S)
  BY CountUpTo
<1>2. Cardinality(S \cup {x}) = Cardinality(S) + 1
  BY <1>1, FS_AddElement
<1>3. Cardinality(S \cup {x}) <= n
  <2>1. S \cup {x} \in SUBSET (1 .. n)
    OBVIOUS
  <2> QED BY <2>1, CountUpTo
<1> QED BY <1>2, <1>3

\* An injection of the numbers up to n into themselves leaves none out.
LEMMA InjectiveIsOnto ==
    ASSUME NEW n \in Nat, NEW f \in [1 .. n -> 1 .. n],
           \A i, j \in 1 .. n : f[i] = f[j] => i = j
    PROVE  \A row \in 1 .. n : \E i \in 1 .. n : f[i] = row
<1>1. f \in Injection(1 .. n, 1 .. n)
  BY Fun_IsInj
<1>2. IsFiniteSet(1 .. n)
  BY FS_Interval
<1>3. f \in Surjection(1 .. n, 1 .. n)
  BY <1>1, <1>2, FS_Injection
<1> QED BY <1>3 DEF Surjection

\* Sets between which there is a one-to-one correspondence have the same size.
LEMMA OneToOne ==
    ASSUME NEW S, NEW T, IsFiniteSet(S), NEW f \in [S -> T],
           \A x, y \in S : f[x] = f[y] => x = y,
           \A z \in T : \E x \in S : f[x] = z
    PROVE  Cardinality(T) = Cardinality(S)
<1>1. f \in Bijection(S, T)
  BY Fun_IsBij
<1>2. ExistsBijection(S, T)
  BY <1>1 DEF ExistsBijection
<1> QED BY <1>2, FS_Bijection

-----------------------------------------------------------------------------
(* Selections.                                                             *)

\* How many positions of S are no later than i.
RankIn(S, i) == Cardinality({j \in S : j <= i})

\* Of two positions of S the later one has the greater rank; the first one has rank 1.
LEMMA RankIs ==
    ASSUME NEW n \in Nat, NEW S \in SUBSET (1 .. n), NEW i \in S
    PROVE  /\ RankIn(S, i) \in 1 .. Cardinality(S)
           /\ \A k \in S : k < i => RankIn(S, k) < RankIn(S, i)
           /\ RankIn(S, i) >= 2 => \E k \in S : k < i
<1> DEFINE upTo(k) == {j \in S : j <= k}
<1>0. \A k \in S : k \in Int
  OBVIOUS
<1>1. IsFiniteSet(S) /\ Cardinality(S) \in Nat
  BY CountUpTo
<1>2. ASSUME NEW k
      PROVE  IsFiniteSet(upTo(k)) /\ Cardinality(upTo(k)) \in Nat
             /\ Cardinality(upTo(k)) <= Cardinality(S)
  <2>1. upTo(k) \in SUBSET S
    OBVIOUS
  <2> HIDE DEF upTo
  <2> QED BY <1>1, <2>1, FS_Subset, FS_CardinalityType
<1>3. Cardinality(upTo(i)) >= 1
  <2>1. i \in upTo(i)
    BY <1>0
  <2> HIDE DEF upTo
  <2> QED BY <1>2, <2>1, FS_EmptySet
<1>4. ASSUME NEW k \in S, k < i PROVE Cardinality(upTo(k)) < Cardinality(upTo(i))
  <2>1. i \in upTo(i) /\ i \notin upTo(k)
    BY <1>0, <1>4
  <2>2. upTo(k) \in SUBSET upTo(i)
    <3>1. ASSUME NEW j \in S, j <= k PROVE j <= i
      BY <1>0, <1>4, <3>1
    <3> QED BY <3>1
  <2> HIDE DEF upTo
  <2>3. /\ Cardinality(upTo(k)) <= Cardinality(upTo(i))
        /\ Cardinality(upTo(i)) # Cardinality(upTo(k))
    BY <1>2, <2>1, <2>2, FS_Subset
  <2> QED BY <1>2, <2>3
<1>5. ASSUME \A k \in S : ~(k < i) PROVE Cardinality(upTo(i)) = 1
  <2>1. ASSUME NEW j \in S PROVE j <= i <=> j = i
    BY <1>0, <1>5
  <2>2. upTo(i) = {i}
    <3>1. upTo(i) = {j \in S : j = i}
      BY <2>1
    <3>2. {j \in S : j = i} = {i}
      OBVIOUS
    <3> QED BY <3>1, <3>2
  <2> HIDE DEF upTo
  <2> QED BY <2>2, FS_Singleton
<1>6. \A k : RankIn(S, k) = Cardinality(upTo(k))
  BY DEF RankIn
<1> HIDE DEF upTo
<1> QED BY <1>1, <1>2, <1>3, <1>4, <1>5, <1>6

\* So Nth lists the positions of S, each once and in their order.
LEMMA NthIs ==
    ASSUME NEW n \in Nat, NEW S \in SUBSET (1 .. n)
    PROVE  /\ Cardinality(S) \in Nat
           /\ \A k \in 1 .. Cardinality(S) : Nth(S, k) \in S /\ RankIn(S, Nth(S, k)) = k
           /\ \A i \in S : \E k \in 1 .. Cardinality(S) : Nth(S, k) = i
<1> DEFINE r == [i \in S |-> RankIn(S, i)]
<1>1. IsFiniteSet(S) /\ Cardinality(S) \in Nat
  BY CountUpTo
<1>2. \A i \in S : RankIn(S, i) \in 1 .. Cardinality(S)
  BY RankIs
<1>3. ASSUME NEW i \in S, NEW k \in S, RankIn(S, i) = RankIn(S, k) PROVE i = k
  <2>1. i \in Int /\ k \in Int /\ RankIn(S, i) \in Int
    BY <1>2
  <2>2. ~(i < k) /\ ~(k < i)
    <3>1. i < k => RankIn(S, i) < RankIn(S, k)
      BY RankIs
    <3>2. k < i => RankIn(S, k) < RankIn(S, i)
      BY RankIs
    <3> QED BY <1>3, <2>1, <3>1, <3>2
  <2> QED BY <2>1, <2>2
<1>4. ASSUME NEW k \in 1 .. Cardinality(S) PROVE \E i \in S : RankIn(S, i) = k
  <2>1. r \in [S -> 1 .. Cardinality(S)] /\ \A i, j \in S : r[i] = r[j] => i = j
    BY <1>2, <1>3
  <2>2. /\ IsFiniteSet(1 .. Cardinality(S))
        /\ Cardinality(1 .. Cardinality(S)) = Cardinality(S)
    <3>1. PICK c \in Nat : c = Cardinality(S)
      BY <1>1
    <3>2. IsFiniteSet(1 .. c) /\ Cardinality(1 .. c) = IF 1 > c THEN 0 ELSE c - 1 + 1
      BY FS_Interval
    <3>3. Cardinality(1 .. c) = c
      BY <3>2
    <3> QED BY <3>1, <3>2, <3>3
  <2> HIDE DEF r
  <2>3. r \in Injection(S, 1 .. Cardinality(S))
    BY <2>1, Fun_IsInj
  <2>4. r \in Surjection(S, 1 .. Cardinality(S))
    BY <2>2, <2>3, FS_Injection
  <2>5. \E i \in S : r[i] = k
    BY <2>4 DEF Surjection
  <2> QED BY <2>5 DEF r
<1>5. ASSUME NEW k \in 1 .. Cardinality(S) PROVE Nth(S, k) \in S /\ RankIn(S, Nth(S, k)) = k
  BY <1>4 DEF Nth, RankIn
<1>6. ASSUME NEW i \in S PROVE \E k \in 1 .. Cardinality(S) : Nth(S, k) = i
  <2>1. Nth(S, RankIn(S, i)) = i
    BY <1>2, <1>3, <1>5
  <2> QED BY <1>2, <2>1
<1> QED BY <1>1, <1>5, <1>6

\* A selection has as many elements as there are positions.
LEMMA SelectedIs ==
    ASSUME NEW n \in Nat, NEW S \in SUBSET (1 .. n), NEW s
    PROVE  /\ Len(Selected(s, S)) = Cardinality(S) /\ Cardinality(S) \in Nat
           /\ DOMAIN Selected(s, S) = 1 .. Cardinality(S)
           /\ \A k \in 1 .. Cardinality(S) : Selected(s, S)[k] = s[Nth(S, k)]
<1>1. PICK c \in Nat : c = Cardinality(S)
  BY NthIs
<1>2. Selected(s, S) = [k \in 1 .. c |-> s[Nth(S, k)]]
  BY <1>1 DEF Selected
<1>3. Len([k \in 1 .. c |-> s[Nth(S, k)]]) = c
  OBVIOUS
<1> QED BY <1>1, <1>2, <1>3

\* The rank tells the positions of S apart, and Nth undoes it.
LEMMA NthOfRank ==
    ASSUME NEW n \in Nat, NEW S \in SUBSET (1 .. n), NEW i \in S
    PROVE  /\ RankIn(S, i) \in 1 .. Cardinality(S) /\ Nth(S, RankIn(S, i)) = i
           /\ \A k \in S : RankIn(S, k) = RankIn(S, i) => k = i
<1>0. ASSUME NEW k \in S PROVE Nth(S, RankIn(S, k)) = k
  <2>1. PICK a \in 1 .. Cardinality(S) : Nth(S, a) = k
    BY NthIs
  <2>2. RankIn(S, Nth(S, a)) = a
    BY NthIs
  <2> QED BY <2>1, <2>2
<1>1. RankIn(S, i) \in 1 .. Cardinality(S)
  BY RankIs
<1>2. ASSUME NEW k \in S, RankIn(S, k) = RankIn(S, i) PROVE k = i
  BY <1>0, <1>2
<1> QED BY <1>0, <1>1, <1>2

\* Neighbours in S have successive ranks.
LEMMA RankOfNext ==
    ASSUME NEW n \in Nat, NEW S \in SUBSET (1 .. n), NEW i \in S, NEW k \in S, k < i,
           \A j \in S : j < i => j <= k
    PROVE  RankIn(S, i) = RankIn(S, k) + 1
<1> DEFINE before == {j \in S : j <= k}
<1>1. before \in SUBSET (1 .. n) /\ i \in 1 .. n /\ i \notin before
  <2>1. i \in Int /\ k \in Int /\ ~(i <= k)
    <3>1. i \in 1 .. n /\ k \in 1 .. n
      OBVIOUS
    <3> QED BY <3>1
  <2> QED BY <2>1
<1>2. {j \in S : j <= i} = before \cup {i}
  <2>1. \A j \in S : j \in Int
    OBVIOUS
  <2>2. \A j \in S : j <= i <=> j <= k \/ j = i
    BY <2>1
  <2> QED BY <2>2
<1> HIDE DEF before
<1>3. Cardinality(before \cup {i}) = Cardinality(before) + 1
  BY <1>1, CountOneMore
<1> QED BY <1>2, <1>3 DEF RankIn, before
=============================================================================
