------------------------------ MODULE PotsProofs ------------------------------
(***************************************************************************)
(* What the operators of the pot manager guarantee, for any bets.          *)
(***************************************************************************)
EXTENDS Pots, FiniteSetTheorems, WellFoundedInduction, TLAPS

(* Every non-empty set of natural numbers has a least element.             *)
LEMMA LeastNat ==
    ASSUME NEW S \in SUBSET Nat, S # {}
    PROVE  \E x \in S : \A y \in S : x <= y
<1> DEFINE R == {ss \in Nat \X Nat : ss[1] < ss[2]}
<1>1. IsWellFoundedOn(R, Nat)
  <2>1. OpToRel(<, Nat) = R
    BY DEF OpToRel
  <2>2. QED
    BY <2>1, NatLessThanWellFounded
<1>2. \E x \in S : \A y \in S : ~ (<<y, x>> \in R)
  <2> HIDE DEF R
  <2>1. QED
    BY <1>1, WFMin
<1>3. PICK x \in S : \A y \in S : ~ (<<y, x>> \in R)
  BY <1>2
<1>4. ASSUME NEW y \in S PROVE x <= y
  <2>1. ~ (<<y, x>> \in R)
    BY <1>3
  <2>2. x \in Nat /\ y \in Nat
    OBVIOUS
  <2>3. ~ (y < x)
    BY <2>1, <2>2
  <2>4. QED
    BY <2>2, <2>3
<1>5. QED
  BY <1>4

(* The values of a finite sequence of natural numbers are bounded.         *)
LEMMA SequenceBounded ==
    ASSUME NEW n \in Nat, NEW f \in [1 .. n -> Nat]
    PROVE  \E b \in Nat : \A i \in 1 .. n : f[i] <= b
<1> DEFINE Bounded(k) == \E b \in Nat : \A i \in 1 .. k : f[i] <= b
           Bad == {k \in 0 .. n : ~Bounded(k)}
<1>1. SUFFICES ASSUME ~Bounded(n) PROVE FALSE
  OBVIOUS
<1>2. Bad \in SUBSET Nat /\ Bad # {}
  <2>1. n \in 0 .. n
    OBVIOUS
  <2>2. n \in Bad
    BY <1>1, <2>1
  <2>3. Bad \in SUBSET Nat
    OBVIOUS
  <2> HIDE DEF Bad
  <2>4. QED
    BY <2>2, <2>3
<1> HIDE DEF Bad
<1>3. PICK k \in Bad : \A j \in Bad : k <= j
  BY <1>2, LeastNat
<1> USE DEF Bad
<1>4. k \in 0 .. n /\ ~Bounded(k)
  BY <1>3
<1>5. Bounded(0)
  <2>1. \A i \in 1 .. 0 : f[i] <= 0
    OBVIOUS
  <2>2. QED
    BY <2>1
<1>6. k \in 1 .. n /\ f[k] \in Nat
  BY <1>4, <1>5
<1>7. Bounded(k - 1)
  <2>1. k - 1 \in 0 .. n /\ ~(k <= k - 1)
    BY <1>6
  <2>2. k - 1 \notin Bad
    <3> HIDE DEF Bad
    <3>1. QED
      BY <1>3, <2>1
  <2>3. QED
    BY <2>1, <2>2
<1>8. PICK b \in Nat : \A i \in 1 .. k - 1 : f[i] <= b
  BY <1>7
<1>9. \A i \in 1 .. k : f[i] \in Nat /\ (i = k \/ f[i] <= b)
  <2>1. TAKE i \in 1 .. k
  <2>2. i \in 1 .. n /\ (i = k \/ i \in 1 .. k - 1)
    BY <1>6
  <2>3. QED
    BY <1>8, <2>2
<1>10. \A i \in 1 .. k : f[i] <= Greater(b, f[k])
  BY <1>6, <1>9 DEF Greater
<1>11. Greater(b, f[k]) \in Nat
  BY <1>6 DEF Greater
<1>12. QED
  BY <1>4, <1>10, <1>11

(* Max of a finite non-empty set of natural numbers is its greatest        *)
(* element.                                                                *)
LEMMA MaxOfNats ==
    ASSUME NEW S \in SUBSET Nat, IsFiniteSet(S), S # {}
    PROVE  Max(S) \in S /\ \A y \in S : y <= Max(S)
<1>1. PICK b \in Nat : \A y \in S : y <= b
  <2>1. Cardinality(S) \in Nat /\ Bijection(1 .. Cardinality(S), S) # {}
    BY FS_CardinalityType DEF ExistsBijection
  <2>2. PICK f \in Bijection(1 .. Cardinality(S), S) : TRUE
    BY <2>1
  <2>3. f \in [1 .. Cardinality(S) -> S]
        /\ \A y \in S : \E i \in 1 .. Cardinality(S) : f[i] = y
    BY <2>2 DEF Bijection, Injection, Surjection
  <2>4. f \in [1 .. Cardinality(S) -> Nat]
    BY <2>3
  <2>5. PICK b \in Nat : \A i \in 1 .. Cardinality(S) : f[i] <= b
    BY <2>1, <2>4, SequenceBounded
  <2>6. \A y \in S : y <= b
    BY <2>3, <2>5
  <2>7. QED
    BY <2>6
<1> DEFINE Above == {c \in Nat : \A y \in S : y <= c}
<1>2. Above \in SUBSET Nat /\ Above # {}
  BY <1>1
<1>3. \E m \in Above : \A c \in Above : m <= c
  <2> HIDE DEF Above
  <2>1. QED
    BY <1>2, LeastNat
<1>4. PICK m \in Above : \A c \in Above : m <= c
  BY <1>3
<1>5. m \in Nat /\ \A y \in S : y <= m
  OBVIOUS
<1>6. m \in S
  <2>1. SUFFICES ASSUME m \notin S PROVE FALSE
    OBVIOUS
  <2>2. \A y \in S : y \in Nat /\ y < m
    BY <1>5, <2>1
  <2>3. m - 1 \in Nat /\ \A y \in S : y <= m - 1
    <3>1. PICK y \in S : TRUE
      OBVIOUS
    <3>2. y \in Nat /\ y < m
      BY <2>2
    <3>3. QED
      BY <1>5, <2>2, <3>2
  <2>4. ~(m <= m - 1)
    BY <1>5
  <2>5. QED
    BY <1>4, <2>3, <2>4
<1>7. \E x \in S : \A y \in S : x >= y
  BY <1>5, <1>6
<1>8. QED
  BY <1>7 DEF Max

(* Min of a non-empty set of natural numbers is its least element.         *)
LEMMA MinOfNats ==
    ASSUME NEW S \in SUBSET Nat, S # {}
    PROVE  Min(S) \in S /\ \A y \in S : Min(S) <= y
<1>1. \E x \in S : \A y \in S : x <= y
  BY LeastNat
<1>2. QED
  BY <1>1 DEF Min

(* A finite set of n natural numbers has a k-th element for every k in 1 .. n. *)
LEMMA NthOfNats ==
    ASSUME NEW S \in SUBSET Nat, IsFiniteSet(S), NEW k \in 1 .. Cardinality(S)
    PROVE  \E i \in S : Cardinality({j \in S : j <= i}) = k
<1> DEFINE upTo(i) == {j \in S : j <= i}
           below(i) == {j \in S : j < i}
           T == {i \in S : Cardinality(upTo(i)) >= k}
<1>1. \A i : IsFiniteSet(upTo(i)) /\ IsFiniteSet(below(i))
  <2>1. \A i : upTo(i) \in SUBSET S /\ below(i) \in SUBSET S
    OBVIOUS
  <2>2. QED
    BY <2>1, FS_Subset
<1>2. \A i : Cardinality(upTo(i)) \in Nat /\ Cardinality(below(i)) \in Nat
  BY <1>1, FS_CardinalityType
<1>3. Cardinality(S) \in Nat /\ S # {}
  BY FS_CardinalityType, FS_EmptySet
<1>4. T # {}
  <2>1. Max(S) \in S /\ \A y \in S : y <= Max(S)
    BY <1>3, MaxOfNats
  <2>2. upTo(Max(S)) = S
    BY <2>1
  <2>3. Max(S) \in T
    BY <1>3, <2>1, <2>2
  <2>4. QED
    BY <2>3
<1>5. T \in SUBSET Nat
  OBVIOUS
<1>6. PICK i \in T : \A j \in T : i <= j
  <2> HIDE DEF T
  <2>1. QED
    BY <1>4, <1>5, LeastNat
<1>7. i \in S /\ i \in Nat /\ Cardinality(upTo(i)) >= k
  OBVIOUS
<1>8. Cardinality(upTo(i)) = Cardinality(below(i)) + 1
  <2>1. upTo(i) = below(i) \cup {i} /\ i \notin below(i)
    <3>1. \A y \in S : y \in Nat /\ (y <= i <=> y < i \/ y = i)
      BY <1>7
    <3>2. ~(i < i)
      BY <1>7
    <3>3. QED
      BY <1>7, <3>1, <3>2
  <2> HIDE DEF upTo, below
  <2>2. QED
    BY <1>1, <2>1, FS_AddElement
<1>9. ~(Cardinality(below(i)) >= k)
  <2>1. SUFFICES ASSUME Cardinality(below(i)) >= k PROVE FALSE
    OBVIOUS
  <2>2. below(i) # {}
    BY <1>1, <2>1, FS_EmptySet
  <2>3. below(i) \in SUBSET Nat
    OBVIOUS
  <2> DEFINE m == Max(below(i))
  <2>4. m \in below(i) /\ \A y \in below(i) : y <= m
    <3> HIDE DEF below
    <3>1. QED
      BY <1>1, <2>2, <2>3, MaxOfNats
  <2> HIDE DEF m
  <2>5. upTo(m) = below(i)
    <3>1. m \in S /\ m \in Nat /\ m < i
      BY <2>4
    <3>2. \A y \in S : y \in Nat /\ (y <= m <=> y < i)
      BY <1>7, <2>4, <3>1
    <3>3. QED
      BY <3>2
  <2>6. m \in T /\ ~(i <= m)
    BY <1>7, <2>1, <2>4, <2>5
  <2>7. QED
    BY <1>6, <2>6
<1>10. Cardinality(upTo(i)) = k
  <2>1. k \in Int
    BY <1>3
  <2>2. Cardinality(upTo(i)) \in Nat /\ Cardinality(below(i)) \in Nat
    BY <1>2
  <2> HIDE DEF upTo, below
  <2>3. QED
    BY <1>7, <1>8, <1>9, <2>1, <2>2
<1>11. QED
  BY <1>7, <1>10

(* The refund of an uncalled bet goes to a player of the hand and is never *)
(* more than what that player has put in, so that taking it out of the pot *)
(* leaves every contribution a natural number.                             *)
THEOREM RefundWithinBet ==
    ASSUME NEW S, IsFiniteSet(S),
           NEW contrib \in [S -> Nat], NEW forced \in [S -> Nat]
    PROVE  LET refund == UncalledBet(contrib, forced)
           IN  /\ refund.amount \in Nat
               /\ refund.amount > 0 =>
                      refund.to \in S /\ refund.amount <= contrib[refund.to]
<1> DEFINE top == CHOOSE p \in TopBettors(contrib) : TRUE
           others == S \ {top}
           noCall == \A q \in others : contrib[q] <= forced[q]
           below == {contrib[q] : q \in others}
           floor == IF noCall THEN forced[top] ELSE Max(below)
<1>1. DOMAIN contrib = S /\ TopBettors(contrib) \subseteq S
  BY DEF TopBettors
<1>2. CASE Cardinality(TopBettors(contrib)) # 1
  BY <1>2 DEF UncalledBet
<1>3. CASE Cardinality(TopBettors(contrib)) = 1
  <2>1. top \in S
    <3>1. TopBettors(contrib) # {}
      BY <1>3, FS_EmptySet
    <3>2. QED
      BY <1>1, <3>1
  <2>2. floor \in Nat
    <3>1. CASE noCall
      BY <2>1, <3>1
    <3>2. CASE ~noCall
      <4>1. below \in SUBSET Nat /\ below # {}
        BY <3>2
      <4>2. IsFiniteSet(below)
        <5>1. IsFiniteSet(others)
          BY FS_RemoveElement
        <5> DEFINE f == [q \in others |-> contrib[q]]
        <5>2. f \in Surjection(others, below)
          BY DEF Surjection
        <5>3. QED
          BY <5>1, <5>2, FS_Surjection
      <4>3. Max(below) \in below
        BY <4>1, <4>2, MaxOfNats
      <4>4. QED
        BY <3>2, <4>1, <4>3
    <3>3. QED
      BY <3>1, <3>2
  <2> HIDE DEF floor
  <2> DEFINE amount == Greater(contrib[top] - floor, 0)
  <2>3. UncalledBet(contrib, forced) = [to |-> top, amount |-> amount]
    BY <1>1, <1>3 DEF UncalledBet, floor
  <2>4. amount \in Nat /\ amount <= contrib[top]
    BY <2>1, <2>2 DEF Greater
  <2> HIDE DEF amount, top
  <2>5. QED
    BY <2>1, <2>3, <2>4
<1>4. QED
  BY <1>2, <1>3

(***************************************************************************)
(* Finite sums.  What holds of all sums over a finite set is proved on a   *)
(* smallest subset for which it would fail.                                *)
(***************************************************************************)
(* Of a set of subsets of a finite set, one has the fewest elements.       *)
LEMMA SmallestSubset ==
    ASSUME NEW S, IsFiniteSet(S), NEW Bad \in SUBSET SUBSET S, Bad # {}
    PROVE  \E T \in Bad : /\ IsFiniteSet(T) /\ Cardinality(T) \in Nat
                          /\ \A x \in T : T \ {x} \notin Bad
<1> DEFINE sizes == {Cardinality(T) : T \in Bad}
<1>1. \A T \in SUBSET S : IsFiniteSet(T) /\ Cardinality(T) \in Nat
  BY FS_Subset, FS_CardinalityType
<1>2. sizes \in SUBSET Nat /\ sizes # {}
  BY <1>1
<1>3. PICK n \in sizes : \A m \in sizes : n <= m
  <2> HIDE DEF sizes
  <2>1. QED
    BY <1>2, LeastNat
<1>4. PICK T \in Bad : Cardinality(T) = n
  BY <1>3
<1>5. ASSUME NEW x \in T, T \ {x} \in Bad PROVE FALSE
  <2>1. Cardinality(T \ {x}) = Cardinality(T) - 1
    BY <1>1, <1>4, FS_RemoveElement
  <2>2. n <= Cardinality(T \ {x}) /\ n \in Nat
    BY <1>2, <1>3, <1>5
  <2>3. QED
    BY <1>4, <2>1, <2>2
<1>6. QED
  BY <1>1, <1>4, <1>5

Pick(s) == CHOOSE x \in s : TRUE

\* The recursive function inside SumFunctionOnSet, on the subsets of S.
IsSum(f, S, it) ==
    it = [s \in SUBSET S |-> IF s = {} THEN 0 ELSE f[Pick(s)] + it[s \ {Pick(s)}]]

(* The library computes a sum with one of the solutions.                   *)
LEMMA SumIsChosen ==
    ASSUME NEW f, NEW S
    PROVE  SumFunctionOnSet(f, S) = (CHOOSE it : IsSum(f, S, it))[S]
BY DEF SumFunctionOnSet, FoldFunctionOnSet, MapThenFoldSet, IsSum, Pick

(* The element that is taken off next is in the set.                       *)
LEMMA PickInSet == ASSUME NEW s, s # {} PROVE Pick(s) \in s
BY DEF Pick

(* The recursion has a solution: it is built up by the size of the sets.   *)
LEMMA SumExists ==
    ASSUME NEW f, NEW S, IsFiniteSet(S)
    PROVE  \E it : IsSum(f, S, it)
<1> DEFINE Upto(n, it) ==
             it = [s \in SUBSET S |->
                     IF s = {} \/ Cardinality(s) > n THEN 0
                     ELSE f[Pick(s)] + it[s \ {Pick(s)}]]
           Bad == {n \in Nat : ~ \E it : Upto(n, it)}
<1>1. \A s \in SUBSET S : IsFiniteSet(s) /\ Cardinality(s) \in Nat
  BY FS_Subset, FS_CardinalityType
<1>2. Bad = {}
  <2>1. SUFFICES ASSUME Bad # {} PROVE FALSE
    OBVIOUS
  <2>2. PICK m \in Bad : \A n \in Bad : m <= n
    <3>1. Bad \in SUBSET Nat
      OBVIOUS
    <3> HIDE DEF Bad
    <3>2. QED
      BY <2>1, <3>1, LeastNat
  <2>3. m \in Nat /\ ~ \E it : Upto(m, it)
    OBVIOUS
  <2>4. CASE m = 0
    <3>1. PICK it : it = [s \in SUBSET S |-> 0]
      OBVIOUS
    <3>2. \A s \in SUBSET S : s = {} \/ Cardinality(s) > 0
      BY <1>1, FS_EmptySet
    <3>3. Upto(0, it)
      BY <3>1, <3>2
    <3>4. QED
      BY <2>3, <2>4, <3>3
  <2>5. CASE m # 0
    <3>1. m - 1 \in Nat /\ ~(m <= m - 1)
      BY <2>3, <2>5
    <3>1a. m - 1 \notin Bad
      <4> HIDE DEF Bad
      <4>1. QED
        BY <2>2, <3>1
    <3>2. PICK it : Upto(m - 1, it)
      BY <3>1, <3>1a
    <3>3. PICK ext : ext = [s \in SUBSET S |->
                              IF s = {} \/ Cardinality(s) > m THEN 0
                              ELSE f[Pick(s)] + it[s \ {Pick(s)}]]
      OBVIOUS
    <3>4. ASSUME NEW s \in SUBSET S, Cardinality(s) <= m - 1 PROVE ext[s] = it[s]
      <4>1. /\ ext[s] = IF s = {} \/ Cardinality(s) > m THEN 0
                        ELSE f[Pick(s)] + it[s \ {Pick(s)}]
            /\ it[s] = IF s = {} \/ Cardinality(s) > m - 1 THEN 0
                       ELSE f[Pick(s)] + it[s \ {Pick(s)}]
        BY <3>2, <3>3
      <4>2. ~(Cardinality(s) > m) /\ ~(Cardinality(s) > m - 1)
        BY <1>1, <2>3, <3>4
      <4>3. QED
        BY <4>1, <4>2
    <3>5. ASSUME NEW s \in SUBSET S, s # {}, ~(Cardinality(s) > m)
          PROVE  ext[s \ {Pick(s)}] = it[s \ {Pick(s)}]
      <4>1. s \ {Pick(s)} \in SUBSET S /\ Cardinality(s \ {Pick(s)}) = Cardinality(s) - 1
        BY <1>1, <3>5, PickInSet, FS_RemoveElement
      <4>2. Cardinality(s) - 1 <= m - 1
        BY <1>1, <2>3, <3>5
      <4>3. QED
        BY <3>4, <4>1, <4>2
    <3>6. Upto(m, ext)
      BY <3>3, <3>5
    <3>7. QED
      BY <2>3, <3>6
  <2>6. QED
    BY <2>4, <2>5
<1>3. Cardinality(S) \in Nat
  BY FS_CardinalityType
<1>4. PICK it : Upto(Cardinality(S), it)
  BY <1>2, <1>3
<1>5. ASSUME NEW s \in SUBSET S PROVE ~(Cardinality(s) > Cardinality(S))
  <2>1. Cardinality(s) <= Cardinality(S)
    BY FS_Subset
  <2>2. QED
    BY <1>1, <1>3, <2>1
<1>6. IsSum(f, S, it)
  BY <1>4, <1>5 DEF IsSum
<1>7. QED
  BY <1>6

(* On a subset it is the solution of the subset.                           *)
LEMMA SumOfSubset ==
    ASSUME NEW f, NEW S, IsFiniteSet(S), NEW it, IsSum(f, S, it), NEW s \in SUBSET S
    PROVE  SumFunctionOnSet(f, s) = it[s]
<1>1. IsFiniteSet(s)
  BY FS_Subset
<1>2. PICK own : own = CHOOSE g : IsSum(f, s, g)
  OBVIOUS
<1>3. IsSum(f, s, own)
  BY <1>1, <1>2, SumExists
<1> DEFINE Bad == {t \in SUBSET s : own[t] # it[t]}
<1>4. Bad = {}
  <2>1. SUFFICES ASSUME Bad # {} PROVE FALSE
    OBVIOUS
  <2>2. PICK t \in Bad : \A x \in t : t \ {x} \notin Bad
    <3>1. Bad \in SUBSET SUBSET s
      OBVIOUS
    <3> HIDE DEF Bad
    <3>2. QED
      BY <1>1, <2>1, <3>1, SmallestSubset
  <2>3. t \in SUBSET s /\ t \in SUBSET S /\ own[t] # it[t]
    OBVIOUS
  <2>4. /\ own[t] = IF t = {} THEN 0 ELSE f[Pick(t)] + own[t \ {Pick(t)}]
        /\ it[t] = IF t = {} THEN 0 ELSE f[Pick(t)] + it[t \ {Pick(t)}]
    BY <1>3, <2>3 DEF IsSum
  <2>5. t # {}
    BY <2>3, <2>4
  <2>6. own[t \ {Pick(t)}] = it[t \ {Pick(t)}]
    <3>1. Pick(t) \in t
      BY <2>5, PickInSet
    <3>2. t \ {Pick(t)} \notin Bad /\ t \ {Pick(t)} \in SUBSET s
      BY <2>2, <2>3, <3>1
    <3>3. QED
      BY <3>2
  <2>7. QED
    BY <2>3, <2>4, <2>6
<1>5. own[s] = it[s]
  BY <1>4
<1>6. QED
  BY <1>2, <1>5, SumIsChosen

(* One step of the recursion.                                              *)
LEMMA SumUnfolds ==
    ASSUME NEW f, NEW S, IsFiniteSet(S)
    PROVE  SumFunctionOnSet(f, S) =
               IF S = {} THEN 0
               ELSE f[Pick(S)] + SumFunctionOnSet(f, S \ {Pick(S)})
<1>1. PICK it : IsSum(f, S, it)
  BY SumExists
<1>2. it[S] = IF S = {} THEN 0 ELSE f[Pick(S)] + it[S \ {Pick(S)}]
  BY <1>1 DEF IsSum
<1>3. SumFunctionOnSet(f, S) = it[S]
        /\ SumFunctionOnSet(f, S \ {Pick(S)}) = it[S \ {Pick(S)}]
  <2>1. S \in SUBSET S /\ S \ {Pick(S)} \in SUBSET S
    OBVIOUS
  <2>2. QED
    BY <1>1, <2>1, SumOfSubset
<1>4. QED
  BY <1>2, <1>3

(* A finite sum of integers is one.                                        *)
LEMMA SumIsInt ==
    ASSUME NEW S, IsFiniteSet(S), NEW f, \A x \in S : f[x] \in Int
    PROVE  SumFunctionOnSet(f, S) \in Int
<1> DEFINE Bad == {T \in SUBSET S : SumFunctionOnSet(f, T) \notin Int}
<1>1. Bad = {}
  <2>1. SUFFICES ASSUME Bad # {} PROVE FALSE
    OBVIOUS
  <2>2. PICK T \in Bad : IsFiniteSet(T) /\ \A x \in T : T \ {x} \notin Bad
    <3>1. Bad \in SUBSET SUBSET S
      OBVIOUS
    <3> HIDE DEF Bad
    <3>2. QED
      BY <2>1, <3>1, SmallestSubset
  <2>3. SumFunctionOnSet(f, T) = IF T = {} THEN 0
            ELSE f[Pick(T)] + SumFunctionOnSet(f, T \ {Pick(T)})
    BY <2>2, SumUnfolds
  <2>4. T # {}
    BY <2>3
  <2>5. Pick(T) \in T /\ f[Pick(T)] \in Int
    BY <2>4, PickInSet
  <2>6. SumFunctionOnSet(f, T \ {Pick(T)}) \in Int
    BY <2>2, <2>5
  <2>7. QED
    BY <2>3, <2>4, <2>5, <2>6
<1>2. QED
  BY <1>1

(* A sum can be taken in any order.                                        *)
LEMMA SumStep ==
    ASSUME NEW S, IsFiniteSet(S), NEW f, \A x \in S : f[x] \in Int, NEW z \in S
    PROVE  SumFunctionOnSet(f, S) = f[z] + SumFunctionOnSet(f, S \ {z})
<1> DEFINE Bad == {T \in SUBSET S : \E x \in T :
                     SumFunctionOnSet(f, T) # f[x] + SumFunctionOnSet(f, T \ {x})}
<1>1. Bad = {}
  <2>1. SUFFICES ASSUME Bad # {} PROVE FALSE
    OBVIOUS
  <2>2. PICK T \in Bad : IsFiniteSet(T) /\ \A x \in T : T \ {x} \notin Bad
    <3>1. Bad \in SUBSET SUBSET S
      OBVIOUS
    <3> HIDE DEF Bad
    <3>2. QED
      BY <2>1, <3>1, SmallestSubset
  <2>3. PICK x \in T : SumFunctionOnSet(f, T) # f[x] + SumFunctionOnSet(f, T \ {x})
    OBVIOUS
  <2>4. PICK c : c = Pick(T)
    OBVIOUS
  <2>5. c \in T /\ SumFunctionOnSet(f, T) = f[c] + SumFunctionOnSet(f, T \ {c})
    BY <2>2, <2>4, PickInSet, SumUnfolds
  <2>6. c # x
    BY <2>3, <2>5
  <2>7. SumFunctionOnSet(f, T \ {c}) = f[x] + SumFunctionOnSet(f, (T \ {c}) \ {x})
    <3>1. T \ {c} \notin Bad /\ T \ {c} \in SUBSET S /\ x \in T \ {c}
      BY <2>2, <2>5, <2>6
    <3>2. QED
      BY <3>1
  <2>8. SumFunctionOnSet(f, T \ {x}) = f[c] + SumFunctionOnSet(f, (T \ {x}) \ {c})
    <3>1. T \ {x} \notin Bad /\ T \ {x} \in SUBSET S /\ c \in T \ {x}
      BY <2>2, <2>5, <2>6
    <3>2. QED
      BY <3>1
  <2>9. (T \ {c}) \ {x} = (T \ {x}) \ {c}
    OBVIOUS
  <2>10. PICK rest : rest = SumFunctionOnSet(f, (T \ {x}) \ {c})
    OBVIOUS
  <2>11. rest \in Int /\ f[c] \in Int /\ f[x] \in Int
    <3>1. IsFiniteSet((T \ {x}) \ {c}) /\ (T \ {x}) \ {c} \in SUBSET S
      BY <2>2, FS_Subset
    <3>2. QED
      BY <2>5, <2>10, <3>1, SumIsInt
  <2>12. /\ SumFunctionOnSet(f, T) = f[c] + (f[x] + rest)
         /\ SumFunctionOnSet(f, T \ {x}) = f[c] + rest
    BY <2>5, <2>7, <2>8, <2>9, <2>10
  <2>13. f[c] + (f[x] + rest) = f[x] + (f[c] + rest)
    BY <2>11
  <2>14. QED
    BY <2>3, <2>12, <2>13
<1>2. QED
  BY <1>1

(* A sum of nothing is zero.                                               *)
LEMMA SumEmpty == ASSUME NEW f PROVE SumFunctionOnSet(f, {}) = 0
BY SumUnfolds, FS_EmptySet

(* Larger terms, larger sum.                                               *)
LEMMA SumMonotone ==
    ASSUME NEW S, IsFiniteSet(S), NEW f, NEW h,
           \A x \in S : f[x] \in Int /\ h[x] \in Int /\ f[x] <= h[x]
    PROVE  SumFunctionOnSet(f, S) <= SumFunctionOnSet(h, S)
<1> DEFINE Bad == {T \in SUBSET S : ~(SumFunctionOnSet(f, T) <= SumFunctionOnSet(h, T))}
<1>1. Bad = {}
  <2>1. SUFFICES ASSUME Bad # {} PROVE FALSE
    OBVIOUS
  <2>2. PICK T \in Bad : IsFiniteSet(T) /\ \A x \in T : T \ {x} \notin Bad
    <3>1. Bad \in SUBSET SUBSET S
      OBVIOUS
    <3> HIDE DEF Bad
    <3>2. QED
      BY <2>1, <3>1, SmallestSubset
  <2>3. T # {}
    BY SumEmpty
  <2>4. PICK x \in T : TRUE
    BY <2>3
  <2>5. /\ SumFunctionOnSet(f, T) = f[x] + SumFunctionOnSet(f, T \ {x})
        /\ SumFunctionOnSet(h, T) = h[x] + SumFunctionOnSet(h, T \ {x})
    <3>1. \A y \in T : f[y] \in Int /\ h[y] \in Int
      OBVIOUS
    <3>2. QED
      BY <2>2, <3>1, SumStep
  <2>6. SumFunctionOnSet(f, T \ {x}) <= SumFunctionOnSet(h, T \ {x})
    BY <2>2
  <2>7. SumFunctionOnSet(f, T \ {x}) \in Int /\ SumFunctionOnSet(h, T \ {x}) \in Int
    <3>1. IsFiniteSet(T \ {x}) /\ \A y \in T \ {x} : f[y] \in Int /\ h[y] \in Int
      BY <2>2, FS_Subset
    <3>2. QED
      BY <3>1, SumIsInt
  <2>8. f[x] \in Int /\ h[x] \in Int /\ f[x] <= h[x]
    OBVIOUS
  <2>9. SumFunctionOnSet(f, T) <= SumFunctionOnSet(h, T)
    BY <2>5, <2>6, <2>7, <2>8
  <2>10. QED
    BY <2>9
<1>2. QED
  BY <1>1

(* Equal terms, equal sums.                                                *)
LEMMA SumSame ==
    ASSUME NEW S, IsFiniteSet(S), NEW f, NEW h,
           \A x \in S : f[x] \in Int /\ f[x] = h[x]
    PROVE  SumFunctionOnSet(f, S) = SumFunctionOnSet(h, S)
<1>1. SumFunctionOnSet(f, S) <= SumFunctionOnSet(h, S)
        /\ SumFunctionOnSet(h, S) <= SumFunctionOnSet(f, S)
  <2>1. \A x \in S : f[x] \in Int /\ h[x] \in Int /\ f[x] <= h[x] /\ h[x] <= f[x]
    OBVIOUS
  <2>2. QED
    BY <2>1, SumMonotone
<1>2. SumFunctionOnSet(f, S) \in Int /\ SumFunctionOnSet(h, S) \in Int
  BY SumIsInt
<1>3. QED
  BY <1>1, <1>2

(* Sums of sums.                                                           *)
LEMMA SumAdds ==
    ASSUME NEW S, IsFiniteSet(S), NEW f, NEW h, NEW k,
           \A x \in S : f[x] \in Int /\ h[x] \in Int /\ k[x] = f[x] + h[x]
    PROVE  SumFunctionOnSet(k, S) = SumFunctionOnSet(f, S) + SumFunctionOnSet(h, S)
<1> DEFINE Bad == {T \in SUBSET S : SumFunctionOnSet(k, T)
                         # SumFunctionOnSet(f, T) + SumFunctionOnSet(h, T)}
<1>1. Bad = {}
  <2>1. SUFFICES ASSUME Bad # {} PROVE FALSE
    OBVIOUS
  <2>2. PICK T \in Bad : IsFiniteSet(T) /\ \A x \in T : T \ {x} \notin Bad
    <3>1. Bad \in SUBSET SUBSET S
      OBVIOUS
    <3> HIDE DEF Bad
    <3>2. QED
      BY <2>1, <3>1, SmallestSubset
  <2>3. T # {}
    <3>1. /\ SumFunctionOnSet(f, {}) = 0 /\ SumFunctionOnSet(h, {}) = 0
          /\ SumFunctionOnSet(k, {}) = 0 /\ 0 = 0 + 0
      BY SumEmpty
    <3>2. {} \notin Bad
      BY <3>1
    <3>3. QED
      BY <3>2
  <2>4. PICK x \in T : TRUE
    BY <2>3
  <2>5. /\ SumFunctionOnSet(f, T) = f[x] + SumFunctionOnSet(f, T \ {x})
        /\ SumFunctionOnSet(h, T) = h[x] + SumFunctionOnSet(h, T \ {x})
        /\ SumFunctionOnSet(k, T) = k[x] + SumFunctionOnSet(k, T \ {x})
    <3>1. \A y \in T : f[y] \in Int /\ h[y] \in Int /\ k[y] \in Int
      OBVIOUS
    <3>2. QED
      BY <2>2, <3>1, SumStep
  <2>6. SumFunctionOnSet(k, T \ {x})
          = SumFunctionOnSet(f, T \ {x}) + SumFunctionOnSet(h, T \ {x})
    BY <2>2
  <2>7. SumFunctionOnSet(f, T \ {x}) \in Int /\ SumFunctionOnSet(h, T \ {x}) \in Int
    <3>1. IsFiniteSet(T \ {x}) /\ \A y \in T \ {x} : f[y] \in Int /\ h[y] \in Int
      BY <2>2, FS_Subset
    <3>2. QED
      BY <3>1, SumIsInt
  <2>8. f[x] \in Int /\ h[x] \in Int /\ k[x] = f[x] + h[x]
    OBVIOUS
  <2>9. SumFunctionOnSet(k, T) = SumFunctionOnSet(f, T) + SumFunctionOnSet(h, T)
    BY <2>5, <2>6, <2>7, <2>8
  <2>10. QED
    BY <2>9
<1>2. QED
  BY <1>1

(* A finite sum of natural numbers is one.                                 *)
LEMMA SumIsNat ==
    ASSUME NEW S, IsFiniteSet(S), NEW f, \A x \in S : f[x] \in Nat
    PROVE  SumFunctionOnSet(f, S) \in Nat
<1>1. PICK zero : zero = [x \in S |-> 0]
  OBVIOUS
<1>2. SumFunctionOnSet(zero, S) = 0
  <2>1. SumFunctionOnSet(zero, S) = SumFunctionOnSet(zero, S) + SumFunctionOnSet(zero, S)
    <3>1. \A x \in S : zero[x] \in Int /\ zero[x] = zero[x] + zero[x]
      BY <1>1
    <3>2. QED
      BY <3>1, SumAdds
  <2>2. SumFunctionOnSet(zero, S) \in Int
    <3>1. \A x \in S : zero[x] \in Int
      BY <1>1
    <3>2. QED
      BY <3>1, SumIsInt
  <2>3. PICK n : n = SumFunctionOnSet(zero, S)
    OBVIOUS
  <2>4. n \in Int /\ n = n + n
    BY <2>1, <2>2, <2>3
  <2>5. n = 0
    BY <2>4
  <2>6. QED
    BY <2>3, <2>5
<1>3. SumFunctionOnSet(zero, S) <= SumFunctionOnSet(f, S)
  <2>1. \A x \in S : zero[x] \in Int /\ f[x] \in Int /\ zero[x] <= f[x]
    BY <1>1
  <2>2. QED
    BY <2>1, SumMonotone
<1>4. SumFunctionOnSet(f, S) \in Int
  BY SumIsInt
<1>5. QED
  BY <1>2, <1>3, <1>4

(* No term is larger than the sum.                                         *)
LEMMA SumCovers ==
    ASSUME NEW S, IsFiniteSet(S), NEW f, \A x \in S : f[x] \in Nat, NEW z \in S
    PROVE  f[z] <= SumFunctionOnSet(f, S)
<1>1. SumFunctionOnSet(f, S) = f[z] + SumFunctionOnSet(f, S \ {z})
  <2>1. \A x \in S : f[x] \in Int
    OBVIOUS
  <2>2. QED
    BY <2>1, SumStep
<1>2. SumFunctionOnSet(f, S \ {z}) \in Nat
  <2>1. IsFiniteSet(S \ {z}) /\ \A x \in S \ {z} : f[x] \in Nat
    BY FS_Subset
  <2>2. QED
    BY <2>1, SumIsNat
<1>3. QED
  BY <1>1, <1>2

(* The terms of a part and of the rest.                                    *)
LEMMA SumSplits ==
    ASSUME NEW S, IsFiniteSet(S), NEW f, \A x \in S : f[x] \in Int, NEW R \in SUBSET S
    PROVE  SumFunctionOnSet(f, S) = SumFunctionOnSet(f, R) + SumFunctionOnSet(f, S \ R)
<1> DEFINE Bad == {T \in SUBSET R : SumFunctionOnSet(f, (S \ R) \cup T)
                         # SumFunctionOnSet(f, T) + SumFunctionOnSet(f, S \ R)}
<1>0. IsFiniteSet(R)
  BY FS_Subset
<1>1. Bad = {}
  <2>1. SUFFICES ASSUME Bad # {} PROVE FALSE
    OBVIOUS
  <2>2. PICK T \in Bad : IsFiniteSet(T) /\ \A x \in T : T \ {x} \notin Bad
    <3>1. Bad \in SUBSET SUBSET R
      OBVIOUS
    <3> HIDE DEF Bad
    <3>2. QED
      BY <1>0, <2>1, <3>1, SmallestSubset
  <2>3. PICK old : old = SumFunctionOnSet(f, S \ R)
    OBVIOUS
  <2>4. old \in Int
    <3>1. IsFiniteSet(S \ R) /\ \A y \in S \ R : f[y] \in Int
      BY FS_Subset
    <3>2. QED
      BY <2>3, <3>1, SumIsInt
  <2>5. T # {}
    <3>1. SUFFICES ASSUME T = {} PROVE FALSE
      OBVIOUS
    <3>2. (S \ R) \cup T = S \ R /\ SumFunctionOnSet(f, T) = 0
      BY <3>1, SumEmpty
    <3>3. SumFunctionOnSet(f, (S \ R) \cup T) = SumFunctionOnSet(f, T) + SumFunctionOnSet(f, S \ R)
      BY <2>3, <2>4, <3>2
    <3>4. QED
      BY <3>3
  <2>6. PICK x \in T : TRUE
    BY <2>5
  <2>7. SumFunctionOnSet(f, T) = f[x] + SumFunctionOnSet(f, T \ {x})
    <3>1. \A y \in T : f[y] \in Int
      OBVIOUS
    <3>2. QED
      BY <2>2, <3>1, SumStep
  <2>8. SumFunctionOnSet(f, (S \ R) \cup T)
          = f[x] + SumFunctionOnSet(f, ((S \ R) \cup T) \ {x})
    <3>1. IsFiniteSet((S \ R) \cup T)
      <4>1. (S \ R) \cup T \in SUBSET S
        OBVIOUS
      <4>2. QED
        BY <4>1, FS_Subset
    <3>2. x \in (S \ R) \cup T /\ \A y \in (S \ R) \cup T : f[y] \in Int
      OBVIOUS
    <3>3. QED
      BY <3>1, <3>2, SumStep
  <2>9. ((S \ R) \cup T) \ {x} = (S \ R) \cup (T \ {x})
    OBVIOUS
  <2>10. SumFunctionOnSet(f, (S \ R) \cup (T \ {x}))
           = SumFunctionOnSet(f, T \ {x}) + old
    <3>1. T \ {x} \in SUBSET R /\ T \ {x} \notin Bad
      BY <2>2
    <3>2. QED
      BY <2>3, <3>1
  <2>11. PICK rest : rest = SumFunctionOnSet(f, T \ {x})
    OBVIOUS
  <2>12. rest \in Int /\ f[x] \in Int
    <3>1. IsFiniteSet(T \ {x}) /\ \A y \in T \ {x} : f[y] \in Int
      BY <2>2, FS_Subset
    <3>2. QED
      BY <2>11, <3>1, SumIsInt
  <2>13. f[x] + (rest + old) = (f[x] + rest) + old
    BY <2>4, <2>12
  <2>14. SumFunctionOnSet(f, (S \ R) \cup T) = SumFunctionOnSet(f, T) + old
    BY <2>7, <2>8, <2>9, <2>10, <2>11, <2>13
  <2>15. QED
    BY <2>3, <2>14
<1>2. SumFunctionOnSet(f, (S \ R) \cup R) = SumFunctionOnSet(f, R) + SumFunctionOnSet(f, S \ R)
  BY <1>1
<1>3. (S \ R) \cup R = S
  OBVIOUS
<1>4. QED
  BY <1>2, <1>3

(* A part of the terms adds up to no more than all.                        *)
LEMMA SumOfPart ==
    ASSUME NEW S, IsFiniteSet(S), NEW f, \A x \in S : f[x] \in Nat, NEW R \in SUBSET S
    PROVE  SumFunctionOnSet(f, R) <= SumFunctionOnSet(f, S)
<1>1. IsFiniteSet(R) /\ IsFiniteSet(S \ R)
  BY FS_Subset
<1>2. SumFunctionOnSet(f, R) \in Nat /\ SumFunctionOnSet(f, S \ R) \in Nat
  <2>1. (\A x \in R : f[x] \in Nat) /\ (\A x \in S \ R : f[x] \in Nat)
    OBVIOUS
  <2>2. QED
    BY <1>1, <2>1, SumIsNat
<1>3. SumFunctionOnSet(f, S) = SumFunctionOnSet(f, R) + SumFunctionOnSet(f, S \ R)
  <2>1. \A x \in S : f[x] \in Int
    OBVIOUS
  <2>2. QED
    BY <2>1, SumSplits
<1>4. QED
  BY <1>2, <1>3

(* n terms of at most k each.                                              *)
LEMMA SumAtMost ==
    ASSUME NEW S, IsFiniteSet(S), NEW k \in Nat, NEW f, \A x \in S : f[x] \in 0 .. k
    PROVE  SumFunctionOnSet(f, S) <= Cardinality(S) * k
<1> DEFINE Bad == {T \in SUBSET S : ~(SumFunctionOnSet(f, T) <= Cardinality(T) * k)}
<1>1. Bad = {}
  <2>1. SUFFICES ASSUME Bad # {} PROVE FALSE
    OBVIOUS
  <2>2. PICK T \in Bad : IsFiniteSet(T) /\ Cardinality(T) \in Nat
                         /\ \A x \in T : T \ {x} \notin Bad
    <3>1. Bad \in SUBSET SUBSET S
      OBVIOUS
    <3> HIDE DEF Bad
    <3>2. QED
      BY <2>1, <3>1, SmallestSubset
  <2>3. T # {}
    <3>1. SumFunctionOnSet(f, {}) = 0 /\ Cardinality({}) = 0
      BY SumEmpty, FS_EmptySet
    <3>2. 0 <= 0 * k
      OBVIOUS
    <3>3. {} \notin Bad
      BY <3>1, <3>2
    <3>4. QED
      BY <3>3
  <2>4. PICK x \in T : TRUE
    BY <2>3
  <2>5. SumFunctionOnSet(f, T) = f[x] + SumFunctionOnSet(f, T \ {x})
    <3>1. \A y \in T : f[y] \in Int
      OBVIOUS
    <3>2. QED
      BY <2>2, <3>1, SumStep
  <2>6. PICK n, rest : n = Cardinality(T) /\ rest = SumFunctionOnSet(f, T \ {x})
    OBVIOUS
  <2>7. Cardinality(T \ {x}) = n - 1 /\ n \in Nat
    BY <2>2, <2>6, FS_RemoveElement
  <2>8. rest <= (n - 1) * k
    <3>1. T \ {x} \in SUBSET S /\ T \ {x} \notin Bad
      BY <2>2
    <3>2. QED
      BY <2>6, <2>7, <3>1
  <2>9. rest \in Int /\ f[x] \in 0 .. k
    <3>1. IsFiniteSet(T \ {x}) /\ \A y \in T \ {x} : f[y] \in Int
      BY <2>2, FS_Subset
    <3>2. QED
      BY <2>6, <3>1, SumIsInt
  <2>10. (n - 1) * k = n * k - k /\ n * k \in Int
    <3>1. \A i, j \in Int : (i - 1) * j = i * j - j /\ i * j \in Int
      OBVIOUS
    <3>2. n \in Int /\ k \in Int
      BY <2>7
    <3>3. QED
      BY <3>1, <3>2, Zenon
  <2>11. f[x] + rest <= n * k
    <3>1. PICK m : m = n * k
      OBVIOUS
    <3>2. rest <= m - k /\ m \in Int
      BY <2>8, <2>10, <3>1
    <3>3. f[x] + rest <= m
      BY <2>9, <3>2
    <3>4. QED
      BY <3>1, <3>3
  <2>12. QED
    BY <2>5, <2>6, <2>11
<1>2. QED
  BY <1>1

(***************************************************************************)
(* Sums of tables, and of the shares of a pot.                             *)
(***************************************************************************)
(* Zeros add up to zero.                                                   *)
LEMMA SumOfZeros ==
    ASSUME NEW S, IsFiniteSet(S), NEW f, \A x \in S : f[x] = 0
    PROVE  SumFunctionOnSet(f, S) = 0
<1>1. SumFunctionOnSet(f, S) \in Nat
  <2>1. \A x \in S : f[x] \in Nat
    OBVIOUS
  <2>2. QED
    BY <2>1, SumIsNat
<1>2. SumFunctionOnSet(f, S) <= Cardinality(S) * 0
  <2>1. \A x \in S : f[x] \in 0 .. 0
    OBVIOUS
  <2>2. QED
    BY <2>1, SumAtMost
<1>3. Cardinality(S) * 0 = 0
  <2>1. \A n \in Nat : n * 0 = 0
    OBVIOUS
  <2>2. QED
    BY <2>1, FS_CardinalityType
<1>4. QED
  BY <1>1, <1>2, <1>3

\* row and column are the sums of a table f by rows and by columns; h is the
\* table the other way round.
SumsOfTable(A, B, f, h, row, column) ==
    /\ \A a \in A, b \in B : f[a][b] \in Int /\ h[b][a] = f[a][b]
    /\ \A a \in A : row[a] = SumFunctionOnSet(f[a], B)
    /\ \A b \in B : column[b] = SumFunctionOnSet(h[b], A)

(* A table of numbers has one total, by rows or by columns.                *)
LEMMA SumSwaps ==
    ASSUME NEW A, NEW B, IsFiniteSet(A), IsFiniteSet(B),
           NEW f, NEW h, NEW row, NEW column, SumsOfTable(A, B, f, h, row, column)
    PROVE  SumFunctionOnSet(row, A) = SumFunctionOnSet(column, B)
<1>0. /\ \A a \in A, b \in B : f[a][b] \in Int /\ h[b][a] = f[a][b]
      /\ \A a \in A : row[a] = SumFunctionOnSet(f[a], B)
      /\ \A b \in B : column[b] = SumFunctionOnSet(h[b], A)
  BY DEF SumsOfTable
<1> USE <1>0
<1> DEFINE cols(T) == [b \in B |-> SumFunctionOnSet(h[b], T)]
           Bad == {T \in SUBSET A : SumFunctionOnSet(row, T) # SumFunctionOnSet(cols(T), B)}
<1>1. ASSUME NEW T \in SUBSET A
      PROVE  IsFiniteSet(T) /\ \A b \in B : SumFunctionOnSet(h[b], T) \in Int
  <2>1. IsFiniteSet(T)
    BY FS_Subset
  <2>2. \A b \in B : \A a \in T : h[b][a] \in Int
    OBVIOUS
  <2>3. QED
    BY <2>1, <2>2, SumIsInt
<1>2. \A a \in A : row[a] \in Int
  <2>1. \A a \in A : \A b \in B : f[a][b] \in Int
    OBVIOUS
  <2>2. \A a \in A : SumFunctionOnSet(f[a], B) \in Int
    BY <2>1, SumIsInt
  <2>3. QED
    BY <2>2
<1>3. Bad = {}
  <2>1. SUFFICES ASSUME Bad # {} PROVE FALSE
    OBVIOUS
  <2>2. PICK T \in Bad : IsFiniteSet(T) /\ \A x \in T : T \ {x} \notin Bad
    <3>1. Bad \in SUBSET SUBSET A
      OBVIOUS
    <3> HIDE DEF Bad
    <3>2. QED
      BY <2>1, <3>1, SmallestSubset
  <2>3. T \in SUBSET A /\ SumFunctionOnSet(row, T) # SumFunctionOnSet(cols(T), B)
    OBVIOUS
  <2>4. ASSUME T = {} PROVE FALSE
    <3>1. SumFunctionOnSet(row, {}) = 0 /\ \A b \in B : cols({})[b] = 0
      BY SumEmpty
    <3> HIDE DEF cols
    <3>2. SumFunctionOnSet(cols({}), B) = 0
      BY <3>1, SumOfZeros
    <3>3. QED
      BY <2>3, <2>4, <3>1, <3>2
  <2>5. PICK x \in T : TRUE
    BY <2>4
  <2>6. SumFunctionOnSet(row, T) = row[x] + SumFunctionOnSet(row, T \ {x})
    <3>1. \A a \in T : row[a] \in Int
      BY <1>2, <2>3
    <3>2. PICK r, z : r = row /\ z = x
      OBVIOUS
    <3>3. z \in T /\ \A a \in T : r[a] \in Int
      BY <3>1, <3>2
    <3> HIDE DEF Bad
    <3>4. SumFunctionOnSet(r, T) = r[z] + SumFunctionOnSet(r, T \ {z})
      BY <2>2, <3>3, SumStep
    <3>5. QED
      BY <3>2, <3>4
  <2>7. ASSUME NEW b \in B
        PROVE  cols(T)[b] = f[x][b] + cols(T \ {x})[b]
    <3>1. \A a \in T : h[b][a] \in Int
      BY <2>3
    <3>2. h[b][x] = f[x][b]
      BY <2>3
    <3>3. SumFunctionOnSet(h[b], T) = h[b][x] + SumFunctionOnSet(h[b], T \ {x})
      BY <2>2, <3>1, SumStep
    <3>4. QED
      BY <3>2, <3>3
  <2>8. SumFunctionOnSet(cols(T), B) = SumFunctionOnSet(f[x], B) + SumFunctionOnSet(cols(T \ {x}), B)
    <3>1. \A b \in B : f[x][b] \in Int /\ cols(T \ {x})[b] \in Int
      <4>1. T \ {x} \in SUBSET A
        BY <2>3
      <4>2. QED
        BY <1>1, <2>3, <4>1
    <3>2. PICK k, rest, row1 : k = cols(T) /\ rest = cols(T \ {x}) /\ row1 = f[x]
      OBVIOUS
    <3>3. \A b \in B : row1[b] \in Int /\ rest[b] \in Int /\ k[b] = row1[b] + rest[b]
      BY <2>7, <3>1, <3>2
    <3>4. SumFunctionOnSet(k, B) = SumFunctionOnSet(row1, B) + SumFunctionOnSet(rest, B)
      BY <3>3, SumAdds
    <3> HIDE DEF cols
    <3>5. QED
      BY <3>2, <3>4
  <2>9. SumFunctionOnSet(row, T \ {x}) = SumFunctionOnSet(cols(T \ {x}), B)
    <3>1. T \ {x} \in SUBSET A /\ T \ {x} \notin Bad
      BY <2>2, <2>3
    <3>2. QED
      BY <3>1
  <2>10. row[x] = SumFunctionOnSet(f[x], B)
    BY <2>3
  <2> HIDE DEF cols, Bad
  <2>11. QED
    BY <2>3, <2>6, <2>8, <2>9, <2>10
<1>4. SumFunctionOnSet(row, A) = SumFunctionOnSet(cols(A), B)
  <2>1. A \in SUBSET A /\ A \notin Bad
    BY <1>3
  <2>2. QED
    BY <2>1
<1>5. SumFunctionOnSet(cols(A), B) = SumFunctionOnSet(column, B)
  <2>1. \A b \in B : cols(A)[b] \in Int /\ cols(A)[b] = column[b]
    BY <1>1
  <2> HIDE DEF cols
  <2>2. QED
    BY <2>1, SumSame
<1>6. QED
  BY <1>4, <1>5

(* The image of a finite set is finite.                                    *)
LEMMA ImageIsFinite ==
    ASSUME NEW A, IsFiniteSet(A), NEW m
    PROVE  IsFiniteSet({m[a] : a \in A})
<1> DEFINE B == {m[a] : a \in A}
           f == [a \in A |-> m[a]]
<1>1. f \in Surjection(A, B)
  BY DEF Surjection
<1> HIDE DEF B, f
<1>2. IsFiniteSet(B)
  BY <1>1, FS_Surjection
<1>3. QED
  BY <1>2 DEF B

(* The sum over the image of a one-to-one function.                        *)
LEMMA SumOfImage ==
    ASSUME NEW A, IsFiniteSet(A), NEW m, NEW f,
           \A a, b \in A : m[a] = m[b] => a = b, \A a \in A : f[m[a]] \in Int
    PROVE  SumFunctionOnSet(f, {m[a] : a \in A})
             = SumFunctionOnSet([a \in A |-> f[m[a]]], A)
<1> DEFINE image(T) == {m[a] : a \in T}
           g == [a \in A |-> f[m[a]]]
           Bad == {T \in SUBSET A : SumFunctionOnSet(f, image(T)) # SumFunctionOnSet(g, T)}
<1>1. Bad = {}
  <2>1. SUFFICES ASSUME Bad # {} PROVE FALSE
    OBVIOUS
  <2>2. PICK T \in Bad : IsFiniteSet(T) /\ \A x \in T : T \ {x} \notin Bad
    <3>1. Bad \in SUBSET SUBSET A
      OBVIOUS
    <3> HIDE DEF Bad
    <3>2. QED
      BY <2>1, <3>1, SmallestSubset
  <2>3. T \in SUBSET A /\ SumFunctionOnSet(f, image(T)) # SumFunctionOnSet(g, T)
    OBVIOUS
  <2>4. ASSUME T = {} PROVE FALSE
    <3>1. image(T) = {}
      BY <2>4
    <3>2. SumFunctionOnSet(f, {}) = 0 /\ SumFunctionOnSet(g, {}) = 0
      BY SumEmpty
    <3> HIDE DEF image, g
    <3>3. QED
      BY <2>3, <2>4, <3>1, <3>2
  <2>5. PICK x \in T : TRUE
    BY <2>4
  <2>6. SumFunctionOnSet(g, T) = g[x] + SumFunctionOnSet(g, T \ {x})
    <3>1. \A a \in T : g[a] \in Int
      BY <2>3
    <3> HIDE DEF g
    <3>2. QED
      BY <2>2, <3>1, SumStep
  <2>7. SumFunctionOnSet(f, image(T)) = f[m[x]] + SumFunctionOnSet(f, image(T) \ {m[x]})
    <3>1. IsFiniteSet(image(T))
      BY <2>2, ImageIsFinite
    <3>2. m[x] \in image(T) /\ \A y \in image(T) : f[y] \in Int
      BY <2>3
    <3> HIDE DEF image
    <3>3. QED
      BY <3>1, <3>2, SumStep
  <2>8. image(T) \ {m[x]} = image(T \ {x})
    BY <2>3
  <2>9. SumFunctionOnSet(f, image(T \ {x})) = SumFunctionOnSet(g, T \ {x})
    <3>1. T \ {x} \in SUBSET A /\ T \ {x} \notin Bad
      BY <2>2, <2>3
    <3>2. QED
      BY <3>1
  <2>10. g[x] = f[m[x]]
    BY <2>3
  <2> HIDE DEF image, g, Bad
  <2>11. QED
    BY <2>3, <2>6, <2>7, <2>8, <2>9, <2>10
<1>2. SumFunctionOnSet(f, image(A)) = SumFunctionOnSet(g, A)
  <2>1. A \in SUBSET A /\ A \notin Bad
    BY <1>1
  <2>2. QED
    BY <2>1
<1>3. QED
  BY <1>2

(* What a player receives is the sum of its shares.                        *)
LEMMA SharesAreSummed ==
    ASSUME NEW pots, IsFiniteSet(pots), NEW players, NEW rank, NEW p
    PROVE  MapThenSumSet(LAMBDA pot : Share(pot, players, rank, p), pots)
             = SumFunctionOnSet([pot \in pots |-> Share(pot, players, rank, p)], pots)
<1> DEFINE f == [pot \in pots |-> Share(pot, players, rank, p)]
           Solves(it) == it = [s \in SUBSET pots |-> IF s = {} THEN 0
                 ELSE Share(Pick(s), players, rank, p) + it[s \ {Pick(s)}]]
<1>1. MapThenSumSet(LAMBDA pot : Share(pot, players, rank, p), pots)
        = (CHOOSE it : Solves(it))[pots]
  BY DEF MapThenSumSet, MapThenFoldSet, Pick
<1>2. \A s \in SUBSET pots : s # {} => f[Pick(s)] = Share(Pick(s), players, rank, p)
  <2>1. \A s \in SUBSET pots : s # {} => Pick(s) \in pots
    BY PickInSet
  <2>2. QED
    BY <2>1
<1> HIDE DEF f
<1>3. \A it : Solves(it) <=> IsSum(f, pots, it)
  BY <1>2 DEF IsSum
<1>4. PICK own : own = CHOOSE it : Solves(it)
  OBVIOUS
<1>5. \E it : Solves(it)
  BY <1>3, SumExists
<1>6. IsSum(f, pots, own)
  <2> HIDE DEF Solves
  <2>1. Solves(own)
    BY <1>4, <1>5
  <2>2. QED
    BY <1>3, <2>1
<1>7. SumFunctionOnSet(f, pots) = own[pots]
  BY <1>6, SumOfSubset
<1>8. QED
  BY <1>1, <1>4, <1>7 DEF f

(* Equal terms add up to their number times the term.                      *)
LEMMA SumOfEquals ==
    ASSUME NEW S, IsFiniteSet(S), NEW k \in Nat, NEW f, \A x \in S : f[x] = k
    PROVE  SumFunctionOnSet(f, S) = Cardinality(S) * k
<1> DEFINE Bad == {T \in SUBSET S : SumFunctionOnSet(f, T) # Cardinality(T) * k}
<1>1. Bad = {}
  <2>1. SUFFICES ASSUME Bad # {} PROVE FALSE
    OBVIOUS
  <2>2. PICK T \in Bad : IsFiniteSet(T) /\ Cardinality(T) \in Nat
                         /\ \A x \in T : T \ {x} \notin Bad
    <3>1. Bad \in SUBSET SUBSET S
      OBVIOUS
    <3> HIDE DEF Bad
    <3>2. QED
      BY <2>1, <3>1, SmallestSubset
  <2>3. T # {}
    <3>1. SumFunctionOnSet(f, {}) = 0 /\ Cardinality({}) = 0
      BY SumEmpty, FS_EmptySet
    <3>2. 0 = 0 * k
      OBVIOUS
    <3>3. {} \notin Bad
      BY <3>1, <3>2
    <3>4. QED
      BY <3>3
  <2>4. PICK x \in T : TRUE
    BY <2>3
  <2>5. SumFunctionOnSet(f, T) = f[x] + SumFunctionOnSet(f, T \ {x})
    <3>1. \A y \in T : f[y] \in Int
      OBVIOUS
    <3>2. QED
      BY <2>2, <3>1, SumStep
  <2>6. PICK n : n = Cardinality(T)
    OBVIOUS
  <2>7. Cardinality(T \ {x}) = n - 1 /\ n \in Nat
    BY <2>2, <2>6, FS_RemoveElement
  <2>8. SumFunctionOnSet(f, T \ {x}) = (n - 1) * k
    <3>1. T \ {x} \in SUBSET S /\ T \ {x} \notin Bad
      BY <2>2
    <3>2. QED
      BY <2>6, <2>7, <3>1
  <2>9. f[x] = k
    OBVIOUS
  <2>10. k + (n - 1) * k = n * k
    <3>1. \A i, j \in Int : j + (i - 1) * j = i * j
      OBVIOUS
    <3>2. n \in Int /\ k \in Int
      BY <2>7
    <3>3. QED
      BY <3>1, <3>2, Zenon
  <2>11. SumFunctionOnSet(f, T) = n * k
    BY <2>5, <2>8, <2>9, <2>10
  <2>12. QED
    BY <2>6, <2>11
<1>2. QED
  BY <1>1

(* Division with a remainder.                                              *)
LEMMA DivMod ==
    ASSUME NEW a \in Nat, NEW n \in Nat \ {0}
    PROVE  a \div n \in Nat /\ a % n \in Nat /\ n * (a \div n) + (a % n) = a
OBVIOUS

(* The winners are eligible players, and there is one if anybody is.       *)
LEMMA WinnersExist ==
    ASSUME NEW S, IsFiniteSet(S), NEW rank \in [S -> Nat],
           NEW pot, pot.eligible \in SUBSET S, pot.eligible # {}
    PROVE  /\ PotWinners(pot, rank) # {}
           /\ PotWinners(pot, rank) \in SUBSET pot.eligible
<1> DEFINE ranks == {rank[p] : p \in pot.eligible}
<1>1. IsFiniteSet(pot.eligible)
  BY FS_Subset
<1>2. IsFiniteSet(ranks) /\ ranks \in SUBSET Nat /\ ranks # {}
  BY <1>1, ImageIsFinite
<1>3. PICK b \in ranks : \A r \in ranks : r <= b
  <2> HIDE DEF ranks
  <2>1. QED
    BY <1>2, MaxOfNats
<1>4. PICK p \in pot.eligible : rank[p] = b
  BY <1>3
<1>5. \A q \in pot.eligible : rank[p] >= rank[q]
  BY <1>3, <1>4
<1>6. QED
  BY <1>4, <1>5 DEF PotWinners

(* The winner who takes the odd chips of a pot is one of its winners.      *)
LEMMA FirstSeatedIsWinner ==
    ASSUME NEW D, NEW players \in Seq(D), NEW W \in SUBSET Range(players), W # {}
    PROVE  FirstSeated(players, W) \in W
<1> DEFINE seats == {i \in DOMAIN players : players[i] \in W}
<1>1. seats \in SUBSET Nat /\ seats # {}
  <2>1. DOMAIN players = 1 .. Len(players) /\ Len(players) \in Nat
    OBVIOUS
  <2>2. QED
    BY <2>1 DEF Range
<1>2. Min(seats) \in seats
  <2> HIDE DEF seats
  <2>1. QED
    BY <1>1, MinOfNats
<1>3. QED
  BY <1>2 DEF FirstSeated

(* The shares of one pot add up to it, odd chips included.                 *)
LEMMA SharesAddUp ==
    ASSUME NEW D, NEW players \in Seq(D), IsFiniteSet(Range(players)),
           NEW rank \in [Range(players) -> Nat],
           NEW pot, pot.amount \in Nat, pot.eligible \in SUBSET Range(players)
    PROVE  /\ \A p : Share(pot, players, rank, p) \in Nat
           /\ SumFunctionOnSet([p \in Range(players) |-> Share(pot, players, rank, p)],
                               Range(players))
                = IF pot.eligible = {} THEN 0 ELSE pot.amount
<1> DEFINE S == Range(players)
           W == PotWinners(pot, rank)
           f == [p \in S |-> Share(pot, players, rank, p)]
<1>1. CASE pot.eligible = {}
  <2>1. W = {}
    BY <1>1 DEF PotWinners
  <2>2. \A p : Share(pot, players, rank, p) = 0
    BY <2>1 DEF Share
  <2>3. SumFunctionOnSet(f, S) = 0
    <3>1. \A p \in S : f[p] = 0
      BY <2>2
    <3> HIDE DEF f, S
    <3>2. QED
      BY <3>1, SumOfZeros DEF S
  <2>4. QED
    BY <1>1, <2>2, <2>3
<1>2. CASE pot.eligible # {}
  <2> DEFINE n == Cardinality(W)
             share == pot.amount \div n
             rem == pot.amount % n
             first == FirstSeated(players, W)
  <2>1. W # {} /\ W \in SUBSET S
    BY <1>2, WinnersExist
  <2>2. first \in W
    BY <2>1, FirstSeatedIsWinner
  <2>3. IsFiniteSet(W) /\ n \in Nat \ {0}
    BY <2>1, FS_Subset, FS_CardinalityType, FS_EmptySet
  <2>4. share \in Nat /\ rem \in Nat /\ n * share + rem = pot.amount
    BY <2>3, DivMod
  <2>5. \A p : Share(pot, players, rank, p) =
                  IF p \notin W THEN 0 ELSE IF p = first THEN share + rem ELSE share
    BY DEF Share
  <2> HIDE DEF n, share, rem, first, W
  <2>6. PICK even, odd : even = [p \in S |-> IF p \in W THEN share ELSE 0]
                         /\ odd = [p \in S |-> IF p = first THEN rem ELSE 0]
    OBVIOUS
  <2>7. \A p \in S : even[p] \in Int /\ odd[p] \in Int /\ f[p] = even[p] + odd[p]
    <3>1. TAKE p \in S
    <3>2. f[p] = IF p \notin W THEN 0 ELSE IF p = first THEN share + rem ELSE share
      BY <2>5
    <3>3. /\ even[p] = IF p \in W THEN share ELSE 0
          /\ odd[p] = IF p = first THEN rem ELSE 0
      BY <2>6
    <3> HIDE DEF f, S
    <3>4. QED
      BY <2>2, <2>4, <3>2, <3>3
  <2>8. SumFunctionOnSet(f, S) = SumFunctionOnSet(even, S) + SumFunctionOnSet(odd, S)
    <3>1. IsFiniteSet(S)
      OBVIOUS
    <3> HIDE DEF f, S
    <3>2. QED
      BY <2>7, <3>1, SumAdds
  <2>9. SumFunctionOnSet(even, S) = n * share
    <3>1. SumFunctionOnSet(even, S) = SumFunctionOnSet(even, W) + SumFunctionOnSet(even, S \ W)
      <4>1. \A p \in S : even[p] \in Int
        BY <2>7
      <4> HIDE DEF S
      <4>2. QED
        BY <2>1, <4>1, SumSplits DEF S
    <3>2. SumFunctionOnSet(even, W) = n * share
      <4>1. \A p \in W : even[p] = share
        BY <2>1, <2>6
      <4>2. QED
        BY <2>3, <2>4, <4>1, SumOfEquals DEF n
    <3>3. SumFunctionOnSet(even, S \ W) = 0
      <4>1. IsFiniteSet(S \ W) /\ \A p \in S \ W : even[p] = 0
        BY <2>6, FS_Subset
      <4>2. QED
        BY <4>1, SumOfZeros
    <3>4. PICK k : k = n * share
      OBVIOUS
    <3>5. k \in Nat
      <4>1. \A i, j \in Nat : i * j \in Nat
        OBVIOUS
      <4>2. QED
        BY <2>3, <2>4, <3>4, <4>1
    <3>6. QED
      BY <3>1, <3>2, <3>3, <3>4, <3>5
  <2>10. SumFunctionOnSet(odd, S) = rem
    <3>1. SumFunctionOnSet(odd, S) = odd[first] + SumFunctionOnSet(odd, S \ {first})
      <4>1. first \in S /\ \A p \in S : odd[p] \in Int
        BY <2>1, <2>2, <2>7
      <4> HIDE DEF S
      <4>2. QED
        BY <4>1, SumStep DEF S
    <3>2. SumFunctionOnSet(odd, S \ {first}) = 0
      <4>1. IsFiniteSet(S \ {first}) /\ \A p \in S \ {first} : odd[p] = 0
        BY <2>6, FS_Subset
      <4>2. QED
        BY <4>1, SumOfZeros
    <3>3. odd[first] = rem
      BY <2>1, <2>2, <2>6
    <3>4. QED
      BY <2>4, <3>1, <3>2, <3>3
  <2>11. \A p : Share(pot, players, rank, p) \in Nat
    BY <2>4, <2>5
  <2>12. QED
    BY <1>2, <2>4, <2>8, <2>9, <2>10, <2>11
<1>3. QED
  BY <1>1, <1>2

(***************************************************************************)
(* The layers of the pots.                                                 *)
(***************************************************************************)
\* How far below a level the next one is, or zero.
NextBelow(L, l) == Max({0} \cup {k \in L : k < l})

(* The slices of v between successive levels, up to the highest of them,   *)
(* add up to v, or to that level when v is above it.                       *)
LEMMA SlicesTelescope ==
    ASSUME NEW L \in SUBSET (Nat \ {0}), IsFiniteSet(L), NEW v \in Nat,
           NEW T \in SUBSET L, \A l \in T, k \in L : k < l => k \in T
    PROVE  SumFunctionOnSet([l \in L |-> Lesser(v, l) - Lesser(v, NextBelow(L, l))], T)
             = Lesser(v, Max({0} \cup T))
<1> DEFINE slice == [l \in L |-> Lesser(v, l) - Lesser(v, NextBelow(L, l))]
           Initial(U) == \A l \in U, k \in L : k < l => k \in U
           Bad == {U \in SUBSET L :
                     Initial(U) /\ SumFunctionOnSet(slice, U) # Lesser(v, Max({0} \cup U))}
<1>1. ASSUME NEW U \in SUBSET L
      PROVE  /\ Max({0} \cup U) \in {0} \cup U
             /\ Max({0} \cup U) \in Nat
             /\ \A l \in U : l <= Max({0} \cup U)
  <2>1. IsFiniteSet({0} \cup U)
    BY FS_Subset, FS_Singleton, FS_Union
  <2>2. {0} \cup U \in SUBSET Nat /\ {0} \cup U # {}
    OBVIOUS
  <2>3. Max({0} \cup U) \in {0} \cup U /\ \A l \in {0} \cup U : l <= Max({0} \cup U)
    BY <2>1, <2>2, MaxOfNats
  <2>4. QED
    BY <2>2, <2>3
<1>2. \A l \in L : NextBelow(L, l) \in Nat
  BY <1>1 DEF NextBelow
<1>3. \A l \in L : slice[l] \in Int
  BY <1>2 DEF Lesser
<1>4. Bad = {}
  <2>1. SUFFICES ASSUME Bad # {} PROVE FALSE
    OBVIOUS
  <2>2. PICK U \in Bad : IsFiniteSet(U) /\ \A x \in U : U \ {x} \notin Bad
    <3>1. Bad \in SUBSET SUBSET L
      OBVIOUS
    <3> HIDE DEF Bad
    <3>2. QED
      BY <2>1, <3>1, SmallestSubset
  <2>3. /\ U \in SUBSET L /\ Initial(U)
        /\ SumFunctionOnSet(slice, U) # Lesser(v, Max({0} \cup U))
    OBVIOUS
  <2>4. ASSUME U = {} PROVE FALSE
    <3>1. Max({0} \cup {}) = 0
      BY <1>1
    <3>2. SumFunctionOnSet(slice, {}) = 0
      BY SumEmpty
    <3>3. Lesser(v, 0) = 0
      BY DEF Lesser
    <3> HIDE DEF slice
    <3>4. QED
      BY <2>3, <2>4, <3>1, <3>2, <3>3
  <2>5. PICK m : m = Max({0} \cup U)
    OBVIOUS
  <2>6. m \in U /\ m \in Nat \ {0} /\ \A l \in U : l <= m
    <3>1. PICK l \in U : TRUE
      BY <2>4
    <3>2. l \in Nat \ {0}
      BY <2>3
    <3>3. m \in {0} \cup U /\ m \in Nat /\ \A k \in U : k <= m
      BY <1>1, <2>3, <2>5
    <3>4. QED
      BY <3>1, <3>2, <3>3
  <2>7. {k \in L : k < m} = U \ {m}
    <3>1. \A k \in U \ {m} : k \in L /\ k < m
      BY <2>3, <2>6
    <3>2. ASSUME NEW k \in L, k < m PROVE k \in U \ {m}
      <4>1. k \in U
        BY <2>3, <2>6, <3>2
      <4>2. k # m
        BY <2>6, <3>2
      <4>3. QED
        BY <4>1, <4>2
    <3>3. QED
      BY <3>1, <3>2
  <2>8. PICK low : low = NextBelow(L, m)
    OBVIOUS
  <2>9. low = Max({0} \cup (U \ {m})) /\ low \in Nat /\ low <= m
    <3>1. low = Max({0} \cup (U \ {m}))
      BY <2>7, <2>8 DEF NextBelow
    <3>2. low \in {0} \cup (U \ {m}) /\ low \in Nat
      BY <1>1, <2>3, <3>1
    <3>3. QED
      BY <2>6, <3>1, <3>2
  <2>10. SumFunctionOnSet(slice, U) = slice[m] + SumFunctionOnSet(slice, U \ {m})
    <3>1. \A l \in U : slice[l] \in Int
      BY <1>3, <2>3
    <3> HIDE DEF slice
    <3>2. QED
      BY <2>2, <2>6, <3>1, SumStep
  <2>11. SumFunctionOnSet(slice, U \ {m}) = Lesser(v, low)
    <3>1. U \ {m} \in SUBSET L /\ U \ {m} \notin Bad
      BY <2>2, <2>3, <2>6
    <3>2. Initial(U \ {m})
      <4>1. SUFFICES ASSUME NEW l \in U \ {m}, NEW k \in L, k < l PROVE k \in U \ {m}
        OBVIOUS
      <4>2. k \in U /\ l <= m /\ k \in Nat /\ l \in Nat
        BY <2>3, <2>6, <4>1
      <4>3. k # m
        BY <2>6, <4>1, <4>2
      <4>4. QED
        BY <4>2, <4>3
    <3> HIDE DEF slice, Initial
    <3>3. QED
      BY <2>9, <3>1, <3>2
  <2>12. slice[m] = Lesser(v, m) - Lesser(v, low)
    BY <2>3, <2>6, <2>8
  <2>13. Lesser(v, m) \in Nat /\ Lesser(v, low) \in Nat
    BY <2>6, <2>9 DEF Lesser
  <2> HIDE DEF slice
  <2>14. SumFunctionOnSet(slice, U) = Lesser(v, m)
    BY <2>10, <2>11, <2>12, <2>13
  <2>15. QED
    BY <2>3, <2>5, <2>14
<1>5. T \notin Bad /\ Initial(T)
  BY <1>4
<1> HIDE DEF slice, Initial
<1>6. SumFunctionOnSet(slice, T) = Lesser(v, Max({0} \cup T))
  BY <1>5
<1>7. QED
  BY <1>6 DEF slice

(***************************************************************************)
(* The layers of a pot.                                                    *)
(***************************************************************************)
LayerSlice(contrib, l) ==
    [p \in DOMAIN contrib |->
        Lesser(contrib[p], l) - Lesser(contrib[p], LevelBelow(contrib, l))]

(* The levels of the bets are finitely many positive numbers.              *)
LEMMA LevelsOfBets ==
    ASSUME NEW D, IsFiniteSet(D), NEW contrib \in [D -> Nat]
    PROVE  /\ Levels(contrib) \in SUBSET (Nat \ {0}) /\ IsFiniteSet(Levels(contrib))
           /\ \A p \in D : contrib[p] = 0 \/ contrib[p] \in Levels(contrib)
           /\ \A l : LevelBelow(contrib, l) = NextBelow(Levels(contrib), l)
<1>1. Range(contrib) = {contrib[p] : p \in D}
  BY DEF Range
<1>2. IsFiniteSet(Range(contrib))
  BY <1>1, ImageIsFinite
<1>3. IsFiniteSet(Levels(contrib))
  BY <1>2, FS_Subset DEF Levels
<1>4. Levels(contrib) \in SUBSET (Nat \ {0})
  BY <1>1 DEF Levels
<1>5. \A p \in D : contrib[p] = 0 \/ contrib[p] \in Levels(contrib)
  BY <1>1 DEF Levels
<1>6. \A l : LevelBelow(contrib, l) = NextBelow(Levels(contrib), l)
  BY DEF LevelBelow, NextBelow
<1>7. QED
  BY <1>3, <1>4, <1>5, <1>6

(* What one player put in lies in the layers up to its own bet.            *)
LEMMA LayersOfOneBet ==
    ASSUME NEW D, IsFiniteSet(D), NEW contrib \in [D -> Nat],
           NEW p \in D, NEW q \in D,
           NEW T, T = {l \in Levels(contrib) : l <= contrib[q]}
    PROVE  SumFunctionOnSet([l \in Levels(contrib) |-> LayerSlice(contrib, l)[p]], T)
             = Lesser(contrib[p], contrib[q])
<1> DEFINE L == Levels(contrib)
           v == contrib[p]
           slice == [l \in L |-> Lesser(v, l) - Lesser(v, NextBelow(L, l))]
<1>1. /\ L \in SUBSET (Nat \ {0}) /\ IsFiniteSet(L)
      /\ contrib[q] = 0 \/ contrib[q] \in L
      /\ v \in Nat /\ contrib[q] \in Nat
  BY LevelsOfBets
<1>2. [l \in L |-> LayerSlice(contrib, l)[p]] = slice
  BY LevelsOfBets DEF LayerSlice
<1>3. Max({0} \cup T) = contrib[q]
  <2>1. IsFiniteSet({0} \cup T)
    <3>1. T \in SUBSET L
      OBVIOUS
    <3>2. IsFiniteSet(T)
      BY <1>1, <3>1, FS_Subset
    <3>3. QED
      BY <3>2, FS_Singleton, FS_Union
  <2>2. {0} \cup T \in SUBSET Nat /\ {0} \cup T # {}
    BY <1>1
  <2>3. contrib[q] \in {0} \cup T /\ \A l \in {0} \cup T : l <= contrib[q]
    BY <1>1
  <2>4. Max({0} \cup T) \in {0} \cup T /\ \A l \in {0} \cup T : l <= Max({0} \cup T)
    BY <2>1, <2>2, MaxOfNats
  <2>5. PICK m : m = Max({0} \cup T)
    OBVIOUS
  <2>6. m \in Nat /\ m <= contrib[q] /\ contrib[q] <= m
    BY <2>2, <2>3, <2>4, <2>5
  <2>7. QED
    BY <1>1, <2>5, <2>6
<1>4. SumFunctionOnSet(slice, T) = Lesser(v, Max({0} \cup T))
  <2>1. T \in SUBSET L /\ \A l \in T, k \in L : k < l => k \in T
    BY <1>1
  <2> HIDE DEF L, v
  <2>2. QED
    BY <1>1, <2>1, SlicesTelescope
<1>5. QED
  BY <1>2, <1>3, <1>4

(* The sum of a function is the sum over its domain.                       *)
LEMMA SumFunctionIs == ASSUME NEW f PROVE SumFunction(f) = SumFunctionOnSet(f, DOMAIN f)
BY DEF SumFunction

(* The amounts of the layers up to the bet of q add up to what the others  *)
(* have put in up to it.                                                   *)
LEMMA LayersMatch ==
    ASSUME NEW D, IsFiniteSet(D), NEW contrib \in [D -> Nat], NEW q \in D,
           NEW T, T = {l \in Levels(contrib) : l <= contrib[q]}
    PROVE  /\ \A l \in Levels(contrib) : SumFunction(LayerSlice(contrib, l)) \in Nat
           /\ SumFunctionOnSet([l \in Levels(contrib) |-> SumFunction(LayerSlice(contrib, l))], T)
                = SumFunctionOnSet([p \in D |-> Lesser(contrib[p], contrib[q])], D)
<1> DEFINE L == Levels(contrib)
           amount == [l \in L |-> SumFunction(LayerSlice(contrib, l))]
           f == [l \in T |-> LayerSlice(contrib, l)]
           g == [l \in T |-> SumFunctionOnSet(f[l], D)]
           h == [p \in D |-> SumFunctionOnSet([l \in T |-> f[l][p]], T)]
<1>1. /\ L \in SUBSET (Nat \ {0}) /\ IsFiniteSet(L) /\ T \in SUBSET L /\ IsFiniteSet(T)
      /\ \A l : LevelBelow(contrib, l) = NextBelow(L, l)
  <2>1. T \in SUBSET L
    OBVIOUS
  <2>2. QED
    BY <2>1, LevelsOfBets, FS_Subset
<1>2. ASSUME NEW l \in L
      PROVE  /\ LayerSlice(contrib, l) \in [D -> Nat]
             /\ amount[l] = SumFunctionOnSet(LayerSlice(contrib, l), D)
             /\ amount[l] \in Nat
  <2>1. NextBelow(L, l) \in Nat /\ NextBelow(L, l) <= l
    <3>1. {k \in L : k < l} \in SUBSET L
      OBVIOUS
    <3>2. IsFiniteSet({0} \cup {k \in L : k < l})
      BY <1>1, <3>1, FS_Subset, FS_Singleton, FS_Union
    <3>3. {0} \cup {k \in L : k < l} \in SUBSET Nat /\ {0} \cup {k \in L : k < l} # {}
      BY <1>1
    <3>4. Max({0} \cup {k \in L : k < l}) \in {0} \cup {k \in L : k < l}
      BY <3>2, <3>3, MaxOfNats
    <3>5. QED
      BY <1>1, <3>4 DEF NextBelow
  <2>2. \A p \in D : Lesser(contrib[p], l) - Lesser(contrib[p], NextBelow(L, l)) \in Nat
    BY <1>1, <2>1 DEF Lesser
  <2>3. LayerSlice(contrib, l) \in [D -> Nat]
    BY <1>1, <2>2 DEF LayerSlice
  <2>4. amount[l] = SumFunctionOnSet(LayerSlice(contrib, l), D)
    BY <2>3, SumFunctionIs
  <2>5. SumFunctionOnSet(LayerSlice(contrib, l), D) \in Nat
    <3>1. \A p \in D : LayerSlice(contrib, l)[p] \in Nat
      BY <2>3
    <3>2. QED
      BY <3>1, SumIsNat
  <2>6. QED
    BY <2>3, <2>4, <2>5
<1>3. SumFunctionOnSet(amount, T) = SumFunctionOnSet(g, T)
  <2>1. \A l \in T : amount[l] \in Int /\ amount[l] = g[l]
    BY <1>1, <1>2
  <2> HIDE DEF amount, g
  <2>2. QED
    BY <1>1, <2>1, SumSame
<1>4. SumFunctionOnSet(g, T) = SumFunctionOnSet(h, D)
  <2>1. PICK k : k = [p \in D |-> [l \in T |-> f[l][p]]]
    OBVIOUS
  <2>2. \A l \in T, p \in D : f[l][p] \in Int /\ k[p][l] = f[l][p]
    BY <1>1, <1>2, <2>1
  <2>3. /\ \A l \in T : g[l] = SumFunctionOnSet(f[l], D)
        /\ \A p \in D : h[p] = SumFunctionOnSet(k[p], T)
    BY <2>1
  <2> HIDE DEF f, g, h
  <2>4. SumsOfTable(T, D, f, k, g, h)
    BY <2>2, <2>3 DEF SumsOfTable
  <2>5. QED
    BY <1>1, <2>4, SumSwaps
<1>5. ASSUME NEW p \in D PROVE h[p] = Lesser(contrib[p], contrib[q])
  <2>1. PICK column, slice : column = [l \in T |-> f[l][p]]
                             /\ slice = [l \in L |-> LayerSlice(contrib, l)[p]]
    OBVIOUS
  <2>2. \A l \in T : slice[l] \in Int /\ slice[l] = column[l]
    BY <1>1, <1>2, <2>1
  <2>3. SumFunctionOnSet(slice, T) = SumFunctionOnSet(column, T)
    BY <1>1, <2>2, SumSame
  <2>4. SumFunctionOnSet(slice, T) = Lesser(contrib[p], contrib[q])
    BY <2>1, LayersOfOneBet
  <2>5. QED
    BY <2>1, <2>3, <2>4
<1>6. h = [p \in D |-> Lesser(contrib[p], contrib[q])]
  <2>1. h = [p \in D |-> h[p]]
    OBVIOUS
  <2> HIDE DEF h
  <2>2. QED
    BY <1>5, <2>1
<1>7. \A l \in L : SumFunction(LayerSlice(contrib, l)) \in Nat
  BY <1>2
<1>8. QED
  BY <1>3, <1>4, <1>6, <1>7

(* All the layers together hold all the bets.                              *)
LEMMA LayersHoldAll ==
    ASSUME NEW D, IsFiniteSet(D), NEW contrib \in [D -> Nat]
    PROVE  SumFunctionOnSet([l \in Levels(contrib) |-> SumFunction(LayerSlice(contrib, l))],
                            Levels(contrib))
             = SumFunction(contrib)
<1> DEFINE L == Levels(contrib)
           amount == [l \in L |-> SumFunction(LayerSlice(contrib, l))]
<1>1. CASE D = {}
  <2>1. L = {}
    BY <1>1 DEF Levels, Range
  <2>2. SumFunctionOnSet(amount, {}) = 0 /\ SumFunctionOnSet(contrib, {}) = 0
    BY SumEmpty
  <2>3. SumFunction(contrib) = SumFunctionOnSet(contrib, {})
    BY <1>1, SumFunctionIs
  <2> HIDE DEF amount
  <2>4. SumFunctionOnSet(amount, L) = SumFunction(contrib)
    BY <2>1, <2>2, <2>3
  <2>5. QED
    BY <2>4 DEF amount
<1>2. CASE D # {}
  <2>1. PICK q \in D : \A p \in D : contrib[p] <= contrib[q]
    <3>1. PICK bets : bets = {contrib[p] : p \in D}
      OBVIOUS
    <3>2. IsFiniteSet(bets) /\ bets \in SUBSET Nat /\ bets # {}
      BY <1>2, <3>1, ImageIsFinite
    <3>3. PICK b \in bets : \A x \in bets : x <= b
      BY <3>2, MaxOfNats
    <3>4. QED
      BY <3>1, <3>3
  <2>2. PICK T : T = {l \in L : l <= contrib[q]}
    OBVIOUS
  <2>3. T = L
    <3>1. \A l \in L : \E p \in D : contrib[p] = l
      BY DEF Levels, Range
    <3>2. QED
      BY <2>1, <2>2, <3>1
  <2>4. SumFunctionOnSet(amount, T)
          = SumFunctionOnSet([p \in D |-> Lesser(contrib[p], contrib[q])], D)
    BY <2>2, LayersMatch
  <2>5. [p \in D |-> Lesser(contrib[p], contrib[q])] = contrib
    <3>1. \A p \in D : Lesser(contrib[p], contrib[q]) = contrib[p]
      BY <2>1 DEF Lesser
    <3>2. QED
      BY <3>1
  <2>6. SumFunction(contrib) = SumFunctionOnSet(contrib, D)
    BY SumFunctionIs
  <2> HIDE DEF amount, L
  <2>7. SumFunctionOnSet(amount, L) = SumFunction(contrib)
    BY <2>3, <2>4, <2>5, <2>6
  <2>8. QED
    BY <2>7 DEF amount, L
<1>3. QED
  BY <1>1, <1>2

(***************************************************************************)
(* What the pots hold and pay.                                             *)
(***************************************************************************)
(* getTotalPot is the sum of the amounts.                                  *)
LEMMA TotalPotIsSum ==
    ASSUME NEW pots, IsFiniteSet(pots)
    PROVE  TotalPot(pots) = SumFunctionOnSet([pot \in pots |-> pot.amount], pots)
<1> DEFINE f == [pot \in pots |-> pot.amount]
           Solves(it) == it = [s \in SUBSET pots |-> IF s = {} THEN 0
                 ELSE Pick(s).amount + it[s \ {Pick(s)}]]
<1>1. TotalPot(pots) = (CHOOSE it : Solves(it))[pots]
  BY DEF TotalPot, MapThenSumSet, MapThenFoldSet, Pick
<1>2. \A s \in SUBSET pots : s # {} => f[Pick(s)] = Pick(s).amount
  <2>1. \A s \in SUBSET pots : s # {} => Pick(s) \in pots
    BY PickInSet
  <2>2. QED
    BY <2>1
<1> HIDE DEF f
<1>3. \A it : Solves(it) <=> IsSum(f, pots, it)
  BY <1>2 DEF IsSum
<1>4. PICK own : own = CHOOSE it : Solves(it)
  OBVIOUS
<1>5. \E it : Solves(it)
  BY <1>3, SumExists
<1>6. IsSum(f, pots, own)
  <2> HIDE DEF Solves
  <2>1. Solves(own)
    BY <1>4, <1>5
  <2>2. QED
    BY <1>3, <2>1
<1>7. SumFunctionOnSet(f, pots) = own[pots]
  BY <1>6, SumOfSubset
<1>8. QED
  BY <1>1, <1>4, <1>7 DEF f

\* Pots among players: finitely many, each open to some of them.
PotsAmong(D, pots) ==
    /\ IsFiniteSet(pots)
    /\ \A pot \in pots : pot.amount \in Nat /\ pot.eligible \in SUBSET D

\* The seats and hands of a showdown among the players of D.
ShowdownAmong(D, players, rank) ==
    /\ players \in Seq(D) /\ Range(players) = D /\ IsFiniteSet(D)
    /\ rank \in [D -> Nat]

(* What distributePots pays out is the whole of the pots, or nothing.      *)
LEMMA PotsPaidOut ==
    ASSUME NEW D, NEW players, NEW rank, ShowdownAmong(D, players, rank),
           NEW pots, PotsAmong(D, pots),
           NEW payouts, payouts = DistributePots(pots, players, rank)
    PROVE  /\ payouts \in [D -> Nat]
           /\ SumFunction(payouts) = IF Distributable(pots) THEN TotalPot(pots) ELSE 0
<1> DEFINE by(p) == [pot \in pots |-> Share(pot, players, rank, p)]
<1>1. /\ IsFiniteSet(D) /\ IsFiniteSet(pots)
      /\ DOMAIN payouts = D
      /\ \A p \in D : payouts[p] = IF Distributable(pots)
                                   THEN SumFunctionOnSet(by(p), pots) ELSE 0
  <2>1. /\ Range(players) = D /\ IsFiniteSet(D) /\ IsFiniteSet(pots)
    BY DEF ShowdownAmong, PotsAmong
  <2>2. payouts = [p \in D |-> IF Distributable(pots)
           THEN MapThenSumSet(LAMBDA pot : Share(pot, players, rank, p), pots) ELSE 0]
    BY <2>1 DEF DistributePots
  <2>3. \A p : MapThenSumSet(LAMBDA pot : Share(pot, players, rank, p), pots)
                 = SumFunctionOnSet(by(p), pots)
    BY <2>1, SharesAreSummed
  <2>4. QED
    BY <2>1, <2>2, <2>3
<1>2. ASSUME NEW pot \in pots
      PROVE  /\ \A p : Share(pot, players, rank, p) \in Nat
             /\ SumFunctionOnSet([p \in D |-> Share(pot, players, rank, p)], D)
                  = IF pot.eligible = {} THEN 0 ELSE pot.amount
  BY SharesAddUp DEF ShowdownAmong, PotsAmong
<1>3. ASSUME NEW p \in D PROVE payouts[p] \in Nat
  <2>1. \A pot \in pots : by(p)[pot] \in Nat
    BY <1>2
  <2> HIDE DEF by
  <2>2. SumFunctionOnSet(by(p), pots) \in Nat
    BY <1>1, <2>1, SumIsNat
  <2>3. QED
    BY <1>1, <2>2
<1>4. payouts \in [D -> Nat]
  <2>1. payouts = [p \in D |-> payouts[p]]
    BY <1>1 DEF DistributePots
  <2>2. QED
    BY <1>3, <2>1
<1>5. SumFunction(payouts) = SumFunctionOnSet(payouts, D)
  BY <1>1, SumFunctionIs
<1>6. CASE ~Distributable(pots)
  <2>1. \A p \in D : payouts[p] = 0
    BY <1>1, <1>6
  <2>2. SumFunctionOnSet(payouts, D) = 0
    BY <1>1, <2>1, SumOfZeros
  <2>3. QED
    BY <1>4, <1>5, <1>6, <2>2
<1>7. CASE Distributable(pots)
  <2>1. PICK f, h, column :
              /\ f = [p \in D |-> by(p)]
              /\ h = [pot \in pots |-> [p \in D |-> Share(pot, players, rank, p)]]
              /\ column = [pot \in pots |-> pot.amount]
    OBVIOUS
  <2>2. \A p \in D, pot \in pots : f[p][pot] \in Int /\ h[pot][p] = f[p][pot]
    BY <1>2, <2>1
  <2>3. \A p \in D : payouts[p] = SumFunctionOnSet(f[p], pots)
    BY <1>1, <1>7, <2>1
  <2>4. \A pot \in pots : column[pot] = SumFunctionOnSet(h[pot], D)
    <3>1. \A pot \in pots : pot.eligible = {} => pot.amount = 0
      BY <1>7 DEF Distributable, PotsAmong
    <3>2. QED
      BY <1>2, <2>1, <3>1
  <2>5. SumsOfTable(D, pots, f, h, payouts, column)
    BY <2>2, <2>3, <2>4 DEF SumsOfTable
  <2>6. SumFunctionOnSet(payouts, D) = SumFunctionOnSet(column, pots)
    BY <1>1, <2>5, SumSwaps
  <2>7. QED
    BY <1>1, <1>4, <1>5, <1>7, <2>1, <2>6, TotalPotIsSum
<1>8. QED
  BY <1>6, <1>7

(* The layers of rebuildPotsIncremental, level by level.                   *)
LEMMA LayerPots ==
    ASSUME NEW D, IsFiniteSet(D), NEW contrib \in [D -> Nat], NEW alive \in SUBSET D,
           Cardinality(alive) # 1,
           NEW m, m = [l \in Levels(contrib) |-> Layer(contrib, alive, l)]
    PROVE  /\ RebuildPots(contrib, alive) = {m[l] : l \in Levels(contrib)}
           /\ PotsAmong(D, RebuildPots(contrib, alive))
           /\ \A a, b \in Levels(contrib) : m[a] = m[b] => a = b
           /\ \A l \in Levels(contrib) :
                  /\ m[l].amount = SumFunction(LayerSlice(contrib, l))
                  /\ m[l].amount \in Nat
                  /\ m[l].eligible = {p \in alive : contrib[p] >= l}
<1> DEFINE pots == RebuildPots(contrib, alive)
           L == Levels(contrib)
<1>1. IsFiniteSet(L)
  BY LevelsOfBets
<1>2. ASSUME NEW l \in L
      PROVE  /\ m[l].cap = l
             /\ m[l].amount = SumFunction(LayerSlice(contrib, l))
             /\ m[l].amount \in Nat
             /\ m[l].eligible = {p \in alive : contrib[p] >= l}
  <2>1. SumFunction(LayerSlice(contrib, l)) \in Nat
    <3>1. PICK q \in D : TRUE
      BY DEF Levels, Range
    <3>2. PICK T : T = {k \in L : k <= contrib[q]}
      OBVIOUS
    <3>3. QED
      BY <3>2, LayersMatch
  <2>2. m[l] = Pot(l, SumFunction(LayerSlice(contrib, l)), {p \in alive : contrib[p] >= l})
    BY DEF Layer, LayerSlice
  <2>3. QED
    BY <2>1, <2>2 DEF Pot
<1>3. pots = {m[l] : l \in L}
  BY DEF RebuildPots
<1> HIDE DEF pots, L
<1>4. IsFiniteSet(pots)
  <2>1. \A f : IsFiniteSet({f[l] : l \in L})
    BY <1>1, ImageIsFinite
  <2>2. QED
    BY <1>3, <2>1
<1>5. \A pot \in pots : pot.amount \in Nat /\ pot.eligible \in SUBSET D
  <2>1. \A l \in L : m[l].amount \in Nat /\ m[l].eligible \in SUBSET D
    BY <1>2
  <2>2. QED
    BY <1>3, <2>1
<1>6. PotsAmong(D, pots)
  BY <1>4, <1>5 DEF PotsAmong
<1>7. \A a, b \in L : m[a] = m[b] => a = b
  BY <1>2
<1>8. QED
  BY <1>2, <1>3, <1>6, <1>7 DEF pots, L

(* The pots rebuilt from the bets hold all of them, whoever has folded.    *)
THEOREM PotsHoldBets ==
    ASSUME NEW D, IsFiniteSet(D), NEW contrib \in [D -> Nat], NEW alive \in SUBSET D
    PROVE  /\ PotsAmong(D, RebuildPots(contrib, alive))
           /\ TotalPot(RebuildPots(contrib, alive)) = SumFunction(contrib)
<1> DEFINE pots == RebuildPots(contrib, alive)
<1>1. SumFunction(contrib) \in Nat
  <2>1. \A p \in D : contrib[p] \in Nat
    OBVIOUS
  <2>2. DOMAIN contrib = D
    OBVIOUS
  <2>3. QED
    BY <2>1, <2>2, SumIsNat, SumFunctionIs
<1>2. CASE Cardinality(alive) = 1
  <2>1. PICK pot : pot = Pot(Max(Range(contrib)), SumFunction(contrib), alive)
    OBVIOUS
  <2>2. pots = {pot} /\ pot.amount = SumFunction(contrib) /\ pot.eligible = alive
    BY <1>2, <2>1 DEF RebuildPots, Pot
  <2> HIDE DEF pots
  <2>3. PotsAmong(D, pots)
    BY <1>1, <2>2, FS_Singleton DEF PotsAmong
  <2>4. PICK f : f = [q \in pots |-> q.amount]
    OBVIOUS
  <2>5. SumFunctionOnSet(f, pots) = f[pot] + SumFunctionOnSet(f, pots \ {pot})
    <3>1. IsFiniteSet(pots) /\ pot \in pots
      BY <2>2, <2>3 DEF PotsAmong
    <3>2. \A q \in pots : f[q] \in Int
      <4>1. \A q \in pots : q = pot /\ f[q] = q.amount
        BY <2>2, <2>4
      <4>2. QED
        BY <1>1, <2>2, <4>1
    <3>3. QED
      BY <3>1, <3>2, SumStep
  <2>6. pots \ {pot} = {} /\ f[pot] = SumFunction(contrib)
    BY <2>2, <2>4
  <2>7. TotalPot(pots) = SumFunctionOnSet(f, pots)
    BY <2>3, <2>4, TotalPotIsSum DEF PotsAmong
  <2>8. TotalPot(pots) = SumFunction(contrib)
    BY <1>1, <2>5, <2>6, <2>7, SumEmpty
  <2>9. QED
    BY <2>3, <2>8 DEF pots
<1>3. CASE Cardinality(alive) # 1
  <2> DEFINE L == Levels(contrib)
             amounts == [l \in L |-> SumFunction(LayerSlice(contrib, l))]
  <2>1. PICK m : m = [l \in L |-> Layer(contrib, alive, l)]
    OBVIOUS
  <2>2. /\ pots = {m[l] : l \in L} /\ PotsAmong(D, pots) /\ IsFiniteSet(L)
        /\ \A a, b \in L : m[a] = m[b] => a = b
        /\ \A l \in L : m[l].amount = amounts[l] /\ m[l].amount \in Nat
    BY <1>3, <2>1, LayerPots, LevelsOfBets
  <2> HIDE DEF pots, L
  <2>3. PICK f : f = [pot \in pots |-> pot.amount]
    OBVIOUS
  <2>4. \A l \in L : f[m[l]] = amounts[l] /\ f[m[l]] \in Int
    BY <2>2, <2>3
  <2>5. SumFunctionOnSet(f, {m[l] : l \in L}) = SumFunctionOnSet([l \in L |-> f[m[l]]], L)
    BY <2>2, <2>4, SumOfImage
  <2>6. [l \in L |-> f[m[l]]] = amounts
    BY <2>4
  <2>7. SumFunctionOnSet(amounts, L) = SumFunction(contrib)
    BY LayersHoldAll DEF L
  <2>8. TotalPot(pots) = SumFunctionOnSet(f, pots)
    BY <2>2, <2>3, TotalPotIsSum DEF PotsAmong
  <2> HIDE DEF amounts
  <2>9. TotalPot(pots) = SumFunction(contrib)
    BY <2>2, <2>5, <2>6, <2>7, <2>8
  <2>10. QED
    BY <2>2, <2>9 DEF pots
<1>4. QED
  BY <1>2, <1>3

(* distributePots over the pots of the bets: the payouts add up to all the *)
(* bets, or there is none when some pot has nobody left to win it.         *)
THEOREM PayoutsAddUp ==
    ASSUME NEW D, NEW players, NEW rank, ShowdownAmong(D, players, rank),
           NEW contrib \in [D -> Nat], NEW alive \in SUBSET D,
           NEW payouts, payouts = DistributePots(RebuildPots(contrib, alive), players, rank)
    PROVE  /\ payouts \in [D -> Nat]
           /\ SumFunction(payouts) =
                  IF Distributable(RebuildPots(contrib, alive))
                  THEN SumFunction(contrib) ELSE 0
<1>1. IsFiniteSet(D)
  BY DEF ShowdownAmong
<1>2. PICK pots : pots = RebuildPots(contrib, alive)
  OBVIOUS
<1>3. PotsAmong(D, pots) /\ TotalPot(pots) = SumFunction(contrib)
  BY <1>1, <1>2, PotsHoldBets
<1>4. QED
  BY <1>2, <1>3, PotsPaidOut

\* What w matches of the bets: from each no more than its own.
Matched(D, contrib, w) ==
    SumFunctionOnSet([p \in D |-> Lesser(contrib[p], contrib[w])], D)

(* Side pots cap what a player can win: from every bet no more than its    *)
(* own, and nothing once it has folded.                                    *)
THEOREM PayoutsCapped ==
    ASSUME NEW D, NEW players, NEW rank, ShowdownAmong(D, players, rank),
           NEW contrib \in [D -> Nat], NEW alive \in SUBSET D, Cardinality(alive) # 1,
           NEW payouts, payouts = DistributePots(RebuildPots(contrib, alive), players, rank),
           NEW w \in D
    PROVE  /\ w \in alive =>
                  payouts[w] <= Matched(D, contrib, w)
           /\ w \notin alive => payouts[w] = 0
<1> DEFINE L == Levels(contrib)
           pots == RebuildPots(contrib, alive)
           amounts == [l \in L |-> SumFunction(LayerSlice(contrib, l))]
           cap == Matched(D, contrib, w)
<1>1. PICK m : m = [l \in L |-> Layer(contrib, alive, l)]
  OBVIOUS
<1>2. PICK T : T = {l \in L : l <= contrib[w]}
  OBVIOUS
<1>3. /\ IsFiniteSet(D) /\ IsFiniteSet(L) /\ IsFiniteSet(T) /\ T \in SUBSET L
      /\ Range(players) = D
  <2>1. T \in SUBSET L
    BY <1>2
  <2>2. QED
    BY <2>1, LevelsOfBets, FS_Subset DEF ShowdownAmong
<1>4. /\ pots = {m[l] : l \in L} /\ PotsAmong(D, pots)
      /\ \A a, b \in L : m[a] = m[b] => a = b
      /\ \A l \in L : m[l].amount = amounts[l] /\ m[l].amount \in Nat
                       /\ m[l].eligible = {p \in alive : contrib[p] >= l}
  BY <1>1, <1>3, LayerPots
<1>5. /\ SumFunctionOnSet(amounts, T) = cap
      /\ \A l \in L : amounts[l] \in Nat
  BY <1>2, <1>3, LayersMatch DEF Matched
<1>6. cap \in Nat
  <2>1. \A l \in T : amounts[l] \in Nat
    BY <1>3, <1>5
  <2> HIDE DEF amounts
  <2>2. QED
    BY <1>3, <1>5, <2>1, SumIsNat
<1> HIDE DEF L, pots, amounts, cap
<1>7. PICK by, part : /\ by = [pot \in pots |-> Share(pot, players, rank, w)]
                      /\ part = [l \in L |-> by[m[l]]]
  OBVIOUS
<1>8. payouts[w] = IF Distributable(pots) THEN SumFunctionOnSet(by, pots) ELSE 0
  <2>1. payouts[w] = IF Distributable(pots)
            THEN MapThenSumSet(LAMBDA pot : Share(pot, players, rank, w), pots) ELSE 0
    BY <1>3 DEF DistributePots, pots
  <2>2. IsFiniteSet(pots)
    BY <1>4 DEF PotsAmong
  <2>3. \A p : MapThenSumSet(LAMBDA pot : Share(pot, players, rank, p), pots)
          = SumFunctionOnSet([pot \in pots |-> Share(pot, players, rank, p)], pots)
    BY <2>2, SharesAreSummed
  <2>4. QED
    BY <1>7, <2>1, <2>3
<1>9. ASSUME NEW l \in L
      PROVE  /\ part[l] \in Nat /\ part[l] <= amounts[l]
             /\ l \notin T \/ w \notin alive => part[l] = 0
  <2>1. PICK pot : pot = m[l]
    OBVIOUS
  <2>2. pot \in pots /\ pot.amount \in Nat /\ pot.eligible \in SUBSET D
        /\ part[l] = Share(pot, players, rank, w)
    BY <1>4, <1>7, <2>1 DEF PotsAmong
  <2>3. PICK f : f = [p \in D |-> Share(pot, players, rank, p)]
    OBVIOUS
  <2>4. /\ \A p \in D : f[p] \in Nat
        /\ SumFunctionOnSet(f, D) = IF pot.eligible = {} THEN 0 ELSE pot.amount
    BY <2>2, <2>3, SharesAddUp DEF ShowdownAmong
  <2>5. f[w] <= SumFunctionOnSet(f, D)
    BY <1>3, <2>4, SumCovers
  <2>6. part[l] \in Nat /\ part[l] <= pot.amount
    <3>1. part[l] = f[w] /\ f[w] \in Nat
      BY <2>2, <2>3, <2>4
    <3>2. QED
      BY <2>2, <2>4, <2>5, <3>1
  <2>7. ASSUME l \notin T \/ w \notin alive PROVE part[l] = 0
    <3>1. w \notin pot.eligible
      <4>1. l \in Nat /\ contrib[w] \in Nat
        BY LevelsOfBets, <1>3 DEF L
      <4>2. QED
        BY <1>2, <1>4, <2>1, <2>7, <4>1
    <3>2. QED
      BY <2>2, <3>1 DEF Share, PotWinners
  <2>8. QED
    BY <1>4, <2>1, <2>6, <2>7
<1>10. SumFunctionOnSet(by, pots) = SumFunctionOnSet(part, L)
  <2>1. \A l \in L : by[m[l]] \in Int
    BY <1>7, <1>9
  <2>2. SumFunctionOnSet(by, {m[l] : l \in L})
          = SumFunctionOnSet([l \in L |-> by[m[l]]], L)
    BY <1>3, <1>4, <2>1, SumOfImage
  <2>3. QED
    BY <1>4, <1>7, <2>2
<1>11. w \notin alive => SumFunctionOnSet(part, L) = 0
  BY <1>3, <1>9, SumOfZeros
<1>12. SumFunctionOnSet(part, L) <= cap
  <2>1. SumFunctionOnSet(part, L) = SumFunctionOnSet(part, T) + SumFunctionOnSet(part, L \ T)
    <3>1. \A l \in L : part[l] \in Int
      BY <1>9
    <3>2. QED
      BY <1>3, <3>1, SumSplits
  <2>2. SumFunctionOnSet(part, L \ T) = 0
    <3>1. IsFiniteSet(L \ T) /\ \A l \in L \ T : part[l] = 0
      BY <1>3, <1>9, FS_Subset
    <3>2. QED
      BY <3>1, SumOfZeros
  <2>3. SumFunctionOnSet(part, T) <= SumFunctionOnSet(amounts, T)
    <3>1. \A l \in T : part[l] \in Int /\ amounts[l] \in Int /\ part[l] <= amounts[l]
      BY <1>3, <1>5, <1>9
    <3>2. QED
      BY <1>3, <3>1, SumMonotone
  <2>4. SumFunctionOnSet(part, T) \in Int
    <3>1. \A l \in T : part[l] \in Int
      BY <1>3, <1>9
    <3>2. QED
      BY <1>3, <3>1, SumIsInt
  <2>5. QED
    BY <1>5, <1>6, <2>1, <2>2, <2>3, <2>4
<1>13. w \notin alive => payouts[w] = 0
  BY <1>8, <1>10, <1>11
<1>14. payouts[w] <= cap
  BY <1>6, <1>8, <1>10, <1>12
<1>15. QED
  BY <1>13, <1>14 DEF cap
=============================================================================
