------------------------- MODULE TransparentSendProofs -------------------------
(***************************************************************************)
(* The arithmetic of spending, for every set of coins, every amount, rate, *)
(* dust limit and size of inputs and outputs: what a selection, a spend, a *)
(* replacement and a consolidation pay, and that the maximum that is       *)
(* offered is the most that can be sent.                                   *)
(*                                                                         *)
(* The sums and searches of the model are recursive functions.  That one   *)
(* is defined, and adds up, follows from a least counterexample: a set of  *)
(* natural numbers has a least member.                                     *)
(***************************************************************************)
EXTENDS TransparentSend, FiniteSetTheorems, TLAPS

(***************************************************************************)
(* Naturals, least members, recursion on subsets                           *)
(***************************************************************************)
LEMMA SizesPositive ==
    /\ Dust \in Nat /\ Dust > 0 /\ Overhead \in Nat /\ Overhead > 0
    /\ InSize \in Nat /\ InSize > 0 /\ OutSize \in Nat /\ OutSize > 0
    /\ MaxRate \in Nat
BY SendAssumption

LEMMA ProductOfNaturals ==
    ASSUME NEW m \in Nat, NEW n \in Nat
    PROVE  m * n \in Nat
OBVIOUS

LEMMA BytesType ==
    ASSUME NEW inputs \in Nat, NEW outputs \in Nat
    PROVE  /\ Bytes(inputs, outputs) \in Nat /\ Bytes(inputs, outputs) > 0
           /\ Bytes(inputs, outputs + 1) = Bytes(inputs, outputs) + OutSize
<1>1. inputs * InSize \in Nat /\ outputs * OutSize \in Nat
  BY SizesPositive, ProductOfNaturals
<1>2. (outputs + 1) * OutSize = outputs * OutSize + OutSize
  BY SizesPositive
<1> QED
  BY <1>1, <1>2, SizesPositive DEF Bytes

LEMMA LeastNatural ==
    ASSUME NEW T, T \subseteq Nat, T # {}
    PROVE  \E n \in T : \A m \in T : n <= m
<1> DEFINE R == OpToRel(<, Nat)
<1>1. ASSUME NEW m \in Nat, NEW n \in Nat, m < n PROVE <<m, n>> \in R
  BY <1>1 DEF OpToRel
<1>2. IsWellFoundedOn(R, Nat)
  BY NatLessThanWellFounded
<1> HIDE DEF R
<1>3. PICK n \in T : \A m \in T : ~ <<m, n>> \in R
  BY <1>2, WFMin
<1>4. ASSUME NEW m \in T PROVE n <= m
  <2>1. ~ (m < n)
     BY <1>1, <1>3, Zenon
  <2> QED
     BY <2>1
<1> QED
  BY <1>4

\* f is the recursion on the subsets of S that starts from base and goes down.
Recursive(f, S, base, down, apply) ==
    \A s \in SUBSET S : f[s] = IF s = {} THEN base ELSE apply[s][f[down[s]]]

LEMMA SetRecursion ==
    ASSUME NEW S, IsFiniteSet(S), NEW Z, NEW base \in Z,
           NEW down \in [SUBSET S -> SUBSET S], NEW apply \in [SUBSET S -> [Z -> Z]],
           \A s \in SUBSET S : s # {} => down[s] # s /\ down[s] \subseteq s
    PROVE  \E f \in [SUBSET S -> Z] : Recursive(f, S, base, down, apply)
<1> DEFINE Small(n) == {s \in SUBSET S : Cardinality(s) <= n}
           Solves(f, n) == \A s \in Small(n) :
                f[s] = IF s = {} THEN base ELSE apply[s][f[down[s]]]
           Bad == {n \in Nat : ~ \E f \in [Small(n) -> Z] : Solves(f, n)}
<1>1. \A s \in SUBSET S : IsFiniteSet(s) /\ Cardinality(s) \in Nat /\ Cardinality(s) <= Cardinality(S)
  BY FS_Subset, FS_CardinalityType
<1>2. ASSUME NEW s \in SUBSET S, s # {}
      PROVE  Cardinality(down[s]) < Cardinality(s)
  <2>1. down[s] \subseteq s /\ down[s] # s /\ down[s] \in SUBSET s /\ down[s] \in SUBSET S
    BY <1>2
  <2> QED
    BY <2>1, <1>1, FS_Subset
<1>3. Bad = {}
  <2>1. SUFFICES ASSUME Bad # {} PROVE FALSE
    OBVIOUS
  <2>2. PICK n \in Bad : \A m \in Bad : n <= m
    <3>1. Bad \subseteq Nat
      OBVIOUS
    <3> HIDE DEF Bad
    <3> QED
      BY <2>1, <3>1, LeastNatural
  <2>3. CASE n = 0
    <3> DEFINE f == [s \in Small(0) |-> base]
    <3>1. \A s \in Small(0) : s = {}
      BY <1>1, FS_EmptySet
    <3>2. f \in [Small(0) -> Z] /\ Solves(f, 0)
      BY <3>1
    <3> QED
      BY <2>2, <2>3, <3>2
  <2>4. CASE n # 0
    <3>1. n - 1 \in Nat /\ n - 1 \notin Bad
      <4>1. n \in Nat
        BY <2>2
      <4> HIDE DEF Bad
      <4> QED
        BY <4>1, <2>2, <2>4
    <3>2. PICK f \in [Small(n - 1) -> Z] : Solves(f, n - 1)
      BY <3>1
    <3> DEFINE g == [s \in Small(n) |-> IF s = {} THEN base ELSE apply[s][f[down[s]]]]
    <3>3. \A s \in Small(n) : s # {} => down[s] \in Small(n - 1)
      BY <1>1, <1>2
    <3>4. \A s \in Small(n - 1) : s \in Small(n) /\ g[s] = f[s]
      BY <1>1, <2>2, <3>2
    <3>5. g \in [Small(n) -> Z]
      BY <3>3
    <3>6. ASSUME NEW s \in Small(n)
          PROVE  g[s] = IF s = {} THEN base ELSE apply[s][g[down[s]]]
      BY <3>3, <3>4
    <3> QED
      BY <2>2, <3>5, <3>6
  <2> QED
    BY <2>3, <2>4
<1>4. Small(Cardinality(S)) = SUBSET S
  BY <1>1
<1>5. Cardinality(S) \in Nat
  BY FS_CardinalityType
<1>6. PICK f \in [Small(Cardinality(S)) -> Z] : Solves(f, Cardinality(S))
  BY <1>3, <1>5
<1> HIDE DEF Small
<1> QED
  BY <1>4, <1>6 DEF Recursive

\* Induction on the subsets of a finite set; P is the set of those that have
\* the property.
LEMMA SubsetInduction ==
    ASSUME NEW S, IsFiniteSet(S), NEW P,
           \A s \in SUBSET S : (\A t \in SUBSET s : t # s => t \in P) => s \in P
    PROVE  \A s \in SUBSET S : s \in P
<1> DEFINE Bad == {s \in SUBSET S : s \notin P}
           Sizes == {Cardinality(s) : s \in Bad}
<1>1. \A s \in SUBSET S : IsFiniteSet(s) /\ Cardinality(s) \in Nat
  BY FS_Subset, FS_CardinalityType
<1>2. SUFFICES ASSUME Bad # {} PROVE FALSE
  OBVIOUS
<1>3. Sizes \subseteq Nat /\ Sizes # {}
  BY <1>1, <1>2
<1>4. PICK n \in Sizes : \A m \in Sizes : n <= m
  <2> HIDE DEF Sizes
  <2> QED
    BY <1>3, LeastNatural
<1>5. PICK s \in Bad : Cardinality(s) = n
  BY <1>4
<1>6. PICK t \in SUBSET s : t # s /\ t \notin P
  BY <1>5
<1>7. Cardinality(t) \in Sizes
  BY <1>5, <1>6
<1>8. Cardinality(t) < Cardinality(s)
  BY <1>1, <1>5, <1>6, FS_Subset
<1>9. n <= Cardinality(t) /\ n \in Nat /\ Cardinality(t) \in Nat
  <2> HIDE DEF Sizes
  <2> QED
    BY <1>3, <1>4, <1>7
<1> QED
  BY <1>5, <1>8, <1>9

LEMMA LeastAbove ==
    ASSUME NEW S, S \subseteq Int, S # {}, NEW b \in Int, \A x \in S : b <= x
    PROVE  Min(S) \in S /\ \A x \in S : Min(S) <= x
<1> DEFINE T == {n \in Nat : n + b \in S}
<1>1. T \subseteq Nat /\ T # {}
  <2>1. PICK x \in S : TRUE
    OBVIOUS
  <2>2. x - b \in Nat /\ (x - b) + b = x
    BY <2>1
  <2> QED
    BY <2>1, <2>2
<1>2. PICK n \in T : \A m \in T : n <= m
  <2> HIDE DEF T
  <2> QED
    BY <1>1, LeastNatural
<1>3. n + b \in S
  BY <1>2
<1>4. ASSUME NEW x \in S PROVE n + b <= x
  <2>1. x - b \in Nat /\ (x - b) + b = x
    BY <1>4
  <2>2. x - b \in T
    BY <2>1
  <2>3. n <= x - b
    BY <2>2, <1>2
  <2> QED
    BY <1>2, <2>1, <2>3
<1>5. \E y \in S : \A x \in S : y <= x
  BY <1>3, <1>4
<1> QED
  BY <1>5 DEF Min

LEMMA GreatestBelow ==
    ASSUME NEW S, S \subseteq Int, S # {}, NEW b \in Int, \A x \in S : x <= b
    PROVE  Max(S) \in S /\ \A x \in S : x <= Max(S)
<1> DEFINE T == {n \in Nat : b - n \in S}
<1>1. T \subseteq Nat /\ T # {}
  <2>1. PICK x \in S : TRUE
    OBVIOUS
  <2>2. b - x \in Nat /\ b - (b - x) = x
    BY <2>1
  <2> QED
    BY <2>1, <2>2
<1>2. PICK n \in T : \A m \in T : n <= m
  <2> HIDE DEF T
  <2> QED
    BY <1>1, LeastNatural
<1>3. b - n \in S
  BY <1>2
<1>4. ASSUME NEW x \in S PROVE x <= b - n
  <2>1. b - x \in Nat /\ b - (b - x) = x
    BY <1>4
  <2>2. b - x \in T
    BY <2>1
  <2>3. n <= b - x
    BY <2>2, <1>2
  <2> QED
    BY <1>2, <2>1, <2>3
<1>5. \E y \in S : \A x \in S : y >= x
  BY <1>3, <1>4
<1> QED
  BY <1>5 DEF Max

(***************************************************************************)
(* Sums                                                                    *)
(***************************************************************************)
AnyOf(s) == CHOOSE x \in s : TRUE

LEMMA TotalUnfolds ==
    ASSUME NEW s, s \subseteq Coin
    PROVE  /\ Total(s) \in Nat /\ Total({}) = 0
           /\ s # {} => Total(s) = Value[AnyOf(s)] + Total(s \ {AnyOf(s)})
<1> DEFINE down == [t \in SUBSET Coin |-> IF t = {} THEN t ELSE t \ {AnyOf(t)}]
           apply == [t \in SUBSET Coin |-> [z \in Nat |-> IF t = {} THEN z ELSE Value[AnyOf(t)] + z]]
<1>1. ASSUME NEW t \in SUBSET Coin, t # {}
      PROVE  AnyOf(t) \in t /\ Value[AnyOf(t)] \in Nat
  <2>1. AnyOf(t) \in t
    BY <1>1 DEF AnyOf
  <2> QED
    BY <2>1, SendAssumption
<1>2. down \in [SUBSET Coin -> SUBSET Coin] /\ apply \in [SUBSET Coin -> [Nat -> Nat]]
  BY <1>1
<1>3. \A t \in SUBSET Coin : t # {} => down[t] # t /\ down[t] \subseteq t
  BY <1>1
<1>4. PICK sum \in [SUBSET Coin -> Nat] : Recursive(sum, Coin, 0, down, apply)
  <2>1. IsFiniteSet(Coin) /\ 0 \in Nat
    BY SendAssumption
  <2> HIDE DEF down, apply
  <2> QED
    BY <1>2, <1>3, <2>1, SetRecursion
<1>5. sum[{}] = 0 /\ \A t \in SUBSET Coin : t # {} =>
         sum[t] = Value[AnyOf(t)] + sum[t \ {AnyOf(t)}] /\ t \ {AnyOf(t)} \in SUBSET Coin
  BY <1>1, <1>4 DEF Recursive
<1> HIDE DEF down, apply
<1>6. ASSUME NEW S, S \subseteq Coin
      PROVE  Total(S) = sum[S]
  <2> DEFINE Solves(f) == f = [t \in SUBSET S |->
                IF t = {} THEN 0
                ELSE LET x == CHOOSE x \in t : TRUE IN Value[x] + f[t \ {x}]]
  <2>1. Total(S) = (CHOOSE f : Solves(f))[S]
    BY DEF Total, MapThenSumSet, MapThenFoldSet
  <2>2. Solves([t \in SUBSET S |-> sum[t]])
    <3> DEFINE g == [t \in SUBSET S |-> sum[t]]
    <3>1. ASSUME NEW t \in SUBSET S
          PROVE  sum[t] = IF t = {} THEN 0
                ELSE LET x == CHOOSE x \in t : TRUE IN Value[x] + g[t \ {x}]
      <4>1. t # {} => g[t \ {AnyOf(t)}] = sum[t \ {AnyOf(t)}]
        OBVIOUS
      <4> HIDE DEF g
      <4> QED
        BY <1>5, <1>6, <4>1 DEF AnyOf
    <3>2. g = [t \in SUBSET S |-> IF t = {} THEN 0
                ELSE LET x == CHOOSE x \in t : TRUE IN Value[x] + g[t \ {x}]]
      BY <3>1
    <3> QED
      BY <3>2
  <2> DEFINE iter == CHOOSE f : Solves(f)
  <2>3. Solves(iter)
    <3> HIDE DEF Solves
    <3> QED
      BY <2>2
  <2>4. \A t \in SUBSET S : iter[t] = IF t = {} THEN 0 ELSE Value[AnyOf(t)] + iter[t \ {AnyOf(t)}]
    <3> HIDE DEF iter
    <3> QED
      BY <2>3 DEF AnyOf
  <2> HIDE DEF iter
  <2> DEFINE P == {t \in SUBSET S : iter[t] = sum[t]}
  <2>5. ASSUME NEW t \in SUBSET S, \A u \in SUBSET t : u # t => u \in P
        PROVE  t \in P
    <3>1. CASE t = {}
      BY <1>5, <2>4, <3>1
    <3>2. CASE t # {}
      <4>1. t \ {AnyOf(t)} \in P
        BY <1>1, <1>6, <2>5, <3>2
      <4>2. sum[t] = Value[AnyOf(t)] + sum[t \ {AnyOf(t)}]
        BY <1>5, <1>6, <3>2
      <4> QED
        BY <2>4, <3>2, <4>1, <4>2
    <3> QED
      BY <3>1, <3>2
  <2>6. S \in P
    <3>1. IsFiniteSet(S)
      BY <1>6, SendAssumption, FS_Subset
    <3> HIDE DEF P
    <3> QED
      BY <2>5, <3>1, SubsetInduction
  <2> QED
    BY <2>1, <2>6 DEF iter
<1>7. s \ {AnyOf(s)} \subseteq Coin /\ {} \subseteq Coin
  OBVIOUS
<1> QED
  BY <1>4, <1>5, <1>6, <1>7

LEMMA TotalType ==
    ASSUME NEW s, s \subseteq Coin
    PROVE  Total(s) \in Nat /\ Total({}) = 0
BY TotalUnfolds

LEMMA TotalWithout ==
    ASSUME NEW s, s \subseteq Coin, NEW c \in s
    PROVE  Total(s) = Value[c] + Total(s \ {c}) /\ Value[c] \in Nat
<1> DEFINE P == {t \in SUBSET Coin : \A d \in t : Total(t) = Value[d] + Total(t \ {d})}
<1>1. \A d \in Coin : Value[d] \in Nat
  BY SendAssumption
<1>2. ASSUME NEW t \in SUBSET Coin, \A u \in SUBSET t : u # t => u \in P
      PROVE  t \in P
  <2>1. SUFFICES ASSUME NEW d \in t PROVE Total(t) = Value[d] + Total(t \ {d})
    OBVIOUS
  <2> DEFINE a == AnyOf(t)
             u == (t \ {d}) \ {a}
  <2>2. a \in t /\ t # {}
    BY <2>1 DEF AnyOf
  <2>3. Total(t) = Value[a] + Total(t \ {a})
    BY <2>2, TotalUnfolds
  <2>4. CASE a = d
    BY <2>3, <2>4
  <2>5. CASE a # d
    <3>1. t \ {a} \in P /\ t \ {d} \in P
      BY <1>2, <2>1, <2>2
    <3>2. (t \ {a}) \ {d} = u /\ d \in t \ {a} /\ a \in t \ {d} /\ u \subseteq Coin
      BY <2>1, <2>2, <2>5
    <3>3. Total(t \ {a}) = Value[d] + Total(u) /\ Total(t \ {d}) = Value[a] + Total(u)
      BY <3>1, <3>2
    <3>4. Total(u) \in Nat /\ Value[a] \in Nat /\ Value[d] \in Nat
      BY <1>1, <1>2, <2>1, <2>2, <3>2, TotalType
    <3> HIDE DEF a, u
    <3> QED
      BY <2>3, <3>3, <3>4
  <2> QED
    BY <2>4, <2>5
<1>3. s \in P
  <2>1. IsFiniteSet(Coin)
    BY SendAssumption
  <2> HIDE DEF P
  <2> QED
    BY <1>2, <2>1, SubsetInduction
<1> QED
  BY <1>1, <1>3

LEMMA TotalOfParts ==
    ASSUME NEW t, t \subseteq Coin, NEW s, s \subseteq t
    PROVE  Total(t) = Total(s) + Total(t \ s)
<1> DEFINE P == {u \in SUBSET t : Total(t) = Total(u) + Total(t \ u)}
<1>1. ASSUME NEW u \in SUBSET t, \A v \in SUBSET u : v # u => v \in P
      PROVE  u \in P
  <2>1. CASE u = {}
    <3>1. Total(u) = 0 /\ Total(t) \in Nat
      BY <2>1, TotalType
    <3>2. t \ u = t
      BY <2>1
    <3>3. Total(t) = Total(u) + Total(t \ u)
      BY <3>1, <3>2
    <3> QED
      BY <1>1, <3>3
  <2>2. CASE u # {}
    <3>1. PICK a \in u : TRUE
      BY <2>2
    <3> DEFINE v == u \ {a}
    <3>2. v \in P
      BY <1>1, <3>1
    <3>3. a \in t \ v /\ (t \ v) \ {a} = t \ u /\ t \ v \subseteq Coin /\ u \subseteq Coin
      BY <1>1, <3>1
    <3>4. Total(t \ v) = Value[a] + Total(t \ u)
      BY <3>3, TotalWithout
    <3>5. Total(u) = Value[a] + Total(v) /\ Value[a] \in Nat
      BY <3>1, <3>3, TotalWithout
    <3>6. Total(t \ u) \in Nat /\ Total(v) \in Nat
      BY <1>1, TotalType
    <3>7. Total(t) = Total(v) + Total(t \ v)
      BY <3>2
    <3> HIDE DEF v
    <3> QED
      BY <3>4, <3>5, <3>6, <3>7
  <2> QED
    BY <2>1, <2>2
<1>2. s \in P
  <2>1. IsFiniteSet(t)
    BY SendAssumption, FS_Subset
  <2> HIDE DEF P
  <2> QED
    BY <1>1, <2>1, SubsetInduction
<1> QED
  BY <1>2

(***************************************************************************)
(* Sums of sequences: what FoldLeft adds up, from the last element.        *)
(***************************************************************************)
\* f adds up the weights w of sets of positions.
Sums(f, D, w) ==
    f = [s \in SUBSET D |-> IF s = {} THEN 0 ELSE f[s \ {Max(s)}] + w[Max(s)]]

LEMMA SumsAreNatural ==
    ASSUME NEW n \in Nat, NEW w \in [1 .. n -> Nat]
    PROVE  /\ \E f : Sums(f, 1 .. n, w)
           /\ \A f : Sums(f, 1 .. n, w) => f[1 .. n] \in Nat /\ f[{}] = 0
<1> DEFINE D == 1 .. n
           down == [s \in SUBSET D |-> IF s = {} THEN s ELSE s \ {Max(s)}]
           apply == [s \in SUBSET D |-> [z \in Nat |-> IF s = {} THEN z ELSE z + w[Max(s)]]]
<1>1. IsFiniteSet(D)
  BY FS_Interval
<1>2. ASSUME NEW s \in SUBSET D, s # {}
      PROVE  Max(s) \in s /\ Max(s) \in D /\ w[Max(s)] \in Nat
  <2>1. s \subseteq Int /\ n \in Int /\ \A x \in s : x <= n
    BY <1>2
  <2>2. Max(s) \in s
    BY <1>2, <2>1, GreatestBelow
  <2> QED
    BY <1>2, <2>2
<1> HIDE DEF D
<1>3. /\ down \in [SUBSET D -> SUBSET D] /\ apply \in [SUBSET D -> [Nat -> Nat]]
      /\ \A s \in SUBSET D : s # {} => down[s] # s /\ down[s] \subseteq s
  BY <1>2
<1>4. PICK sum \in [SUBSET D -> Nat] : Recursive(sum, D, 0, down, apply)
  <2> HIDE DEF down, apply
  <2>1. 0 \in Nat
    OBVIOUS
  <2> QED
    BY <1>1, <1>3, <2>1, SetRecursion
<1>5. ASSUME NEW s \in SUBSET D
      PROVE  sum[s] = IF s = {} THEN 0 ELSE sum[s \ {Max(s)}] + w[Max(s)]
  BY <1>2, <1>4 DEF Recursive
<1>6. Sums(sum, D, w)
  BY <1>4, <1>5 DEF Sums
<1>7. ASSUME NEW f, Sums(f, D, w) PROVE f[D] \in Nat /\ f[{}] = 0
  <2> DEFINE P == {s \in SUBSET D : f[s] \in Nat}
  <2>1. ASSUME NEW s \in SUBSET D, \A t \in SUBSET s : t # s => t \in P
        PROVE  s \in P
    <3>1. f[s] = IF s = {} THEN 0 ELSE f[s \ {Max(s)}] + w[Max(s)]
      BY <1>7 DEF Sums
    <3>2. CASE s = {}
      BY <3>1, <3>2
    <3>3. CASE s # {}
      <4>1. s \ {Max(s)} \in P /\ w[Max(s)] \in Nat
        BY <1>2, <2>1, <3>3
      <4> QED
        BY <3>1, <3>3, <4>1
    <3> QED
      BY <3>2, <3>3
  <2>2. \A s \in SUBSET D : s \in P
    <3> HIDE DEF P
    <3> QED
      BY <1>1, <2>1, SubsetInduction
  <2>3. D \in P
    BY <2>2, Zenon
  <2>4. f[{}] = 0
    BY <1>7 DEF Sums
  <2> QED
    BY <2>3, <2>4
<1> QED
  BY <1>6, <1>7 DEF D


LEMMA SumType ==
    ASSUME NEW n \in Nat, NEW w \in [1 .. n -> Nat]
    PROVE  Sum(w) \in Nat /\ (n = 0 => Sum(w) = 0)
<1> DEFINE Solves(f) == f = [s \in SUBSET (1 .. n) |->
                IF s = {} THEN 0 ELSE LET x == Max(s) IN f[s \ {x}] + w[x]]
<1>1. Sum(w) = (CHOOSE f : Solves(f))[1 .. n]
  BY DEF Sum, FoldLeft, MapThenFoldSet
<1>2. \A f : Solves(f) <=> Sums(f, 1 .. n, w)
  BY DEF Sums
<1>3. \E f : Solves(f)
  BY <1>2, SumsAreNatural
<1> DEFINE sum == CHOOSE f : Solves(f)
<1>4. Solves(sum)
  <2> HIDE DEF Solves
  <2> QED
    BY <1>3
<1> HIDE DEF sum, Solves
<1>5. sum[1 .. n] \in Nat /\ sum[{}] = 0
  BY <1>2, <1>4, SumsAreNatural
<1>6. n = 0 => 1 .. n = {}
  OBVIOUS
<1> QED
  BY <1>1, <1>5, <1>6 DEF sum

LEMMA AmountType ==
    ASSUME NEW n \in Nat, NEW outputs, DOMAIN outputs = 1 .. n,
           \A i \in 1 .. n : outputs[i].amount \in Nat
    PROVE  Amount(outputs) \in Nat /\ (n = 0 => Amount(outputs) = 0)
<1>1. [i \in DOMAIN outputs |-> outputs[i].amount] \in [1 .. n -> Nat]
  OBVIOUS
<1> QED
  BY <1>1, SumType DEF Amount

(***************************************************************************)
(* The binary search                                                       *)
(***************************************************************************)
\* What the search is in the middle of, and what it looks at next.
Middle(range) == (Min(range) + Max(range)) \div 2
Above(range) == {x \in range : x > Middle(range)}
Below(range) == {x \in range : x < Middle(range)}
Found(range, feasible, best) ==
    IF Middle(range) \in feasible THEN Larger(Middle(range), best) ELSE best

LEMMA MiddleIsInside ==
    ASSUME NEW low \in Nat, NEW high \in Int, NEW range \in SUBSET (low .. high), range # {}
    PROVE  Middle(range) \in low .. high /\ Middle(range) \in Nat
           /\ Above(range) # range /\ Below(range) # range
<1>1. /\ range \subseteq Int /\ range # {} /\ low \in Int
      /\ \A x \in range : low <= x
      /\ \A x \in range : x <= high
  OBVIOUS
<1>2. Min(range) \in range /\ \A x \in range : Min(range) <= x
  BY <1>1, LeastAbove
<1>8. Max(range) \in range /\ \A x \in range : x <= Max(range)
  BY <1>1, GreatestBelow
<1> DEFINE a == Min(range)
           b == Max(range)
           m == (a + b) \div 2
<1>3. a \in Nat /\ b \in Nat /\ low <= a /\ a <= b /\ b <= high
  <2>1. a \in low .. high /\ b \in low .. high
    BY <1>2, <1>8
  <2>2. a <= b
    BY <1>2, <1>8
  <2> HIDE DEF a, b
  <2> QED
    BY <2>1, <2>2
<1> HIDE DEF a, b
<1>4. m \in Nat /\ a <= m /\ m <= b
  BY <1>3
<1>5. Middle(range) = m
  BY DEF Middle, a, b
<1>6. a \notin Above(range) /\ b \notin Below(range)
  <2> HIDE DEF m
  <2> QED
    BY <1>3, <1>4, <1>5 DEF Above, Below
<1>7. m \in low .. high
  <2> HIDE DEF m
  <2> QED
    BY <1>3, <1>4
<1> HIDE DEF m
<1> QED
  BY <1>2, <1>4, <1>5, <1>6, <1>7, <1>8 DEF a, b

\* What the search finds is feasible; and if no amount is feasible above one
\* that is not, it is the most that is.
LEMMA SearchFinds ==
    ASSUME NEW low \in Nat, NEW high \in Int, NEW feasible
    PROVE  LET best == MaxFeasible(low, high, feasible)
           IN  /\ best = 0 \/ (best \in feasible /\ best \in low .. high)
               /\ (\A x, y \in low .. high : x < y /\ y \in feasible => x \in feasible)
                    => \A x \in low .. high : x \in feasible => x <= best
<1> DEFINE all == low .. high
           Z == {0} \cup {x \in all : x \in feasible}
           down == [r \in SUBSET all |->
                      IF r = {} THEN r ELSE IF Middle(r) \in feasible THEN Above(r) ELSE Below(r)]
           apply == [r \in SUBSET all |->
                      [z \in Z |-> IF r = {} THEN z ELSE Found(r, feasible, z)]]
           Solves(f) == f = [range \in SUBSET (low .. high) |->
              IF range = {} THEN 0
              ELSE LET mid == (Min(range) + Max(range)) \div 2
                   IN  IF mid \in feasible
                       THEN Larger(mid, f[{x \in range : x > mid}])
                       ELSE f[{x \in range : x < mid}]]
           best == MaxFeasible(low, high, feasible)
<1>1. best = (CHOOSE f : Solves(f))[all]
  BY DEF MaxFeasible
<1>2. IsFiniteSet(all)
  BY FS_Interval
<1>3. ASSUME NEW r \in SUBSET all, r # {}
      PROVE  /\ Middle(r) \in all /\ Middle(r) \in Nat
             /\ Above(r) # r /\ Below(r) # r /\ Above(r) \subseteq r /\ Below(r) \subseteq r
  BY <1>3, MiddleIsInside DEF Above, Below
<1>4. all \subseteq Nat
  OBVIOUS
<1> HIDE DEF all
<1>5. /\ down \in [SUBSET all -> SUBSET all]
      /\ \A r \in SUBSET all : r # {} => down[r] # r /\ down[r] \subseteq r
  BY <1>3
<1>6. 0 \in Z /\ Z \subseteq Nat
  <2>1. ASSUME NEW z \in Z PROVE z \in Nat
    BY <1>4
  <2> QED
    BY <2>1
<1>7. ASSUME NEW r \in SUBSET all, r # {}, NEW z \in Z
      PROVE  Found(r, feasible, z) \in Z
  <2>1. Found(r, feasible, z) = z \/ (Found(r, feasible, z) = Middle(r) /\ Middle(r) \in feasible)
    BY DEF Found, Larger
  <2> QED
    BY <1>3, <1>7, <2>1
<1> HIDE DEF Z
<1>8. apply \in [SUBSET all -> [Z -> Z]]
  BY <1>7
<1>9. PICK sum \in [SUBSET all -> Z] : Recursive(sum, all, 0, down, apply)
  <2> HIDE DEF down, apply
  <2> QED
    BY <1>2, <1>5, <1>6, <1>8, SetRecursion
<1> DEFINE Rest(r) == IF Middle(r) \in feasible THEN Above(r) ELSE Below(r)
<1>10. ASSUME NEW r \in SUBSET all
       PROVE  /\ r = {} => sum[r] = 0
              /\ r # {} => sum[r] = Found(r, feasible, sum[Rest(r)])
  BY <1>3, <1>9 DEF Recursive
<1>11. Solves(sum)
  <2>1. ASSUME NEW r \in SUBSET all
        PROVE  sum[r] = IF r = {} THEN 0
                        ELSE LET mid == (Min(r) + Max(r)) \div 2
                             IN  IF mid \in feasible
                                 THEN Larger(mid, sum[{x \in r : x > mid}])
                                 ELSE sum[{x \in r : x < mid}]
    BY <1>10 DEF Found, Middle, Above, Below
  <2> QED
    BY <1>9, <2>1 DEF all
<1>12. ASSUME NEW f, Solves(f) PROVE f[all] = sum[all]
  <2> DEFINE P == {r \in SUBSET all : f[r] = sum[r]}
  <2>1. ASSUME NEW r \in SUBSET all
        PROVE  /\ r = {} => f[r] = 0
               /\ r # {} => f[r] = Found(r, feasible, f[Rest(r)])
    BY <1>12 DEF all, Found, Middle, Above, Below
  <2> HIDE DEF Solves
  <2>2. ASSUME NEW r \in SUBSET all, \A t \in SUBSET r : t # r => t \in P
        PROVE  r \in P
    <3>1. CASE r = {}
      BY <1>10, <2>1, <3>1
    <3>2. CASE r # {}
      <4>1. Rest(r) \in P
        BY <1>3, <2>2, <3>2
      <4> QED
        BY <1>10, <2>1, <3>2, <4>1
    <3> QED
      BY <3>1, <3>2
  <2>3. \A r \in SUBSET all : r \in P
    <3> HIDE DEF P
    <3> QED
      BY <1>2, <2>2, SubsetInduction
  <2>4. all \in P
    BY <2>3, Zenon
  <2> QED
    BY <2>4
<1> HIDE DEF Solves
<1>13. best = sum[all] /\ best \in Z
  <2> HIDE DEF best
  <2> QED
    BY <1>1, <1>9, <1>11, <1>12
<1>14. ASSUME \A x, y \in all : x < y /\ y \in feasible => x \in feasible
       PROVE  \A x \in all : x \in feasible => x <= sum[all]
  <2> DEFINE P == {r \in SUBSET all : \A x \in r : x \in feasible => x <= sum[r]}
  <2>1. ASSUME NEW r \in SUBSET all, \A t \in SUBSET r : t # r => t \in P
        PROVE  r \in P
    <3>1. SUFFICES ASSUME NEW x \in r, x \in feasible PROVE x <= sum[r]
      OBVIOUS
    <3> DEFINE m == Middle(r)
               s == sum[Rest(r)]
    <3>2. x \in Nat /\ m \in Nat /\ m \in all /\ s \in Nat
      BY <1>3, <1>4, <1>6, <1>9, <3>1
    <3>3. Rest(r) \in P /\ sum[r] = Found(r, feasible, s)
      BY <1>3, <1>10, <2>1, <3>1
    <3> HIDE DEF m, s
    <3>4. CASE m \in feasible
      <4>1. sum[r] = Larger(m, s)
        BY <3>3, <3>4 DEF Found, m
      <4>2. x > m => x \in Rest(r)
        BY <3>1, <3>4 DEF Above, m
      <4>3. x > m => x <= s
        BY <3>1, <3>3, <4>2 DEF s
      <4> QED
        BY <3>2, <4>1, <4>3 DEF Larger
    <3>5. CASE m \notin feasible
      <4>1. sum[r] = s
        BY <3>3, <3>5 DEF Found, m
      <4>2. x < m
        BY <1>14, <2>1, <3>1, <3>2, <3>5
      <4>3. x \in Rest(r)
        BY <3>1, <3>5, <4>2 DEF Below, m
      <4> QED
        BY <3>1, <3>3, <4>1, <4>3 DEF s
    <3> QED
      BY <3>4, <3>5
  <2>2. \A r \in SUBSET all : r \in P
    <3> HIDE DEF P
    <3> QED
      BY <1>2, <2>1, SubsetInduction
  <2>3. all \in P
    BY <2>2, Zenon
  <2> QED
    BY <2>3
<1> HIDE DEF best
<1> QED
  BY <1>13, <1>14 DEF Z, all, best

(***************************************************************************)
(* Coin selection                                                          *)
(***************************************************************************)
LEMMA CoinsAreFinite ==
    ASSUME NEW s, s \subseteq Coin
    PROVE  IsFiniteSet(s) /\ Cardinality(s) \in Nat
BY SendAssumption, FS_Subset, FS_CardinalityType

\* A selection: inputs that pay for the outputs, with the fee and the change.
LEMMA FundType ==
    ASSUME NEW s, s \subseteq Coin, NEW target \in Nat, NEW n \in Nat, NEW rate \in Nat,
           Fund(s, target, n, rate) # None
    PROVE  LET f == Fund(s, target, n, rate)
           IN  /\ f = [inputs |-> s, fee |-> f.fee, change |-> f.change]
               /\ f.fee \in Nat /\ f.change \in Nat
<1> DEFINE plain == rate * Bytes(Cardinality(s), n)
           changed == rate * Bytes(Cardinality(s), n + 1)
           rest == Total(s) - target
<1>1. /\ Cardinality(s) \in Nat /\ Total(s) \in Nat /\ n + 1 \in Nat
  BY CoinsAreFinite, TotalType
<1>2. plain \in Nat /\ changed \in Nat /\ rest \in Int
  <2>1. /\ Bytes(Cardinality(s), n) \in Nat
        /\ Bytes(Cardinality(s), n + 1) \in Nat
    BY <1>1, BytesType
  <2> QED
    BY <1>1, <2>1, ProductOfNaturals
<1> HIDE DEF plain, changed, rest
<1>3. Fund(s, target, n, rate) = Settle(s, rest, plain, changed)
  BY DEF Fund, plain, changed, rest
<1> QED
  BY <1>2, <1>3, SizesPositive DEF Settle

Ways(coins, target, n, rate) == Funded(SUBSET coins, target, n, rate)

LEMMA WayFacts ==
    ASSUME NEW coins, coins \subseteq Coin, NEW target \in Nat, NEW n \in Nat, NEW rate \in Nat,
           NEW f \in Ways(coins, target, n, rate)
    PROVE  /\ f # None /\ f = Fund(f.inputs, target, n, rate)
           /\ f.inputs \subseteq coins /\ f.fee \in Nat /\ f.change \in Nat
           /\ Inputs(f) \in Nat /\ TotalInput(f) \in Nat
<1>1. PICK s \in SUBSET coins : f = Fund(s, target, n, rate) /\ f # None
  BY DEF Ways, Funded
<1>2. f.inputs = s /\ f.fee \in Nat /\ f.change \in Nat
  <2>1. s \subseteq Coin
    BY <1>1
  <2> QED
    BY <1>1, <2>1, FundType
<1>3. Cardinality(s) \in Nat /\ Total(s) \in Nat
  BY <1>1, CoinsAreFinite, TotalType
<1> QED
  BY <1>1, <1>2, <1>3 DEF Inputs, TotalInput

\* An order of the coins, as the coins up to each.
IsOrder(upto) ==
    \A c, d, e \in Coin :
        /\ c \in upto[c] /\ (c \in upto[d] \/ d \in upto[c])
        /\ c \in upto[d] /\ d \in upto[e] => c \in upto[e]
        /\ c \in upto[d] /\ d \in upto[c] => c = d

\* How many coins there are up to c.
Position(coins, upto, c) == Cardinality(coins \cap upto[c])

LEMMA LastCoin ==
    ASSUME NEW upto, IsOrder(upto), NEW s, s \subseteq Coin, s # {}
    PROVE  \E d \in s : s \subseteq upto[d]
<1> DEFINE sizes == {Position(Coin, upto, c) : c \in s}
<1>1. ASSUME NEW c \in Coin
      PROVE  Position(Coin, upto, c) \in Nat /\ Position(Coin, upto, c) <= Cardinality(Coin)
  <2>1. Coin \cap upto[c] \subseteq Coin /\ Coin \subseteq Coin
    OBVIOUS
  <2> QED
    BY <2>1, CoinsAreFinite, FS_Subset DEF Position
<1>2. /\ sizes \subseteq Int /\ sizes # {} /\ Cardinality(Coin) \in Int
      /\ \A x \in sizes : x <= Cardinality(Coin)
  <2>1. Cardinality(Coin) \in Nat
    BY CoinsAreFinite
  <2> QED
    BY <1>1, <2>1
<1>3. Max(sizes) \in sizes /\ \A x \in sizes : x <= Max(sizes)
  <2> HIDE DEF sizes
  <2> QED
    BY <1>2, GreatestBelow
<1>4. PICK d \in s : \A c \in s : Position(Coin, upto, c) <= Position(Coin, upto, d)
  BY <1>3
<1>5. ASSUME NEW c \in s, c \notin upto[d] PROVE FALSE
  <2>1. d \in upto[c] /\ c \in upto[c]
    BY <1>5 DEF IsOrder
  <2>2. Coin \cap upto[d] \subseteq Coin \cap upto[c]
    BY <1>5, <2>1 DEF IsOrder
  <2>3. c \in Coin \cap upto[c] /\ c \notin Coin \cap upto[d]
    BY <1>5, <2>1
  <2>4. Position(Coin, upto, d) <= Position(Coin, upto, c) /\ Position(Coin, upto, d) # Position(Coin, upto, c)
    <3>1. IsFiniteSet(Coin \cap upto[c])
      BY CoinsAreFinite
    <3>2. /\ Cardinality(Coin \cap upto[d]) <= Cardinality(Coin \cap upto[c])
          /\ Cardinality(Coin \cap upto[d]) # Cardinality(Coin \cap upto[c])
      BY <2>2, <2>3, <3>1, FS_Subset
    <3> QED
      BY <3>2 DEF Position
  <2> QED
    BY <1>1, <1>4, <1>5, <2>4
<1> QED
  BY <1>5

\* There is a coin with any number of coins up to it.
LEMMA EveryRank ==
    ASSUME NEW upto, IsOrder(upto), NEW coins, coins \subseteq Coin,
           NEW k \in 1 .. Cardinality(coins)
    PROVE  \E d \in coins : Position(coins, upto, d) = k
<1> DEFINE sizes == {Position(coins, upto, c) : c \in {d \in coins : Position(coins, upto, d) >= k}}
<1>1. ASSUME NEW c \in coins
      PROVE  Position(coins, upto, c) \in Nat /\ c \in upto[c]
  <2>1. coins \cap upto[c] \subseteq Coin
    OBVIOUS
  <2> QED
    BY <2>1, CoinsAreFinite DEF IsOrder, Position
<1>2. sizes # {} /\ sizes \subseteq Nat
  <2>1. coins # {}
    BY FS_EmptySet
  <2>2. PICK d \in coins : coins \subseteq upto[d]
    BY <2>1, LastCoin
  <2>3. coins \cap upto[d] = coins
    BY <2>2
  <2>4. Cardinality(coins) \in Nat
    BY CoinsAreFinite
  <2>5. Position(coins, upto, d) >= k
    BY <2>3, <2>4 DEF Position
  <2> QED
    BY <1>1, <2>5
<1>3. PICK m \in sizes : \A x \in sizes : m <= x
  <2> HIDE DEF sizes
  <2> QED
    BY <1>2, LeastNatural
<1>4. PICK d \in coins : Position(coins, upto, d) >= k /\ Position(coins, upto, d) = m
  BY <1>3
<1>7. \A c \in coins : IsFiniteSet(coins \cap upto[c])
  BY CoinsAreFinite
<1>5. ASSUME Position(coins, upto, d) > k PROVE FALSE
  <2> DEFINE rest == (coins \cap upto[d]) \ {d}
  <2>1. IsFiniteSet(rest) /\ Cardinality(rest) = Position(coins, upto, d) - 1
    BY <1>1, <1>4, <1>7, FS_RemoveElement DEF Position
  <2>2. rest # {} /\ rest \subseteq Coin /\ rest \subseteq coins
    BY <1>1, <1>4, <1>5, <2>1, FS_EmptySet
  <2>3. PICK e \in rest : rest \subseteq upto[e]
    <3> HIDE DEF rest
    <3> QED
      BY <2>2, LastCoin
  <2>4. rest \subseteq coins \cap upto[e] /\ e \in coins
    BY <2>2, <2>3
  <2>5. Cardinality(rest) <= Position(coins, upto, e)
    BY <1>7, <2>4, FS_Subset DEF Position
  <2>6. Position(coins, upto, e) >= k /\ Position(coins, upto, e) \in Nat
    BY <1>1, <1>4, <1>5, <2>1, <2>4, <2>5
  <2>7. Position(coins, upto, d) <= Position(coins, upto, e)
    BY <1>3, <1>4, <2>4, <2>6
  <2>8. coins \cap upto[e] \subseteq coins \cap upto[d] /\ d \notin coins \cap upto[e]
    <3>1. e \in upto[d] /\ e # d
      BY <2>3
    <3> QED
      BY <1>4, <2>4, <3>1 DEF IsOrder
  <2>9. Position(coins, upto, e) <= Position(coins, upto, d) /\ Position(coins, upto, e) # Position(coins, upto, d)
    <3>1. IsFiniteSet(coins \cap upto[d])
      BY <1>4, <1>7
    <3>2. d \in coins \cap upto[d]
      BY <1>1, <1>4
    <3>3. /\ Cardinality(coins \cap upto[e]) <= Cardinality(coins \cap upto[d])
          /\ Cardinality(coins \cap upto[e]) # Cardinality(coins \cap upto[d])
      BY <2>8, <3>1, <3>2, FS_Subset
    <3> QED
      BY <3>3 DEF Position
  <2> QED
    BY <1>1, <1>4, <2>4, <2>7, <2>9
<1>6. Position(coins, upto, d) = k
  BY <1>1, <1>4, <1>5
<1> QED
  BY <1>6

\* Before is the order of AccumBiggest; Prefix(coins, d) are the coins up to d.
Before(c, d) == Value[c] > Value[d] \/ (Value[c] = Value[d] /\ c <= d)
Prefix(coins, d) == {c \in coins : Before(c, d)}

LEMMA BeforeIsTotal ==
    ASSUME NEW c \in Coin, NEW d \in Coin, NEW e \in Coin
    PROVE  /\ Before(c, c) /\ (Before(c, d) \/ Before(d, c))
           /\ Before(c, d) /\ Before(d, e) => Before(c, e)
           /\ Before(c, d) /\ Before(d, c) => c = d
<1>1. /\ c \in Nat /\ d \in Nat /\ e \in Nat
      /\ Value[c] \in Nat /\ Value[d] \in Nat /\ Value[e] \in Nat
  BY SendAssumption
<1> QED
  BY <1>1 DEF Before

\* Of the prefixes that pay, the least is chosen, if there is one.
LEMMA FewestExists ==
    ASSUME NEW coins, coins \subseteq Coin, NEW target \in Nat, NEW n \in Nat, NEW rate \in Nat,
           NEW found, found = Funded({Prefix(coins, d) : d \in coins}, target, n, rate),
           found # {}
    PROVE  Fewest(found) \in found /\ found \subseteq Ways(coins, target, n, rate)
<1>1. found \subseteq Ways(coins, target, n, rate)
  BY DEF Funded, Ways, Prefix
<1>2. ASSUME NEW f \in found
      PROVE  /\ Inputs(f) \in Nat /\ f.inputs \subseteq coins
             /\ \E d \in coins : f.inputs = Prefix(coins, d)
  <2>1. PICK d \in coins : f = Fund(Prefix(coins, d), target, n, rate) /\ f # None
    BY DEF Funded
  <2>2. Prefix(coins, d) \subseteq Coin
    BY DEF Prefix
  <2>3. f.inputs = Prefix(coins, d)
    BY <2>1, <2>2, FundType
  <2> QED
    BY <1>1, <2>3, WayFacts
<1> DEFINE sizes == {Inputs(f) : f \in found}
<1>3. PICK k \in sizes : \A m \in sizes : k <= m
  <2>1. sizes \subseteq Nat /\ sizes # {}
    BY <1>2
  <2> HIDE DEF sizes
  <2> QED
    BY <2>1, LeastNatural
<1>4. PICK f \in found : Inputs(f) = k
  BY <1>3
<1>5. ASSUME NEW g \in found PROVE f.inputs \subseteq g.inputs
  <2>1. Inputs(f) <= Inputs(g)
    BY <1>3, <1>4, <1>5
  <2>2. PICK d \in coins, e \in coins : f.inputs = Prefix(coins, d) /\ g.inputs = Prefix(coins, e)
    BY <1>2, <1>5
  <2>3. f.inputs \subseteq g.inputs \/ g.inputs \subseteq f.inputs
    <3>1. ASSUME NEW a \in Coin, NEW b \in Coin, Before(a, b)
          PROVE  Prefix(coins, a) \subseteq Prefix(coins, b)
      BY <3>1, BeforeIsTotal DEF Prefix
    <3>2. Before(d, e) \/ Before(e, d)
      BY BeforeIsTotal
    <3> QED
      BY <2>2, <3>1, <3>2
  <2>4. g.inputs \subseteq f.inputs => g.inputs = f.inputs
    <3>1. IsFiniteSet(f.inputs) /\ Cardinality(f.inputs) \in Nat /\ Cardinality(g.inputs) \in Nat
      BY <1>2, <1>5, CoinsAreFinite
    <3> QED
      BY <2>1, <3>1, FS_Subset DEF Inputs
  <2> QED
    BY <2>3, <2>4
<1> QED
  BY <1>1, <1>5 DEF Fewest

LEMMA TotalBounds ==
    ASSUME NEW s, s \subseteq Coin, NEW v \in Nat
    PROVE  /\ (\A c \in s : v <= Value[c]) => Cardinality(s) * v <= Total(s)
           /\ (\A c \in s : Value[c] <= v) => Total(s) <= Cardinality(s) * v
<1> DEFINE P == {t \in SUBSET s :
               /\ (\A c \in t : v <= Value[c]) => Cardinality(t) * v <= Total(t)
               /\ (\A c \in t : Value[c] <= v) => Total(t) <= Cardinality(t) * v}
<1>1. ASSUME NEW t \in SUBSET s, \A u \in SUBSET t : u # t => u \in P
      PROVE  t \in P
  <2>1. CASE t = {}
    <3>1. Cardinality(t) = 0 /\ Total(t) = 0
      BY <2>1, FS_EmptySet, TotalType
    <3>2. 0 * v = 0
      OBVIOUS
    <3> QED
      BY <3>1, <3>2
  <2>2. CASE t # {}
    <3>1. PICK c \in t : TRUE
      BY <2>2
    <3> DEFINE u == t \ {c}
               k == Cardinality(u)
    <3>2. u \in P
      BY <1>1, <3>1
    <3>3. k \in Nat /\ Cardinality(t) = k + 1
      <4>1. IsFiniteSet(t) /\ Cardinality(t) \in Nat /\ Cardinality(u) \in Nat
        BY <1>1, CoinsAreFinite
      <4>2. Cardinality(u) = Cardinality(t) - 1
        BY <3>1, <4>1, FS_RemoveElement
      <4> HIDE DEF u
      <4> QED
        BY <4>1, <4>2
    <3>4. Total(t) = Value[c] + Total(u) /\ Value[c] \in Nat /\ Total(u) \in Nat
      <4>1. t \subseteq Coin /\ u \subseteq Coin
        OBVIOUS
      <4> QED
        BY <3>1, <4>1, TotalWithout, TotalType
    <3>5. /\ (\A d \in t : v <= Value[d]) => k * v <= Total(u) /\ v <= Value[c]
          /\ (\A d \in t : Value[d] <= v) => Total(u) <= k * v /\ Value[c] <= v
      BY <3>1, <3>2
    <3>6. (k + 1) * v = k * v + v /\ k * v \in Nat
      BY <3>3, ProductOfNaturals
    <3> HIDE DEF u, k, P
    <3>7. /\ (\A d \in t : v <= Value[d]) => Cardinality(t) * v <= Total(t)
          /\ (\A d \in t : Value[d] <= v) => Total(t) <= Cardinality(t) * v
      BY <3>3, <3>4, <3>5, <3>6
    <3> QED
      BY <3>7 DEF P
  <2> QED
    BY <2>1, <2>2
<1>2. \A t \in SUBSET s : t \in P
  <2>1. IsFiniteSet(s)
    BY CoinsAreFinite
  <2> HIDE DEF P
  <2> QED
    BY <1>1, <2>1, SubsetInduction
<1>3. s \in P
  BY <1>2, Zenon
<1> QED
  BY <1>3

LEMMA PrefixOfEverySize ==
    ASSUME NEW coins, coins \subseteq Coin, NEW k \in 1 .. Cardinality(coins)
    PROVE  \E d \in coins : Cardinality(Prefix(coins, d)) = k
<1> DEFINE upto == [d \in Coin |-> {c \in Coin : Before(c, d)}]
<1>1. IsOrder(upto)
  BY BeforeIsTotal DEF IsOrder
<1>2. ASSUME NEW d \in coins PROVE coins \cap upto[d] = Prefix(coins, d)
  BY DEF Prefix
<1> HIDE DEF upto
<1>3. PICK d \in coins : Position(coins, upto, d) = k
  BY <1>1, EveryRank
<1> QED
  BY <1>2, <1>3 DEF Position

\* No coins of the same number are worth more than the biggest.
LEMMA BiggestAreWorthMost ==
    ASSUME NEW coins, coins \subseteq Coin, NEW s \in SUBSET coins, NEW d \in coins,
           Cardinality(s) = Cardinality(Prefix(coins, d))
    PROVE  Total(s) <= Total(Prefix(coins, d))
<1> DEFINE p == Prefix(coins, d)
           more == p \ s
           less == s \ p
           v == Value[d]
<1>1. p \subseteq Coin /\ s \subseteq Coin /\ more \subseteq Coin /\ less \subseteq Coin
      /\ p \cap s \subseteq Coin
  BY DEF Prefix
<1>2. Cardinality(more) = Cardinality(less) /\ Cardinality(less) \in Nat
  <2>1. IsFiniteSet(p) /\ IsFiniteSet(s)
    BY <1>1, CoinsAreFinite
  <2>2. /\ Cardinality(more) = Cardinality(p) - Cardinality(p \cap s)
        /\ Cardinality(less) = Cardinality(s) - Cardinality(s \cap p)
    BY <2>1, FS_Difference
  <2>3. p \cap s = s \cap p
    OBVIOUS
  <2>4. Cardinality(less) \in Nat
    BY <1>1, CoinsAreFinite
  <2> QED
    BY <2>2, <2>3, <2>4
<1>3. \A c \in Coin : Value[c] \in Nat
  BY SendAssumption
<1>4. v \in Nat /\ \A c \in more : v <= Value[c]
  BY <1>3 DEF Prefix, Before
<1>5. \A c \in less : Value[c] <= v
  BY <1>3 DEF Prefix, Before
<1>6. Cardinality(more) * v <= Total(more) /\ Total(less) <= Cardinality(less) * v
  <2> HIDE DEF v, more, less
  <2> QED
    BY <1>1, <1>4, <1>5, TotalBounds
<1>7. Total(p) = Total(p \cap s) + Total(more) /\ Total(s) = Total(p \cap s) + Total(less)
  <2>1. p \ (p \cap s) = more /\ s \ (p \cap s) = less
    OBVIOUS
  <2>2. p \cap s \subseteq p /\ p \cap s \subseteq s
    OBVIOUS
  <2> QED
    BY <1>1, <2>1, <2>2, TotalOfParts
<1>8. /\ Total(more) \in Nat /\ Total(less) \in Nat /\ Total(p \cap s) \in Nat
      /\ Cardinality(less) * v \in Nat
  BY <1>1, <1>2, <1>4, TotalType, ProductOfNaturals
<1> HIDE DEF more, less, v, p
<1> QED
  BY <1>2, <1>6, <1>7, <1>8 DEF p

\* Inputs pay if they hold the outputs and the fee without a change output.
LEMMA FundsIff ==
    ASSUME NEW s, s \subseteq Coin, NEW target \in Nat, NEW n \in Nat, NEW rate \in Nat
    PROVE  Fund(s, target, n, rate) # None
             <=> Total(s) - target >= rate * Bytes(Cardinality(s), n)
<1> DEFINE plain == rate * Bytes(Cardinality(s), n)
           changed == rate * Bytes(Cardinality(s), n + 1)
           rest == Total(s) - target
<1>1. /\ Cardinality(s) \in Nat /\ Total(s) \in Nat /\ n + 1 \in Nat
  BY CoinsAreFinite, TotalType
<1>2. /\ plain \in Nat /\ changed \in Nat /\ plain <= changed /\ rest \in Int
  <2> DEFINE b == Bytes(Cardinality(s), n)
  <2>1. b \in Nat /\ Bytes(Cardinality(s), n + 1) = b + OutSize
    BY <1>1, BytesType
  <2> HIDE DEF b
  <2>2. rate * (b + OutSize) = rate * b + rate * OutSize
    BY <2>1, SizesPositive
  <2>3. rate * b \in Nat /\ rate * OutSize \in Nat
    BY <2>1, SizesPositive, ProductOfNaturals
  <2>4. plain = rate * b /\ changed = rate * b + rate * OutSize
    BY <2>1, <2>2 DEF b
  <2> HIDE DEF plain, changed
  <2> QED
    BY <1>1, <2>3, <2>4
<1> HIDE DEF plain, changed, rest
<1>3. Fund(s, target, n, rate) = Settle(s, rest, plain, changed)
  BY DEF Fund, plain, changed, rest
<1>4. ASSUME NEW fee \in Nat, NEW change \in Nat
      PROVE  [inputs |-> s, fee |-> fee, change |-> change] # None
  <2>1. [inputs |-> s, fee |-> fee, change |-> change] \in Selection
    BY DEF Selection
  <2> QED
    BY <2>1, SendAssumption
<1>5. CASE rest >= changed + Dust
  <2>1. rest - changed \in Nat /\ rest >= plain
    BY <1>2, <1>5, SizesPositive
  <2> QED
    BY <1>2, <1>3, <1>4, <1>5, <2>1 DEF Settle, rest, plain
<1>6. CASE ~ (rest >= changed + Dust) /\ rest >= plain
  <2>1. rest \in Nat
    BY <1>2, <1>6
  <2> QED
    BY <1>3, <1>4, <1>6, <2>1 DEF Settle, rest, plain
<1>7. CASE ~ (rest >= changed + Dust) /\ ~ (rest >= plain)
  BY <1>3, <1>7 DEF Settle, rest, plain
<1> QED
  BY <1>5, <1>6, <1>7

LEMMA AccumBiggestFacts ==
    ASSUME NEW coins, coins \subseteq Coin, NEW target \in Nat, NEW n \in Nat, NEW rate \in Nat
    PROVE  LET f == AccumBiggest(coins, target, n, rate)
           IN  /\ f # None => f \in Ways(coins, target, n, rate)
               /\ f = None => \A s \in (SUBSET coins) \ {{}} : Fund(s, target, n, rate) = None
<1> DEFINE found == Funded({Prefix(coins, d) : d \in coins}, target, n, rate)
<1>1. AccumBiggest(coins, target, n, rate) = Fewest(found)
  BY DEF AccumBiggest, Before, Prefix
<1>2. CASE found = {}
  <2>1. Fewest(found) = None
    BY <1>2 DEF Fewest
  <2>2. ASSUME NEW s \in (SUBSET coins) \ {{}}, Fund(s, target, n, rate) # None PROVE FALSE
    <3>1. s \subseteq Coin /\ IsFiniteSet(coins) /\ Cardinality(s) \in Nat /\ Cardinality(coins) \in Nat
      BY CoinsAreFinite
    <3>2. Cardinality(s) \in 1 .. Cardinality(coins)
      <4>1. Cardinality(s) <= Cardinality(coins)
        BY <3>1, FS_Subset
      <4>2. IsFiniteSet(s) /\ s # {}
        BY <3>1, CoinsAreFinite
      <4>3. Cardinality(s) # 0
        BY <4>2, FS_EmptySet
      <4> QED
        BY <3>1, <4>1, <4>3
    <3>3. PICK d \in coins : Cardinality(Prefix(coins, d)) = Cardinality(s)
      BY <3>2, PrefixOfEverySize
    <3> DEFINE p == Prefix(coins, d)
               need == rate * Bytes(Cardinality(s), n)
    <3>4. Total(s) <= Total(p) /\ p \subseteq Coin
      BY <3>3, BiggestAreWorthMost DEF Prefix
    <3>5. Total(s) \in Nat /\ Total(p) \in Nat /\ need \in Nat
      <4>1. Bytes(Cardinality(s), n) \in Nat
        BY <3>1, BytesType
      <4> QED
        BY <3>1, <3>4, <4>1, TotalType, ProductOfNaturals
    <3>6. Total(s) - target >= need
      BY <2>2, <3>1, FundsIff
    <3>7. Fund(p, target, n, rate) # None
      <4>1. need = rate * Bytes(Cardinality(p), n)
        BY <3>3
      <4> HIDE DEF need, p
      <4>2. Total(p) - target >= need
        BY <3>4, <3>5, <3>6
      <4> QED
        BY <3>4, <4>1, <4>2, FundsIff
    <3> QED
      BY <1>2, <3>7 DEF Funded
  <2> QED
    BY <1>1, <2>1, <2>2
<1>3. CASE found # {}
  <2>1. Fewest(found) \in found /\ found \subseteq Ways(coins, target, n, rate)
    BY <1>3, FewestExists
  <2>2. \A f \in Ways(coins, target, n, rate) : f # None
    BY DEF Ways, Funded
  <2> QED
    BY <1>1, <2>1, <2>2
<1> QED
  BY <1>2, <1>3

LEMMA SelectDefaultFacts ==
    ASSUME NEW coins, coins \subseteq Coin, NEW target \in Nat, NEW n \in Nat, NEW rate \in Nat
    PROVE  LET f == SelectDefault(coins, target, n, rate)
           IN  /\ f # None => f \in Ways(coins, target, n, rate)
               /\ f = None => \A s \in (SUBSET coins) \ {{}} : Fund(s, target, n, rate) = None
<1> DEFINE exact == {f \in Funded((SUBSET coins) \ {{}}, target, n, rate) :
                       f.change = 0 /\ f.fee < rate * Bytes(Cardinality(f.inputs), n) + Dust}
           other == AccumBiggest(coins, target, n, rate)
<1>1. SelectDefault(coins, target, n, rate) = AnyOr(exact, other)
  BY DEF SelectDefault
<1>2. exact \subseteq Ways(coins, target, n, rate) /\ \A f \in Ways(coins, target, n, rate) : f # None
  BY DEF Funded, Ways
<1> HIDE DEF exact, other
<1>3. CASE exact = {}
  <2>1. AnyOr(exact, other) = other
    BY <1>3 DEF AnyOr
  <2> QED
    BY <1>1, <2>1, AccumBiggestFacts DEF other
<1>4. CASE exact # {}
  <2>1. AnyOr(exact, other) \in exact
    BY <1>4 DEF AnyOr
  <2> QED
    BY <1>1, <1>2, <2>1
<1> QED
  BY <1>3, <1>4

\* The order by three numbers, and the least in that order.
AtMost(a, b, c, x, y) ==
    \/ a[x] < a[y]
    \/ a[x] = a[y] /\ (b[x] < b[y] \/ (b[x] = b[y] /\ c[x] <= c[y]))

LEMMA LeastOfThree ==
    ASSUME NEW T, T # {}, NEW a \in [T -> Nat], NEW b \in [T -> Nat], NEW c \in [T -> Nat]
    PROVE  \E x \in T : \A y \in T : AtMost(a, b, c, x, y)
<1>1. ASSUME NEW U, U \subseteq T, U # {}, NEW w \in [T -> Nat]
      PROVE  \E x \in U : \A y \in U : w[x] <= w[y]
  <2> DEFINE N == {w[x] : x \in U}
  <2>1. N \subseteq Nat /\ N # {}
    BY <1>1
  <2>2. PICK m \in N : \A k \in N : m <= k
    <3> HIDE DEF N
    <3> QED
      BY <2>1, LeastNatural
  <2> QED
    BY <2>2
<1>2. PICK x \in T : \A y \in T : a[x] <= a[y]
  BY <1>1
<1> DEFINE U == {y \in T : a[y] = a[x]}
<1>3. PICK u \in U : \A y \in U : b[u] <= b[y]
  <2>1. U \subseteq T /\ U # {}
    OBVIOUS
  <2> HIDE DEF U
  <2> QED
    BY <1>1, <2>1
<1> DEFINE V == {y \in U : b[y] = b[u]}
<1>4. PICK v \in V : \A y \in V : c[v] <= c[y]
  <2>1. V \subseteq T /\ V # {}
    OBVIOUS
  <2> HIDE DEF V
  <2> QED
    BY <1>1, <2>1
<1>5. ASSUME NEW y \in T
      PROVE  AtMost(a, b, c, v, y)
  <2>1. a[v] = a[x] /\ b[v] = b[u] /\ a[x] <= a[y]
    BY <1>2, <1>4
  <2>2. a[y] = a[x] => b[u] <= b[y]
    BY <1>3
  <2>3. a[y] = a[x] /\ b[y] = b[u] => c[v] <= c[y]
    BY <1>4
  <2>4. /\ a[v] \in Nat /\ a[y] \in Nat /\ b[v] \in Nat /\ b[y] \in Nat
    OBVIOUS
  <2> QED
    BY <2>1, <2>2, <2>3, <2>4 DEF AtMost
<1> QED
  BY <1>4, <1>5

LEMMA OptimizedFacts ==
    ASSUME NEW T, T # {}, \A f \in T : f.fee \in Nat /\ Inputs(f) \in Nat /\ TotalInput(f) \in Nat
    PROVE  Optimized(T) \in T
<1> DEFINE fees == [f \in T |-> f.fee]
           sizes == [f \in T |-> Inputs(f)]
           sums == [f \in T |-> TotalInput(f)]
           best == Cheapest(T)
           E == Eligible(T, best)
<1>1. best \in T
  <2>1. fees \in [T -> Nat] /\ sizes \in [T -> Nat] /\ sums \in [T -> Nat]
    OBVIOUS
  <2> HIDE DEF fees, sizes, sums
  <2>2. PICK f \in T : \A g \in T : AtMost(fees, sizes, sums, f, g)
    BY <2>1, LeastOfThree
  <2>3. \A g \in T : Cheaper(f, g)
    BY <2>2 DEF AtMost, Cheaper, fees, sizes, sums
  <2> QED
    BY <2>3 DEF Cheapest
<1>2. best \in E /\ E \subseteq T
  <2> HIDE DEF best
  <2>1. best.fee <= best.fee + MaxPremium(best.fee)
    <3>1. best.fee \div 4 \in Nat /\ PremiumCap \in Nat
      BY <1>1, SendAssumption
    <3>2. MaxPremium(best.fee) \in Nat
      BY <3>1 DEF MaxPremium, Lesser
    <3> QED
      BY <1>1, <3>2
  <2> QED
    BY <1>1, <2>1 DEF Eligible
<1>3. Leanest(E) \in E
  <2> DEFINE fees2 == [f \in E |-> f.fee]
             sizes2 == [f \in E |-> Inputs(f)]
             sums2 == [f \in E |-> TotalInput(f)]
  <2> HIDE DEF E
  <2>1. fees2 \in [E -> Nat] /\ sizes2 \in [E -> Nat] /\ sums2 \in [E -> Nat] /\ E # {}
    BY <1>2
  <2> HIDE DEF fees2, sizes2, sums2
  <2>2. PICK f \in E : \A g \in E : AtMost(sizes2, sums2, fees2, f, g)
    BY <2>1, LeastOfThree
  <2>3. \A g \in E : Leaner(f, g)
    BY <2>2 DEF AtMost, Leaner, fees2, sizes2, sums2
  <2> QED
    BY <2>3 DEF Leanest
<1> HIDE DEF best, E
<1> QED
  BY <1>2, <1>3 DEF Optimized, best, E

LEMMA SelectSpendFacts ==
    ASSUME NEW coins, coins \subseteq Coin, NEW target \in Nat, NEW n \in Nat, NEW rate \in Nat,
           NEW optimize \in BOOLEAN
    PROVE  LET f == SelectSpend(coins, target, n, rate, optimize)
           IN  /\ f # None => f \in Ways(coins, target, n, rate)
               /\ f = None => \A s \in (SUBSET coins) \ {{}} : Fund(s, target, n, rate) = None
<1> DEFINE W == Ways(coins, target, n, rate)
           first == SelectDefault(coins, target, n, rate)
           accum == AccumBiggest(coins, target, n, rate)
           single == {SelectDefault({c}, target, n, rate) : c \in {d \in coins : Value[d] > target}}
           all == ({first, accum} \cup single) \ {None}
           f == SelectSpend(coins, target, n, rate, optimize)
<1>1. f = IF first = None \/ ~optimize \/ Cardinality(coins) <= 1 THEN first ELSE Optimized(all)
  BY DEF SelectSpend, Selected
<1>2. /\ first # None => first \in W
      /\ first = None => \A s \in (SUBSET coins) \ {{}} : Fund(s, target, n, rate) = None
  BY SelectDefaultFacts
<1>3. accum # None => accum \in W
  BY AccumBiggestFacts
<1>4. ASSUME NEW g \in single, g # None PROVE g \in W
  <2>1. PICK c \in coins : g = SelectDefault({c}, target, n, rate)
    BY <1>4
  <2>2. {c} \subseteq Coin
    BY <2>1
  <2>3. g \in Ways({c}, target, n, rate)
    BY <1>4, <2>1, <2>2, SelectDefaultFacts
  <2> QED
    BY <2>1, <2>3 DEF Ways, Funded
<1>5. all \subseteq W
  <2> HIDE DEF W, first, accum, single
  <2> QED
    BY <1>2, <1>3, <1>4
<1>6. \A g \in W : g # None /\ g.fee \in Nat /\ Inputs(g) \in Nat /\ TotalInput(g) \in Nat
  BY WayFacts
<1>7. first # None => Optimized(all) \in W /\ Optimized(all) # None
  <2> SUFFICES ASSUME first # None PROVE Optimized(all) \in W /\ Optimized(all) # None
    OBVIOUS
  <2>1. first \in all
    OBVIOUS
  <2> HIDE DEF all, W
  <2>2. all # {} /\ \A g \in all : g.fee \in Nat /\ Inputs(g) \in Nat /\ TotalInput(g) \in Nat
    BY <1>5, <1>6, <2>1
  <2>3. Optimized(all) \in all
    BY <2>2, OptimizedFacts
  <2> QED
    BY <1>5, <1>6, <2>3
<1> HIDE DEF first, all, W, f
<1> QED
  BY <1>1, <1>2, <1>7 DEF f, W

\* An amount fits exactly if some coins hold it and the fee of a transaction
\* without change: selecting the biggest overlooks nothing.
LEMMA FitsIff ==
    ASSUME NEW coins, coins \subseteq Coin, NEW target \in Nat, NEW n \in Nat,
           NEW rate \in Nat \ {0}
    PROVE  Fits(coins, target, n, rate) <=>
             \E s \in SUBSET coins :
                Total(s) - target >= rate * Bytes(Cardinality(s), n)
<1> DEFINE f == SelectSpend(coins, target, n, rate, FALSE)
<1>1. ASSUME f # None
      PROVE  \E s \in SUBSET coins : Total(s) - target >= rate * Bytes(Cardinality(s), n)
  <2>1. f \in Ways(coins, target, n, rate)
    BY <1>1, SelectSpendFacts
  <2> HIDE DEF f
  <2>2. f.inputs \subseteq coins /\ Fund(f.inputs, target, n, rate) # None /\ f.inputs \subseteq Coin
    BY <2>1, WayFacts
  <2>3. Total(f.inputs) - target >= rate * Bytes(Cardinality(f.inputs), n)
    BY <2>2, FundsIff
  <2> QED
    BY <2>2, <2>3
<1>2. ASSUME NEW s \in SUBSET coins, Total(s) - target >= rate * Bytes(Cardinality(s), n)
      PROVE  f # None
  <2>1. s \subseteq Coin
    OBVIOUS
  <2>2. Fund(s, target, n, rate) # None
    BY <1>2, <2>1, FundsIff
  <2>3. s # {}
    <3>1. SUFFICES ASSUME s = {} PROVE FALSE
      OBVIOUS
    <3> DEFINE b == Bytes(0, n)
    <3>2. b \in Nat /\ b > 0
      BY BytesType
    <3>3. Total(s) = 0 /\ Cardinality(s) = 0
      BY <3>1, TotalType, FS_EmptySet
    <3>4. 0 - target >= rate * b
      BY <1>2, <3>3
    <3> HIDE DEF b
    <3>5. rate * b = (rate - 1) * b + b /\ (rate - 1) * b \in Nat
      BY <3>2, ProductOfNaturals
    <3> QED
      BY <3>2, <3>4, <3>5
  <2>4. s \in (SUBSET coins) \ {{}} /\ FALSE \in BOOLEAN
    BY <2>3
  <2>5. rate \in Nat
    OBVIOUS
  <2>6. f = None => \A t \in (SUBSET coins) \ {{}} : Fund(t, target, n, rate) = None
    BY <2>4, <2>5, SelectSpendFacts, ZenonT(30)
  <2> QED
    BY <2>2, <2>4, <2>6
<1> QED
  BY <1>1, <1>2 DEF Fits

\* MAX is the most that can be sent, for every set of coins: it can be sent,
\* and nothing above it can (calculateMaxTransparentSendAmount,
\* transparentSend.ts:513-553).
THEOREM MaximumIsMost ==
    ASSUME NEW coins, coins \subseteq Coin, NEW fixed \in Nat, NEW n \in Nat,
           NEW rate \in Nat \ {0}
    PROVE  LET max == CalculateMax(coins, fixed, n, rate)
           IN  /\ max \in Nat /\ (max # 0 => max >= Dust /\ Fits(coins, fixed + max, n, rate))
               /\ \A amount \in Nat :
                    amount >= Dust /\ Fits(coins, fixed + amount, n, rate) => amount <= max
<1> DEFINE high == Total(coins) - fixed
           feasible == {amount \in Nat : Fits(coins, fixed + amount, n, rate)}
           max == CalculateMax(coins, fixed, n, rate)
<1>1. max = MaxFeasible(Dust, high, feasible)
  BY DEF CalculateMax
<1>2. Dust \in Nat /\ Dust > 0 /\ high \in Int /\ Total(coins) \in Nat
  BY SizesPositive, TotalType
<1>3. ASSUME NEW amount \in Nat, Fits(coins, fixed + amount, n, rate)
      PROVE  /\ amount <= high
             /\ \A less \in Nat : less <= amount => Fits(coins, fixed + less, n, rate)
  <2>1. PICK s \in SUBSET coins :
               Total(s) - (fixed + amount) >= rate * Bytes(Cardinality(s), n)
    <3>1. fixed + amount \in Nat
      OBVIOUS
    <3> QED
      BY <1>3, <3>1, FitsIff
  <2> DEFINE need == rate * Bytes(Cardinality(s), n)
  <2>2. need \in Nat /\ Total(s) \in Nat
    <3>1. s \subseteq Coin
      OBVIOUS
    <3>2. Bytes(Cardinality(s), n) \in Nat
      BY <3>1, CoinsAreFinite, BytesType
    <3> QED
      BY <3>1, <3>2, TotalType, ProductOfNaturals
  <2>3. Total(s) <= Total(coins)
    <3>1. Total(coins) = Total(s) + Total(coins \ s)
      BY TotalOfParts
    <3>2. Total(coins \ s) \in Nat
      BY TotalType
    <3> QED
      BY <1>2, <2>2, <3>1, <3>2
  <2>4. Total(s) - (fixed + amount) >= need
    BY <2>1
  <2> HIDE DEF need
  <2>5. amount <= high
    BY <1>2, <2>2, <2>3, <2>4
  <2>6. ASSUME NEW less \in Nat, less <= amount PROVE Fits(coins, fixed + less, n, rate)
    <3>1. Total(s) - (fixed + less) >= need /\ fixed + less \in Nat
      BY <2>2, <2>4, <2>6
    <3> QED
      BY <3>1, FitsIff DEF need
  <2> HIDE DEF high
  <2> QED
    BY <2>5, <2>6
<1> HIDE DEF high, max
<1>4. \A x, y \in Dust .. high : x < y /\ y \in feasible => x \in feasible
  <2>1. ASSUME NEW x \in Dust .. high, NEW y \in Dust .. high, x < y, y \in feasible
        PROVE  x \in feasible
    <3>1. x \in Nat /\ y \in Nat /\ x <= y
      BY <1>2, <2>1
    <3> QED
      BY <1>3, <2>1, <3>1
  <2> QED
    BY <2>1
<1> HIDE DEF feasible
<1>5. /\ max = 0 \/ (max \in feasible /\ max \in Dust .. high)
      /\ \A x \in Dust .. high : x \in feasible => x <= max
  BY <1>1, <1>2, <1>4, SearchFinds
<1>6. max \in Nat /\ (max # 0 => max >= Dust /\ Fits(coins, fixed + max, n, rate))
  BY <1>2, <1>5 DEF feasible
<1>7. ASSUME NEW amount \in Nat, amount >= Dust, Fits(coins, fixed + amount, n, rate)
      PROVE  amount <= max
  <2>1. amount \in Dust .. high /\ amount \in feasible
    BY <1>2, <1>3, <1>7 DEF feasible
  <2> QED
    BY <1>5, <2>1
<1> QED
  BY <1>6, <1>7 DEF max

\* Inputs that pay for the outputs pay them exactly: inputs = outputs + fee +
\* change.  The change is none or more than dust, the fee is at least the rate
\* for the size of the transaction, and without change it is less than the fee
\* with a change output and the dust limit above it
\* (btc.selectUTXO, as transparentSend.ts:359-465 calls it).
THEOREM SelectionConserves ==
    ASSUME NEW inputs, inputs \subseteq Coin,
           NEW target \in Nat, NEW n \in Nat, NEW rate \in Nat,
           Fund(inputs, target, n, rate) # None
    PROVE  LET f == Fund(inputs, target, n, rate)
               made == IF f.change = 0 THEN n ELSE n + 1
           IN  /\ Total(inputs) = target + f.fee + f.change
               /\ f.change = 0 \/ f.change >= Dust
               /\ f.fee >= rate * Bytes(Cardinality(inputs), made)
               /\ f.fee < rate * Bytes(Cardinality(inputs), n + 1) + Dust
<1> DEFINE rest == Total(inputs) - target
           plain == rate * Bytes(Cardinality(inputs), n)
           changed == rate * Bytes(Cardinality(inputs), n + 1)
           f == Fund(inputs, target, n, rate)
           made == IF f.change = 0 THEN n ELSE n + 1
<1>0. Total(inputs) \in Nat /\ Cardinality(inputs) \in Nat
  BY TotalType, CoinsAreFinite
<1>1. plain \in Nat /\ changed \in Nat /\ rest \in Int /\ Total(inputs) = target + rest
  <2>1. n + 1 \in Nat
    OBVIOUS
  <2>2. /\ Bytes(Cardinality(inputs), n) \in Nat
        /\ Bytes(Cardinality(inputs), n + 1) \in Nat
    BY <1>0, <2>1, BytesType
  <2>3. plain \in Nat /\ changed \in Nat
    BY <2>2, ProductOfNaturals
  <2> QED
    BY <1>0, <2>3
<1>2. rate * Bytes(Cardinality(inputs), made) = IF f.change = 0 THEN plain ELSE changed
  OBVIOUS
<1>3. f = Settle(inputs, rest, plain, changed) /\ f # None
  BY DEF Fund
<1> HIDE DEF rest, plain, changed, f, made
<1>4. CASE rest >= changed + Dust
  <2>1. f.fee = changed /\ f.change = rest - changed
    BY <1>3, <1>4 DEF Settle
  <2>2. f.change # 0 /\ f.change >= Dust
    BY <1>1, <1>4, <2>1, SizesPositive
  <2>3. /\ Total(inputs) = target + f.fee + f.change
        /\ f.fee >= rate * Bytes(Cardinality(inputs), made)
        /\ f.fee < changed + Dust
    BY <1>1, <1>2, <2>1, <2>2, SizesPositive
  <2> QED
    BY <2>2, <2>3 DEF f, made, changed
<1>5. CASE ~(rest >= changed + Dust) /\ rest >= plain
  <2>1. f.fee = rest /\ f.change = 0
    BY <1>3, <1>5 DEF Settle
  <2>2. /\ Total(inputs) = target + f.fee + f.change
        /\ f.fee >= rate * Bytes(Cardinality(inputs), made)
        /\ f.fee < changed + Dust
    BY <1>1, <1>2, <1>5, <2>1, SizesPositive
  <2> QED
    BY <2>1, <2>2 DEF f, made, changed
<1>6. CASE ~(rest >= changed + Dust) /\ ~(rest >= plain)
  BY <1>3, <1>6 DEF Settle
<1> QED
  BY <1>4, <1>5, <1>6


(***************************************************************************)
(* Transactions                                                            *)
(***************************************************************************)
\* A transaction that is built spends coins of the wallet, pays the outputs it
\* was asked for, and pays a fee that is at least the rate for its size; the
\* rest comes back to the change address, unless it would be dust
\* (buildTransparentTx, transparentSend.ts).
THEOREM SpendAddsUp ==
    ASSUME NEW coins, coins \subseteq Coin, NEW outputs, Amount(outputs) \in Nat, NEW rate,
           NEW change, BuildSend(coins, outputs, rate, change) # None
    PROVE  LET tx == BuildSend(coins, outputs, rate, change)
           IN  /\ tx = [inputs |-> tx.inputs, outputs |-> outputs, own |-> tx.own,
                        pieces |-> tx.pieces, ownValue |-> tx.ownValue, fee |-> tx.fee]
               /\ tx.inputs \subseteq coins /\ ValidRate(rate)
               /\ Total(tx.inputs) = Amount(outputs) + tx.ownValue + tx.fee
               /\ tx.fee \in Nat /\ tx.fee >= rate * VSize(tx)
               /\ \/ tx.own = None /\ tx.pieces = 0 /\ tx.ownValue = 0
                  \/ tx.own = change /\ tx.pieces = 1 /\ tx.ownValue \in Nat /\ tx.ownValue >= Dust
<1> DEFINE n == Len(outputs)
           target == Amount(outputs)
           f == SelectSpend(coins, target, n, rate, TRUE)
           tx == BuildSend(coins, outputs, rate, change)
<1>0. ValidRate(rate)
  BY DEF BuildSend
<1>1. n \in Nat /\ rate \in Nat
  <2>1. ValidRate(rate) /\ Sendable(outputs)
    BY DEF BuildSend
  <2>2. n \in 1 .. MaxRecipients /\ MaxRecipients \in Nat /\ rate \in 1 .. MaxRate /\ MaxRate \in Nat
    BY <2>1, SendAssumption DEF Sendable, ValidRate
  <2> HIDE DEF n
  <2> QED
    BY <2>2
<1>2. tx = Paying(f, outputs, change) /\ f # None /\ target \in Nat
  BY DEF BuildSend, Paying
<1> HIDE DEF n, target, f, tx
<1>3. f \in Ways(coins, target, n, rate)
  <2>1. TRUE \in BOOLEAN
    OBVIOUS
  <2> QED
    BY <1>1, <1>2, <2>1, SelectSpendFacts DEF f
<1>4. /\ f = Fund(f.inputs, target, n, rate) /\ f.inputs \subseteq coins
      /\ f.fee \in Nat /\ f.change \in Nat
  BY <1>1, <1>2, <1>3, WayFacts
<1>5. Total(f.inputs) \in Nat /\ Cardinality(f.inputs) \in Nat
  <2>1. f.inputs \subseteq Coin
    BY <1>4
  <2> QED
    BY <2>1, TotalType, CoinsAreFinite
<1>6. /\ Total(f.inputs) = target + f.fee + f.change
      /\ f.change = 0 \/ f.change >= Dust
      /\ f.fee >= rate * Bytes(Cardinality(f.inputs), IF f.change = 0 THEN n ELSE n + 1)
  <2>1. Fund(f.inputs, target, n, rate) # None /\ f.inputs \subseteq Coin
    BY <1>2, <1>4
  <2> QED
    BY <1>1, <1>2, <1>4, <2>1, SelectionConserves
<1>7. CASE f.change = 0
  <2>1. tx = Transaction(f.inputs, outputs, None, 0, 0)
    BY <1>2, <1>7 DEF Paying
  <2>2. /\ tx.inputs = f.inputs /\ tx.outputs = outputs /\ tx.own = None /\ tx.pieces = 0
        /\ tx.ownValue = 0 /\ tx.fee = Total(f.inputs) - target - 0
    BY <2>1 DEF Transaction, target
  <2>5. tx = [inputs |-> tx.inputs, outputs |-> outputs, own |-> tx.own,
              pieces |-> tx.pieces, ownValue |-> tx.ownValue, fee |-> tx.fee]
    BY <2>1 DEF Transaction
  <2>3. tx.fee = f.fee
    BY <1>2, <1>4, <1>5, <1>6, <1>7, <2>2
  <2>4. VSize(tx) = Bytes(Cardinality(f.inputs), n)
    BY <1>1, <2>2 DEF VSize, n
  <2> QED
    BY <1>0, <1>2, <1>4, <1>6, <1>7, <2>2, <2>3, <2>4, <2>5 DEF tx, target
<1>8. CASE f.change # 0
  <2>1. tx = Transaction(f.inputs, outputs, change, 1, f.change)
    BY <1>2, <1>8 DEF Paying
  <2>2. /\ tx.inputs = f.inputs /\ tx.outputs = outputs /\ tx.own = change /\ tx.pieces = 1
        /\ tx.ownValue = f.change /\ tx.fee = Total(f.inputs) - target - f.change
    BY <2>1 DEF Transaction, target
  <2>5. tx = [inputs |-> tx.inputs, outputs |-> outputs, own |-> tx.own,
              pieces |-> tx.pieces, ownValue |-> tx.ownValue, fee |-> tx.fee]
    BY <2>1 DEF Transaction
  <2>3. tx.fee = f.fee
    BY <1>2, <1>4, <1>5, <1>6, <2>2
  <2>4. VSize(tx) = Bytes(Cardinality(f.inputs), n + 1)
    BY <2>2 DEF VSize, n
  <2> QED
    BY <1>0, <1>2, <1>4, <1>6, <1>8, <2>2, <2>3, <2>4, <2>5 DEF tx, target
<1> QED
  BY <1>7, <1>8

LEMMA CeilDivBounds ==
    ASSUME NEW a \in Nat, NEW b \in Nat, b > 0
    PROVE  CeilDiv(a, b) \in Nat /\ (CeilDiv(a, b) + 1) * b > a
<1> DEFINE q == (a + b - 1) \div b
<1>1. a + b - 1 \in Nat
  OBVIOUS
<1>2. q \in Nat /\ q * b <= a + b - 1 /\ a + b - 1 < q * b + b
  BY <1>1
<1> HIDE DEF q
<1>3. (q + 1) * b = q * b + b
  BY <1>2
<1> QED
  BY <1>2, <1>3 DEF CeilDiv, q

\* A quote outbids the transaction it replaces, as the relay rules want: its
\* rate is above the original's, its fee is the rate for all its bytes and at
\* least one per byte above the original's fee; and it returns the rest, which
\* is no dust (transparentSend.ts:1019-1072).
THEOREM QuoteOutbids ==
    ASSUME NEW tx, NEW rate, tx.fee \in Nat, tx.inputs \subseteq Coin,
           Len(tx.outputs) + tx.pieces \in Nat, RbfQuote(tx, rate) # None
    PROVE  LET q == RbfQuote(tx, rate)
           IN  /\ q \in [fee : Nat, rate : Nat, output : Nat, bytes : Nat] /\ q.bytes > 0
               /\ q.rate >= rate /\ q.rate * VSize(tx) > tx.fee
               /\ q.fee >= q.rate * q.bytes /\ q.fee >= tx.fee + q.bytes
               /\ q.output >= Dust /\ q.output + q.fee = Total(tx.inputs)
<1> DEFINE k == Cardinality(tx.inputs)
           v == VSize(tx)
           above == RbfRate(tx, rate)
           bytes == RbfBytes(k)
           fee == RbfFee(tx, above, bytes)
           output == Total(tx.inputs) - fee
           q == RbfQuote(tx, rate)
<1>0. k \in Nat /\ Total(tx.inputs) \in Nat
  BY TotalType, CoinsAreFinite
<1>1. rate \in Nat
  BY SizesPositive DEF RbfQuote, ValidRate
<1>2. q = QuoteOf(fee, above, output, bytes) /\ q # None
  BY DEF RbfQuote, QuoteAt
<1>3. v \in Nat /\ v > 0
  BY <1>0, BytesType DEF VSize
<1>4. above \in Nat /\ above >= rate /\ above * v > tx.fee
  <2> HIDE DEF v
  <2> DEFINE c == CeilDiv(tx.fee, v) + 1
  <2>1. c \in Nat /\ c * v > tx.fee
    <3>1. CeilDiv(tx.fee, v) \in Nat /\ (CeilDiv(tx.fee, v) + 1) * v > tx.fee
      BY <1>3, CeilDivBounds
    <3> QED
      BY <3>1
  <2>2. above = Larger(rate, c)
    BY DEF RbfRate, v
  <2> HIDE DEF c, above
  <2>3. CASE rate > c
    <3>1. above = rate
      BY <2>2, <2>3 DEF Larger
    <3>2. rate * v = c * v + (rate - c) * v /\ (rate - c) * v \in Nat
      BY <1>1, <1>3, <2>1, <2>3, ProductOfNaturals
    <3>3. c * v \in Nat
      BY <1>3, <2>1, ProductOfNaturals
    <3> QED
      BY <1>1, <2>1, <3>1, <3>2, <3>3
  <2>4. CASE ~(rate > c)
    BY <1>1, <2>1, <2>2, <2>4 DEF Larger
  <2> QED
    BY <2>3, <2>4
<1>5. bytes \in Nat /\ bytes > 0
  <2>1. 1 \in Nat /\ Larger(4, k) \in Nat
    BY <1>0 DEF Larger
  <2>2. Bytes(k, 1) \in Nat /\ Bytes(k, 1) > 0
    BY <1>0, <2>1, BytesType
  <2> QED
    BY <2>1, <2>2 DEF RbfBytes
<1> HIDE DEF above, bytes, q, v
<1>6. fee \in Nat /\ fee >= above * bytes /\ fee >= tx.fee + bytes
  <2>1. above * bytes \in Nat
    BY <1>4, <1>5, ProductOfNaturals
  <2> QED
    BY <1>5, <2>1 DEF RbfFee, Larger
<1> HIDE DEF fee
<1>7. output \in Int /\ output + fee = Total(tx.inputs)
  BY <1>0, <1>6
<1> HIDE DEF output
<1>8. /\ output >= Dust /\ q = [fee |-> fee, rate |-> above, output |-> output, bytes |-> bytes]
  BY <1>2, <1>7, SizesPositive DEF QuoteOf
<1>10. /\ q.fee = fee /\ q.rate = above /\ q.output = output /\ q.bytes = bytes
       /\ output \in Nat
       /\ q \in [fee : Nat, rate : Nat, output : Nat, bytes : Nat]
  BY <1>4, <1>5, <1>6, <1>7, <1>8, SizesPositive
<1>9. /\ q.rate >= rate /\ q.rate * v > tx.fee
      /\ q.fee >= q.rate * q.bytes /\ q.fee >= tx.fee + q.bytes
      /\ q.output >= Dust /\ q.output + q.fee = Total(tx.inputs)
  BY <1>4, <1>6, <1>7, <1>8, <1>10
<1> QED
  BY <1>5, <1>9, <1>10 DEF q, v

LEMMA NothingSent == Amount(<<>>) = 0 /\ Len(<<>>) = 0
<1>1. DOMAIN <<>> = 1 .. 0 /\ 0 \in Nat /\ \A i \in 1 .. 0 : <<>>[i].amount \in Nat
  OBVIOUS
<1> QED
  BY <1>1, AmountType

\* A replacement that is built spends what the original spends, sends nothing to
\* others, returns all but the fee to one address of the wallet, and its fee is
\* the quoted one: above the original's by at least one per byte, and at least
\* the quoted rate for its size (buildTransparentRbfCancellation,
\* transparentSend.ts).
THEOREM ReplacementOutbids ==
    ASSUME NEW tx, NEW rate, NEW own, tx.fee \in Nat, tx.inputs \subseteq Coin,
           Len(tx.outputs) + tx.pieces \in Nat, BuildRbf(tx, rate, own) # None
    PROVE  LET q == RbfQuote(tx, rate)
               new == BuildRbf(tx, rate, own)
           IN  /\ q # None
               /\ new = [inputs |-> tx.inputs, outputs |-> <<>>, own |-> own, pieces |-> 1,
                         ownValue |-> q.output, fee |-> q.fee]
               /\ new.fee \in Nat /\ new.ownValue \in Nat /\ new.ownValue >= Dust
               /\ Total(tx.inputs) = new.ownValue + new.fee
               /\ new.fee >= tx.fee + VSize(new) /\ new.fee >= q.rate * VSize(new)
<1> DEFINE q == RbfQuote(tx, rate)
           new == BuildRbf(tx, rate, own)
<1>1. /\ q # None /\ new = Replacing(tx, q, own)
      /\ RbfAllowed(tx, q, VSize(new))
  BY DEF BuildRbf, Replace
<1>2. /\ q.fee \in Nat /\ q.output \in Nat /\ q.output >= Dust
      /\ q.output + q.fee = Total(tx.inputs)
  <2>1. /\ q \in [fee : Nat, rate : Nat, output : Nat, bytes : Nat]
        /\ q.output >= Dust /\ q.output + q.fee = Total(tx.inputs)
    BY <1>1, QuoteOutbids
  <2> HIDE DEF q
  <2> QED
    BY <2>1
<1>3. new = [inputs |-> tx.inputs, outputs |-> <<>>, own |-> own, pieces |-> 1,
             ownValue |-> q.output, fee |-> Total(tx.inputs) - Amount(<<>>) - q.output]
  BY <1>1 DEF Replacing, Transaction
<1>4. /\ q.fee >= q.rate * VSize(new) /\ q.fee >= tx.fee + VSize(new)
  BY <1>1 DEF RbfAllowed
<1> HIDE DEF q, new
<1>5. Total(tx.inputs) - Amount(<<>>) - q.output = q.fee
  BY <1>2, NothingSent
<1>6. /\ new = [inputs |-> tx.inputs, outputs |-> <<>>, own |-> own, pieces |-> 1,
                ownValue |-> q.output, fee |-> q.fee]
      /\ new.fee = q.fee /\ new.ownValue = q.output
  BY <1>3, <1>5
<1>7. Total(tx.inputs) = new.ownValue + new.fee
  BY <1>2, <1>6
<1> QED
  BY <1>1, <1>2, <1>4, <1>6, <1>7 DEF q, new

(***************************************************************************)
(* Consolidation                                                           *)
(***************************************************************************)
LEMMA TwoOf ==
    ASSUME NEW S, IsFiniteSet(S)
    PROVE  Cardinality(S) >= 2 <=> \E x, y \in S : x # y
<1>1. Cardinality(S) \in Nat
  BY FS_CardinalityType
<1>2. ASSUME NEW x \in S
      PROVE  /\ IsFiniteSet(S \ {x}) /\ Cardinality(S \ {x}) = Cardinality(S) - 1
             /\ Cardinality(S \ {x}) \in Nat /\ (Cardinality(S \ {x}) = 0 <=> S \ {x} = {})
  <2>1. IsFiniteSet(S \ {x}) /\ Cardinality(S \ {x}) = Cardinality(S) - 1
    BY <1>2, FS_RemoveElement
  <2> QED
    BY <2>1, FS_CardinalityType, FS_EmptySet
<1>3. ASSUME Cardinality(S) >= 2 PROVE \E x, y \in S : x # y
  <2>1. S # {}
    BY <1>3, FS_EmptySet
  <2>2. PICK x \in S : TRUE
    BY <2>1
  <2> DEFINE R == S \ {x}
  <2>3. Cardinality(R) = Cardinality(S) - 1 /\ (Cardinality(R) = 0 <=> R = {})
    BY <1>2
  <2>4. PICK y \in R : TRUE
    <3> HIDE DEF R
    <3> QED
      BY <1>1, <1>3, <2>3
  <2> QED
    BY <2>4
<1>4. ASSUME NEW x \in S, NEW y \in S, x # y PROVE Cardinality(S) >= 2
  <2> DEFINE R == S \ {x}
  <2>1. /\ Cardinality(R) = Cardinality(S) - 1 /\ Cardinality(R) \in Nat
        /\ (Cardinality(R) = 0 <=> R = {})
    BY <1>2
  <2>2. R # {}
    BY <1>4
  <2> HIDE DEF R
  <2> QED
    BY <1>1, <2>1, <2>2
<1> QED
  BY <1>3, <1>4

\* The ranks of coins are their places from 0.
Lower(coins, c) == {d \in coins : Value[d] < Value[c] \/ (Value[d] = Value[c] /\ d < c)}

LEMMA RankFacts ==
    ASSUME NEW coins, coins \subseteq Coin
    PROVE  /\ \A c \in coins : Rank(coins, c) \in 0 .. Cardinality(coins) - 1
           /\ \A r \in 0 .. Cardinality(coins) - 1 : \E c \in coins : Rank(coins, c) = r
           /\ \A c, d \in coins : Rank(coins, c) = Rank(coins, d) => c = d
<1> DEFINE upto == [d \in Coin |-> Lower(Coin, d) \cup {d}]
<1>1. \A c \in Coin : c \in Nat /\ Value[c] \in Nat
  BY SendAssumption
<1>2. IsOrder(upto)
  BY <1>1 DEF IsOrder, Lower
<1>3. IsFiniteSet(coins) /\ Cardinality(coins) \in Nat
  BY CoinsAreFinite
<1>4. ASSUME NEW c \in coins
      PROVE  /\ IsFiniteSet(Lower(coins, c)) /\ Rank(coins, c) = Cardinality(Lower(coins, c))
             /\ Rank(coins, c) \in Nat /\ Position(coins, upto, c) = Rank(coins, c) + 1
  <2>1. Rank(coins, c) = Cardinality(Lower(coins, c))
    BY DEF Rank, Lower
  <2>2. IsFiniteSet(Lower(coins, c)) /\ Cardinality(Lower(coins, c)) \in Nat
    <3>1. Lower(coins, c) \subseteq Coin
      BY DEF Lower
    <3> QED
      BY <3>1, CoinsAreFinite
  <2>3. c \notin Lower(coins, c) /\ coins \cap upto[c] = Lower(coins, c) \cup {c}
    BY <1>1 DEF Lower
  <2> HIDE DEF upto
  <2>4. Cardinality(Lower(coins, c) \cup {c}) = Cardinality(Lower(coins, c)) + 1
    BY <2>2, <2>3, FS_AddElement
  <2> QED
    BY <2>1, <2>2, <2>3, <2>4 DEF Position
<1> HIDE DEF upto
<1>5. ASSUME NEW c \in coins PROVE Rank(coins, c) \in 0 .. Cardinality(coins) - 1
  <2>1. Lower(coins, c) \subseteq coins /\ Lower(coins, c) # coins
    BY <1>1 DEF Lower
  <2>2. /\ Cardinality(Lower(coins, c)) <= Cardinality(coins)
        /\ Cardinality(Lower(coins, c)) # Cardinality(coins)
    BY <1>3, <2>1, FS_Subset
  <2> QED
    BY <1>3, <1>4, <2>2
<1>6. ASSUME NEW r \in 0 .. Cardinality(coins) - 1
      PROVE  \E c \in coins : Rank(coins, c) = r
  <2>1. r + 1 \in 1 .. Cardinality(coins)
    BY <1>3
  <2>2. PICK c \in coins : Position(coins, upto, c) = r + 1
    BY <1>2, <2>1, EveryRank
  <2>3. Rank(coins, c) = r
    BY <1>4, <2>2
  <2> QED
    BY <2>3
<1>7. ASSUME NEW c \in coins, NEW d \in coins, c \in Lower(coins, d)
      PROVE  Rank(coins, c) # Rank(coins, d)
  <2>1. Lower(coins, c) \subseteq Lower(coins, d) /\ c \notin Lower(coins, c)
    BY <1>1, <1>7 DEF Lower
  <2>2. Cardinality(Lower(coins, c)) # Cardinality(Lower(coins, d))
    BY <1>4, <1>7, <2>1, FS_Subset
  <2> QED
    BY <1>4, <2>2
<1>8. ASSUME NEW c \in coins, NEW d \in coins, c # d
      PROVE  c \in Lower(coins, d) \/ d \in Lower(coins, c)
  BY <1>1, <1>8 DEF Lower
<1>9. ASSUME NEW c \in coins, NEW d \in coins, Rank(coins, c) = Rank(coins, d)
      PROVE  c = d
  BY <1>7, <1>8, <1>9
<1> QED
  BY <1>5, <1>6, <1>9

LEMMA BatchSizeType == BatchSize \in Nat /\ BatchSize > 0
<1>1. Steps[1] \in Nat
  <2>1. Len(Steps) \in Nat /\ DOMAIN Steps = 1 .. Len(Steps) /\ Len(Steps) # 0
    BY SendAssumption
  <2>2. 1 \in DOMAIN Steps
    BY <2>1
  <2> QED
    BY <2>2, SendAssumption
<1>2. Bytes(0, Steps[1]) \in Nat
  BY <1>1, BytesType
<1>3. (MaxBatchBytes - Bytes(0, Steps[1])) \div InSize \in Int
  BY <1>2, SendAssumption
<1> QED
  BY <1>3 DEF BatchSize, Larger

LEMMA BatchFacts ==
    ASSUME NEW coins, coins \subseteq Coin, NEW b \in Nat \ {0}, NEW c \in coins
    PROVE  c \in Batch(coins, b) <=>
             (b - 1) * BatchSize <= Rank(coins, c) /\ Rank(coins, c) < b * BatchSize
<1> DEFINE z == BatchSize
           r == Rank(coins, c)
<1>1. z \in Nat /\ z > 0 /\ r \in Nat
  <2>1. r \in 0 .. Cardinality(coins) - 1 /\ Cardinality(coins) \in Nat
    BY RankFacts, CoinsAreFinite
  <2> QED
    BY <2>1, BatchSizeType
<1>2. c \in Batch(coins, b) <=> r \div z = b - 1
  BY DEF Batch
<1> HIDE DEF z, r
<1>3. r \div z \in Nat /\ (r \div z) * z <= r /\ r < (r \div z) * z + z
  BY <1>1
<1> DEFINE q == r \div z
<1>4. ASSUME q = b - 1 PROVE (b - 1) * z <= r /\ r < b * z
  <2>1. (b - 1) * z + z = b * z
    BY <1>1
  <2> QED
    BY <1>1, <1>3, <1>4, <2>1
<1>5. ASSUME (b - 1) * z <= r, r < b * z PROVE q = b - 1
  <2> HIDE DEF q
  <2>1. q \in Nat /\ q * z <= r /\ r < q * z + z
    BY <1>3 DEF q
  <2>2. CASE q < b - 1
    <3>1. b - 1 - q - 1 \in Nat
      BY <2>1, <2>2
    <3>2. (b - 1 - q - 1) * z \in Nat
      BY <1>1, <3>1, ProductOfNaturals
    <3>3. (b - 1) * z = q * z + z + (b - 1 - q - 1) * z
      BY <1>1, <2>1
    <3> QED
      BY <1>1, <1>5, <2>1, <3>2, <3>3
  <2>3. CASE q > b - 1
    <3>1. q - b \in Nat
      BY <2>1, <2>3
    <3>2. (q - b) * z \in Nat
      BY <1>1, <3>1, ProductOfNaturals
    <3>3. q * z = b * z + (q - b) * z
      BY <1>1, <2>1
    <3> QED
      BY <1>1, <1>5, <2>1, <3>2, <3>3
  <2> QED
    BY <2>1, <2>2, <2>3
<1> QED
  BY <1>2, <1>4, <1>5 DEF q, r, z

\* The batches are of two coins or more, and no coin is in two of them: what is
\* left out is at most the last coin.
LEMMA UsefulBatchesFacts ==
    ASSUME NEW coins, coins \subseteq Coin
    PROVE  LET batches == UsefulBatches(coins)
           IN  \E m \in Nat :
                 /\ DOMAIN batches = 1 .. m
                 /\ \A b \in 1 .. m : batches[b] \subseteq coins /\ Cardinality(batches[b]) >= 2
                 /\ \A a, b \in 1 .. m : a # b => batches[a] \cap batches[b] = {}
<1> DEFINE N == Cardinality(coins)
           z == BatchSize
           top == CeilDiv(N, z)
           useful == {b \in Batches(coins) : Cardinality(Batch(coins, b)) >= 2}
           batches == UsefulBatches(coins)
<1>1. z \in Nat /\ z > 0 /\ N \in Nat /\ top \in Nat
  <2>1. z \in Nat /\ z > 0 /\ N \in Nat
    BY BatchSizeType, CoinsAreFinite
  <2> QED
    BY <2>1, CeilDivBounds
<1>2. Batches(coins) = 1 .. top
  BY DEF Batches
<1>3. \A b : Batch(coins, b) \subseteq coins /\ IsFiniteSet(Batch(coins, b))
  <2>1. ASSUME NEW b PROVE Batch(coins, b) \subseteq coins
    BY DEF Batch
  <2> QED
    BY <2>1, CoinsAreFinite
<1>4. ASSUME NEW b \in useful, NEW a \in 1 .. b - 1
      PROVE  a \in useful
  <2>1. b \in 1 .. top /\ b \in Nat \ {0} /\ a \in Nat \ {0} /\ a \in 1 .. top /\ a < b
    BY <1>1, <1>2
  <2>2. PICK c \in Batch(coins, b), d \in Batch(coins, b) : c # d
    BY <1>3, TwoOf
  <2> DEFINE rc == Rank(coins, c)
             rd == Rank(coins, d)
  <2>3. /\ rc \in 0 .. N - 1 /\ rd \in 0 .. N - 1 /\ rc # rd
    BY <1>3, <2>2, RankFacts
  <2>4. /\ (b - 1) * z <= rc /\ rc < b * z
        /\ (b - 1) * z <= rd /\ rd < b * z
    BY <1>3, <2>1, BatchFacts
  <2> DEFINE r == (a - 1) * z
  <2>5. /\ r \in Nat /\ a * z = r + z
    BY <1>1, <2>1, ProductOfNaturals
  <2>6. (b - 1) * z \in Nat /\ b * z = (b - 1) * z + z /\ a * z <= (b - 1) * z
    <3>1. b - 1 - a \in Nat /\ b - 1 \in Nat
      BY <2>1
    <3>2. (b - 1) * z = a * z + (b - 1 - a) * z /\ b * z = (b - 1) * z + z
      BY <1>1, <2>1
    <3>3. (b - 1 - a) * z \in Nat /\ (b - 1) * z \in Nat /\ a * z \in Nat
      BY <1>1, <2>1, <3>1, ProductOfNaturals
    <3> QED
      BY <3>2, <3>3
  <2> HIDE DEF r, rc, rd, z, N
  <2>7. z >= 2 /\ r \in 0 .. N - 1 /\ r + 1 \in 0 .. N - 1
    BY <1>1, <2>3, <2>4, <2>5, <2>6
  <2>8. PICK x \in coins, y \in coins : Rank(coins, x) = r /\ Rank(coins, y) = r + 1
    BY <2>7, RankFacts DEF N
  <2>9. x # y /\ x \in Batch(coins, a) /\ y \in Batch(coins, a)
    <3>1. /\ (a - 1) * BatchSize <= Rank(coins, x) /\ Rank(coins, x) < a * BatchSize
          /\ (a - 1) * BatchSize <= Rank(coins, y) /\ Rank(coins, y) < a * BatchSize
      BY <1>1, <2>5, <2>7, <2>8 DEF r, z
    <3>2. x # y
      BY <2>5, <2>8
    <3> QED
      BY <2>1, <3>1, <3>2, BatchFacts
  <2> QED
    BY <1>2, <1>3, <2>1, <2>9, TwoOf
<1>5. PICK m \in Nat : useful = 1 .. m
  <2>1. CASE useful = {}
    <3>1. useful = 1 .. 0
      BY <2>1
    <3> QED
      BY <3>1
  <2>2. CASE useful # {}
    <3>1. /\ useful \subseteq Int /\ top \in Int /\ \A b \in useful : b <= top
          /\ \A b \in useful : b \in Nat \ {0}
      BY <1>1, <1>2
    <3> DEFINE m == Max(useful)
    <3>2. m \in useful /\ \A b \in useful : b <= m
      <4> HIDE DEF useful
      <4> QED
        BY <2>2, <3>1, GreatestBelow
    <3> HIDE DEF m, useful
    <3>3. m \in Nat \ {0}
      BY <3>1, <3>2
    <3>4. \A b \in 1 .. m : b = m \/ b \in 1 .. m - 1
      BY <3>3
    <3>5. 1 .. m \subseteq useful
      BY <1>4, <3>2, <3>4
    <3>6. useful \subseteq 1 .. m
      BY <3>1, <3>2, <3>3
    <3> QED
      BY <3>3, <3>5, <3>6
  <2> QED
    BY <2>1, <2>2
<1>6. Cardinality(useful) = m
  <2>1. Cardinality(1 .. m) = m
    BY FS_Interval
  <2> HIDE DEF useful
  <2> QED
    BY <1>5, <2>1
<1>7. batches = [b \in 1 .. m |-> Batch(coins, b)]
  BY <1>6 DEF UsefulBatches
<1>8. \A b \in 1 .. m : Cardinality(Batch(coins, b)) >= 2
  BY <1>5
<1>9. \A a, b \in 1 .. m : a # b => Batch(coins, a) \cap Batch(coins, b) = {}
  <2>1. ASSUME NEW a \in 1 .. m, NEW b \in 1 .. m, NEW c \in coins,
               c \in Batch(coins, a), c \in Batch(coins, b)
        PROVE  a = b
    BY <2>1 DEF Batch
  <2> QED
    BY <1>3, <2>1
<1> HIDE DEF batches
<1> QED
  BY <1>3, <1>7, <1>8, <1>9 DEF batches

\* The transaction of a batch puts every coin of the batch in, returns it in
\* equal pieces that are worth their while, and pays the rate.
LEMMA BatchAddsUp ==
    ASSUME NEW coins, coins \subseteq Coin, Cardinality(coins) >= 1, NEW rate, ValidRate(rate),
           NEW own, ConsolidateBatch(coins, rate, own) # None
    PROVE  LET tx == ConsolidateBatch(coins, rate, own)
           IN  /\ tx = [inputs |-> coins, outputs |-> <<>>, own |-> own, pieces |-> tx.pieces,
                        ownValue |-> tx.ownValue, fee |-> tx.fee]
               /\ tx.pieces \in Nat /\ tx.pieces > 0 /\ tx.ownValue \in Nat
               /\ tx.ownValue >= tx.pieces * MinPerOutput
               /\ Total(coins) = tx.ownValue + tx.fee
               /\ tx.fee \in Nat /\ tx.fee >= rate * VSize(tx)
<1> DEFINE n(i) == Lesser(Steps[i], Cardinality(coins))
           pieces == [i \in DOMAIN Steps |-> EqualSplit(coins, n(i), rate)]
           good == {i \in DOMAIN Steps : Splits(coins, n(i), pieces[i], rate)}
           g == Min(good)
           tx == ConsolidateBatch(coins, rate, own)
<1>1. good # {} /\ tx = Transaction(coins, <<>>, own, n(g), n(g) * pieces[g])
  BY DEF ConsolidateBatch
<1>2. Steps \in Seq(Nat \ {0}) /\ DOMAIN Steps = 1 .. Len(Steps) /\ MinPerOutput \in Nat \ {0}
  BY SendAssumption
<1>3. g \in good
  <2>1. good \subseteq Int /\ 1 \in Int /\ \A i \in good : 1 <= i
    BY <1>2
  <2> HIDE DEF good
  <2> QED
    BY <1>1, <2>1, LeastAbove
<1>4. /\ g \in DOMAIN Steps /\ Splits(coins, n(g), pieces[g], rate)
      /\ pieces[g] = EqualSplit(coins, n(g), rate)
  BY <1>3
<1> DEFINE m == n(g)
           p == pieces[g]
<1>5. m \in Nat /\ m > 0
  <2>1. Cardinality(coins) \in Nat /\ Steps[g] \in Nat \ {0}
    BY <1>2, <1>4, CoinsAreFinite
  <2> QED
    BY <2>1 DEF Lesser
<1>6. rate \in Nat
  BY SizesPositive DEF ValidRate
<1>7. Total(coins) \in Nat /\ Total({}) = 0
  BY TotalType
<1>8. /\ p = EqualSplit(coins, m, rate) /\ Splits(coins, m, p, rate)
      /\ tx = Transaction(coins, <<>>, own, m, m * p)
  BY <1>1, <1>4
<1> HIDE DEF n, pieces, good, g, m, p, tx
<1>9. p \in Nat /\ p >= MinPerOutput /\ Fits(coins, m * p, m, rate)
  <2> DEFINE feasible == {piece \in Nat : Fits(coins, m * piece, m, rate)}
             high == Total(coins) \div m
  <2>1. p = MaxFeasible(Dust, high, feasible) /\ p >= MinPerOutput
    BY <1>8 DEF EqualSplit, Splits
  <2>2. Dust \in Nat /\ high \in Int
    BY <1>5, <1>7, SizesPositive
  <2>3. p = 0 \/ p \in feasible
    <3> HIDE DEF high, feasible
    <3> QED
      BY <2>1, <2>2, SearchFinds
  <2>4. p # 0
    <3> HIDE DEF high, feasible
    <3> QED
      BY <1>2, <2>1
  <2> QED
    BY <2>1, <2>3, <2>4
<1> DEFINE target == m * p
           f == SelectSpend(coins, target, m, rate, FALSE)
<1>10. target \in Nat
  BY <1>5, <1>9, ProductOfNaturals
<1>11. f # None /\ f.inputs = coins /\ f.change = 0
  BY <1>8, <1>9 DEF Fits, Splits
<1> HIDE DEF target
<1>12. f \in Ways(coins, target, m, rate)
  <2>1. FALSE \in BOOLEAN
    OBVIOUS
  <2> HIDE DEF f
  <2>2. f = SelectSpend(coins, target, m, rate, FALSE)
    BY DEF f
  <2> QED
    BY <1>5, <1>6, <1>10, <1>11, <2>1, <2>2, SelectSpendFacts, ZenonT(30)
<1> HIDE DEF f
<1>13. f.fee \in Nat /\ f = Fund(coins, target, m, rate)
  BY <1>5, <1>6, <1>10, <1>11, <1>12, WayFacts
<1>14. Total(coins) = target + f.fee /\ f.fee >= rate * Bytes(Cardinality(coins), m)
  <2>1. Fund(coins, target, m, rate) # None
    BY <1>11, <1>13
  <2>2. /\ Total(coins) = target + f.fee + f.change
        /\ f.fee >= rate * Bytes(Cardinality(coins), IF f.change = 0 THEN m ELSE m + 1)
    BY <1>5, <1>6, <1>10, <1>13, <2>1, SelectionConserves
  <2>3. target + f.fee + 0 = target + f.fee
    BY <1>10, <1>13
  <2> QED
    BY <1>11, <2>2, <2>3
<1>15. /\ tx = [inputs |-> coins, outputs |-> <<>>, own |-> own, pieces |-> m,
                ownValue |-> target, fee |-> Total(coins) - Amount(<<>>) - target]
  BY <1>8 DEF Transaction, target
<1>17. tx.fee = f.fee
  BY <1>7, <1>10, <1>13, <1>14, <1>15, NothingSent
<1>18. VSize(tx) = Bytes(Cardinality(coins), m)
  BY <1>5, <1>15, NothingSent DEF VSize
<1>19. target >= m * MinPerOutput
  <2>1. target = m * MinPerOutput + m * (p - MinPerOutput)
    BY <1>2, <1>5, <1>9 DEF target
  <2>2. m * (p - MinPerOutput) \in Nat /\ m * MinPerOutput \in Nat
    BY <1>2, <1>5, <1>9, ProductOfNaturals
  <2> QED
    BY <2>1, <2>2
<1>20. /\ tx.pieces = m /\ tx.ownValue = target
       /\ tx = [inputs |-> coins, outputs |-> <<>>, own |-> own, pieces |-> tx.pieces,
                ownValue |-> tx.ownValue, fee |-> tx.fee]
  BY <1>15
<1> QED
  BY <1>5, <1>10, <1>13, <1>14, <1>17, <1>18, <1>19, <1>20 DEF tx

\* A consolidation that is made spends each coin in at most one transaction, of
\* two coins or more; each transaction returns all its coins but the fee to the
\* one address of the wallet, in equal pieces of a size worth having, and pays
\* at least the rate (planTransparentConsolidation, transparentSend.ts).
THEOREM ConsolidationAddsUp ==
    ASSUME NEW coins, coins \subseteq Coin, NEW rate, NEW own,
           Consolidate(coins, rate, own) # None
    PROVE  LET txs == Consolidate(coins, rate, own)
           IN  /\ ValidRate(rate)
               /\ \E m \in Nat \ {0} : DOMAIN txs = 1 .. m /\ txs = [b \in 1 .. m |-> txs[b]]
               /\ \A b \in DOMAIN txs :
                    /\ txs[b] # None
                    /\ txs[b] = [inputs |-> txs[b].inputs, outputs |-> <<>>, own |-> own,
                                 pieces |-> txs[b].pieces, ownValue |-> txs[b].ownValue,
                                 fee |-> txs[b].fee]
                    /\ txs[b].inputs \subseteq coins /\ Cardinality(txs[b].inputs) >= 2
                    /\ txs[b].pieces \in Nat /\ txs[b].pieces > 0 /\ txs[b].ownValue \in Nat
                    /\ txs[b].ownValue >= txs[b].pieces * MinPerOutput
                    /\ Total(txs[b].inputs) = txs[b].ownValue + txs[b].fee
                    /\ txs[b].fee \in Nat /\ txs[b].fee >= rate * VSize(txs[b])
               /\ \A a, b \in DOMAIN txs : a # b => txs[a].inputs \cap txs[b].inputs = {}
<1> DEFINE batches == UsefulBatches(coins)
           each == [b \in DOMAIN batches |-> ConsolidateBatch(batches[b], rate, own)]
           txs == Consolidate(coins, rate, own)
<1>1. ValidRate(rate) /\ txs = AllOrNone(each) /\ txs # None
  BY DEF Consolidate
<1>2. PICK m \in Nat :
        /\ DOMAIN batches = 1 .. m
        /\ \A b \in 1 .. m : batches[b] \subseteq coins /\ Cardinality(batches[b]) >= 2
        /\ \A a, b \in 1 .. m : a # b => batches[a] \cap batches[b] = {}
  BY UsefulBatchesFacts
<1> HIDE DEF txs, batches
<1>3. txs = each /\ each # <<>> /\ \A b \in DOMAIN each : each[b] # None
  <2> HIDE DEF each
  <2> QED
    BY <1>1 DEF AllOrNone
<1>4. /\ each = [b \in 1 .. m |-> ConsolidateBatch(batches[b], rate, own)]
      /\ DOMAIN each = 1 .. m
  BY <1>2
<1>5. m # 0
  <2>1. CASE m = 0
    <3>1. each = <<>>
      BY <1>4, <2>1
    <3> QED
      BY <1>3, <3>1
  <2> QED
    BY <2>1
<1> HIDE DEF each
<1>6. ASSUME NEW b \in 1 .. m
      PROVE  LET tx == txs[b]
             IN  /\ tx # None
                 /\ tx = [inputs |-> batches[b], outputs |-> <<>>, own |-> own,
                          pieces |-> tx.pieces, ownValue |-> tx.ownValue, fee |-> tx.fee]
                 /\ tx.pieces \in Nat /\ tx.pieces > 0 /\ tx.ownValue \in Nat
                 /\ tx.ownValue >= tx.pieces * MinPerOutput
                 /\ Total(batches[b]) = tx.ownValue + tx.fee
                 /\ tx.fee \in Nat /\ tx.fee >= rate * VSize(tx)
  <2>1. txs[b] = ConsolidateBatch(batches[b], rate, own) /\ txs[b] # None
    BY <1>3, <1>4
  <2>2. batches[b] \subseteq Coin /\ Cardinality(batches[b]) >= 2
    BY <1>2
  <2>3. Cardinality(batches[b]) >= 1
    BY <2>2, CoinsAreFinite
  <2> QED
    BY <1>1, <2>1, <2>2, <2>3, BatchAddsUp
<1>7. \A b \in 1 .. m : txs[b].inputs = batches[b]
  <2>1. ASSUME NEW r, NEW B, NEW P, NEW V, NEW F,
               r = [inputs |-> B, outputs |-> <<>>, own |-> own, pieces |-> P,
                    ownValue |-> V, fee |-> F]
        PROVE  r.inputs = B
    BY <2>1
  <2> QED
    BY <1>6, <2>1, Zenon
<1>8. DOMAIN txs = 1 .. m /\ txs = [b \in 1 .. m |-> txs[b]]
  BY <1>3, <1>4
<1>9. \A b \in 1 .. m :
        txs[b] = [inputs |-> txs[b].inputs, outputs |-> <<>>, own |-> own,
                  pieces |-> txs[b].pieces, ownValue |-> txs[b].ownValue, fee |-> txs[b].fee]
  BY <1>6, <1>7
<1>10. \A b \in 1 .. m :
         /\ txs[b] # None
         /\ txs[b].pieces \in Nat /\ txs[b].pieces > 0 /\ txs[b].ownValue \in Nat
         /\ txs[b].ownValue >= txs[b].pieces * MinPerOutput
         /\ Total(txs[b].inputs) = txs[b].ownValue + txs[b].fee
         /\ txs[b].fee \in Nat /\ txs[b].fee >= rate * VSize(txs[b])
  BY <1>6, <1>7
<1>11. \A b \in 1 .. m : txs[b].inputs \subseteq coins /\ Cardinality(txs[b].inputs) >= 2
  BY <1>2, <1>7
<1>12. \A a, b \in 1 .. m : a # b => txs[a].inputs \cap txs[b].inputs = {}
  BY <1>2, <1>7
<1> QED
  BY <1>1, <1>5, <1>8, <1>9, <1>10, <1>11, <1>12 DEF txs

\* The sums of a plan are sums of natural numbers.
LEMMA PlanType ==
    ASSUME NEW m \in Nat, NEW txs, DOMAIN txs = 1 .. m,
           \A b \in 1 .. m : /\ txs[b].inputs \subseteq Coin
                             /\ txs[b].pieces \in Nat /\ txs[b].fee \in Nat
    PROVE  PlanOf(txs) \in [inputs : Nat, outputs : Nat, fee : Nat]
<1>1. \A b \in 1 .. m : Cardinality(txs[b].inputs) \in Nat
  BY CoinsAreFinite
<1>2. Sum([b \in 1 .. m |-> Cardinality(txs[b].inputs)]) \in Nat
  BY <1>1, SumType
<1>3. Sum([b \in 1 .. m |-> txs[b].pieces]) \in Nat
  BY SumType
<1>4. Sum([b \in 1 .. m |-> txs[b].fee]) \in Nat
  BY SumType
<1> QED
  BY <1>2, <1>3, <1>4 DEF PlanOf
==============================================================================
