------------------------------ MODULE SetSums ------------------------------
(***************************************************************************)
(* Sums over finite sets, as the folds of the community modules compute    *)
(* them: the elements are taken away one by one.  The lemmas on sums are   *)
(* about functions to the natural numbers, those on folds about any step.  *)
(***************************************************************************)
EXTENDS FiniteSetsExt, Functions, FiniteSetTheorems, WellFoundedInduction, TLAPS

(* Induction on the natural numbers, for a set of them.                    *)
LEMMA SetInduction ==
  ASSUME NEW N, 0 \in N, \A n \in Nat : n \in N => n + 1 \in N
  PROVE  Nat \subseteq N
<1> DEFINE M == Nat \ N
<1> SUFFICES ASSUME M # {}
             PROVE  FALSE
  OBVIOUS
<1>1. PICK m \in M : \A y \in M : <<y, m>> \notin OpToRel(<, Nat)
  BY NatLessThanWellFounded, WFMin
<1>2. m \in Nat /\ m # 0 /\ m - 1 \in Nat
  OBVIOUS
<1>3. m - 1 \in M
  BY <1>2
<1>4. <<m - 1, m>> \in OpToRel(<, Nat)
  BY <1>2 DEF OpToRel
<1> QED
  BY <1>1, <1>3, <1>4

(* A set of natural numbers has a least one.                               *)
LEMMA MinOfNaturals ==
  ASSUME NEW S \in SUBSET Nat, S # {}
  PROVE  Min(S) \in S /\ \A y \in S : Min(S) <= y
<1>1. PICK m \in S : \A y \in S : <<y, m>> \notin OpToRel(<, Nat)
  BY NatLessThanWellFounded, WFMin
<1>2. \A y \in S : ~ (y < m)
  BY <1>1 DEF OpToRel
<1>3. \A y \in S : m <= y
  BY <1>2
<1> QED
  BY <1>3 DEF Min

(* Induction on the subsets of a finite set, for a set of them.            *)
LEMMA SubsetInduction ==
  ASSUME NEW S, IsFiniteSet(S), NEW P,
         \A s \in SUBSET S : (\A x \in s : s \ {x} \in P) => s \in P
  PROVE  SUBSET S \subseteq P
<1> DEFINE N == {n \in Nat : \A s \in SUBSET S : Cardinality(s) = n => s \in P}
<1>1. ASSUME NEW s \in SUBSET S
      PROVE  /\ Cardinality(s) \in Nat /\ (Cardinality(s) = 0 => s = {})
             /\ \A x \in s : Cardinality(s \ {x}) = Cardinality(s) - 1
  <2>1. IsFiniteSet(s)
    BY FS_Subset
  <2> QED
    BY <2>1, FS_CardinalityType, FS_EmptySet, FS_RemoveElement
<1>2. 0 \in N
  <2>1. \A s \in SUBSET S : Cardinality(s) = 0 => s \in P
    BY <1>1
  <2> QED
    BY <2>1
<1>3. ASSUME NEW n \in Nat, n \in N
      PROVE  n + 1 \in N
  <2>1. ASSUME NEW s \in SUBSET S, Cardinality(s) = n + 1
        PROVE  s \in P
    <3>1. ASSUME NEW x \in s
          PROVE  s \ {x} \in P
      <4>1. Cardinality(s \ {x}) = n /\ s \ {x} \in SUBSET S
        BY <1>1, <2>1
      <4> QED
        BY <1>3, <4>1
    <3> QED
      BY <3>1
  <2> QED
    BY <2>1
<1>4. Nat \subseteq N
  <2> HIDE DEF N
  <2> QED
    BY <1>2, <1>3, SetInduction
<1> QED
  BY <1>1, <1>4

---------------------------------------------------------------------------
Some(s) == CHOOSE x \in s : TRUE

Summed(f, g, s) == IF s = {} THEN 0 ELSE f[Some(s)] + g[s \ {Some(s)}]

SumsOn(f, S) == CHOOSE g : g = [s \in SUBSET S |-> Summed(f, g, s)]

Total(f, S) == SumsOn(f, S)[S]

(* The folds are totals.                                                   *)
LEMMA FoldFunctionIsTotal == \A f : FoldFunction(+, 0, f) = Total(f, DOMAIN f)
BY DEF FoldFunction, FoldFunctionOnSet, MapThenFoldSet, Total, SumsOn, Summed, Some

(* So is the sum of a function over a set.                                 *)
LEMMA MapThenSumSetIsTotal ==
  \A f, S : MapThenSumSet(LAMBDA x : f[x], S) = Total(f, S)
BY DEF MapThenSumSet, MapThenFoldSet, Total, SumsOn, Summed, Some

(* A set that is not empty has an element to take away.                    *)
LEMMA SomeIsElement == \A s : s # {} => Some(s) \in s
BY DEF Some

(* The definition by recursion does define the sums, from the small sets   *)
(* to the large ones.                                                      *)
SubsetsUpTo(S, n) == {s \in SUBSET S : Cardinality(s) <= n}

AllSums(f, g, S) == g = [s \in SUBSET S |-> Summed(f, g, s)]

IsSums(f, g, S, n) == g = [s \in SubsetsUpTo(S, n) |-> Summed(f, g, s)]

(* The function that the recursion defines does exist.                     *)
LEMMA SumsExist ==
  ASSUME NEW f, NEW S, IsFiniteSet(S)
  PROVE  AllSums(f, SumsOn(f, S), S)
<1> DEFINE N == {n \in Nat : \E g : IsSums(f, g, S, n)}
<1>1. ASSUME NEW s \in SUBSET S
      PROVE  /\ Cardinality(s) \in Nat /\ (Cardinality(s) = 0 => s = {})
             /\ \A x \in s : Cardinality(s \ {x}) = Cardinality(s) - 1
  <2>1. IsFiniteSet(s)
    BY FS_Subset
  <2> QED
    BY <2>1, FS_CardinalityType, FS_EmptySet, FS_RemoveElement
<1>2. 0 \in N
  <2> DEFINE g == [s \in SubsetsUpTo(S, 0) |-> 0]
  <2>1. \A s \in SubsetsUpTo(S, 0) : s = {}
    BY <1>1 DEF SubsetsUpTo
  <2>2. \A s \in SubsetsUpTo(S, 0) : Summed(f, g, s) = 0
    BY <2>1 DEF Summed
  <2>3. IsSums(f, g, S, 0)
    BY <2>2 DEF IsSums
  <2> QED
    BY <2>3
<1>3. ASSUME NEW n \in Nat, n \in N
      PROVE  n + 1 \in N
  <2>1. PICK g : IsSums(f, g, S, n)
    BY <1>3
  <2> DEFINE h == [s \in SubsetsUpTo(S, n + 1) |-> Summed(f, g, s)]
  <2>2. ASSUME NEW s \in SubsetsUpTo(S, n + 1)
        PROVE  Summed(f, g, s) = Summed(f, h, s)
    <3>1. CASE s = {}
      BY <3>1 DEF Summed
    <3>2. CASE s # {}
      <4> DEFINE r == s \ {Some(s)}
      <4>1. Some(s) \in s /\ s \in SUBSET S
        BY <3>2, SomeIsElement DEF SubsetsUpTo
      <4>2. r \in SUBSET S /\ Cardinality(r) \in Nat /\ Cardinality(r) <= n
        BY <1>1, <4>1 DEF SubsetsUpTo
      <4>3. r \in SubsetsUpTo(S, n) /\ r \in SubsetsUpTo(S, n + 1)
        BY <4>2 DEF SubsetsUpTo
      <4>4. g[r] = Summed(f, g, r) /\ h[r] = Summed(f, g, r)
        BY <2>1, <4>3 DEF IsSums
      <4> QED
        BY <3>2, <4>4 DEF Summed
    <3> QED
      BY <3>1, <3>2
  <2>3. IsSums(f, h, S, n + 1)
    BY <2>2 DEF IsSums
  <2> QED
    BY <2>3
<1>4. Cardinality(S) \in N
  <2>1. Nat \subseteq N
    <3> HIDE DEF N
    <3> QED
      BY <1>2, <1>3, SetInduction
  <2> QED
    BY <1>1, <2>1
<1>5. SubsetsUpTo(S, Cardinality(S)) = SUBSET S
  BY FS_Subset DEF SubsetsUpTo
<1>6. \E g : g = [s \in SUBSET S |-> Summed(f, g, s)]
  BY <1>4, <1>5 DEF IsSums
<1> QED
  BY <1>6 DEF SumsOn, AllSums

(* It therefore has the value that the recursion says.                     *)
LEMMA SumsStep ==
  ASSUME NEW f, NEW S, IsFiniteSet(S), NEW s \in SUBSET S
  PROVE  SumsOn(f, S)[s] = Summed(f, SumsOn(f, S), s)
<1> DEFINE g == SumsOn(f, S)
<1>1. AllSums(f, g, S)
  BY SumsExist
<1> HIDE DEF g
<1>2. g[s] = Summed(f, g, s)
  BY <1>1 DEF AllSums
<1> QED
  BY <1>2 DEF g

(* The sums over the subsets do not depend on the set around them.         *)
LEMMA SumsAreTotals ==
  ASSUME NEW f, NEW S, IsFiniteSet(S), NEW s \in SUBSET S
  PROVE  SumsOn(f, S)[s] = Total(f, s)
<1> DEFINE Q == {r \in SUBSET s : SumsOn(f, S)[r] = SumsOn(f, s)[r]}
<1>1. IsFiniteSet(s)
  BY FS_Subset
<1>2. /\ \A r \in SUBSET s : SumsOn(f, S)[r] = Summed(f, SumsOn(f, S), r)
      /\ \A r \in SUBSET s : SumsOn(f, s)[r] = Summed(f, SumsOn(f, s), r)
  <2>1. \A r \in SUBSET S : SumsOn(f, S)[r] = Summed(f, SumsOn(f, S), r)
    BY SumsStep
  <2>2. \A r \in SUBSET s : SumsOn(f, s)[r] = Summed(f, SumsOn(f, s), r)
    BY <1>1, SumsStep
  <2> QED
    BY <2>1, <2>2
<1>3. ASSUME NEW r \in SUBSET s, \A x \in r : r \ {x} \in Q
      PROVE  r \in Q
  <2>1. CASE r = {}
    BY <1>2, <2>1 DEF Summed
  <2>2. CASE r # {}
    <3>1. r \ {Some(r)} \in Q
      BY <1>3, <2>2, SomeIsElement
    <3>2. SumsOn(f, S)[r \ {Some(r)}] = SumsOn(f, s)[r \ {Some(r)}]
      BY <3>1
    <3> QED
      BY <1>2, <2>2, <3>2 DEF Summed
  <2> QED
    BY <2>1, <2>2
<1>4. SUBSET s \subseteq Q
  <2> HIDE DEF Q
  <2> QED
    BY <1>1, <1>3, SubsetInduction
<1> QED
  BY <1>4 DEF Total

---------------------------------------------------------------------------
(* A total is 0, or one element and the total of the others.               *)
LEMMA TotalEmpty == \A f : Total(f, {}) = 0
<1> SUFFICES ASSUME NEW f
             PROVE  Total(f, {}) = 0
  OBVIOUS
<1>1. IsFiniteSet({})
  BY FS_EmptySet
<1> QED
  BY <1>1, SumsStep DEF Total, Summed

(* A total loses an element with its value.                                *)
LEMMA TotalSome ==
  ASSUME NEW f, NEW S, IsFiniteSet(S), S # {}
  PROVE  Total(f, S) = f[Some(S)] + Total(f, S \ {Some(S)})
<1>1. SumsOn(f, S)[S] = Summed(f, SumsOn(f, S), S)
  BY SumsStep
<1>2. SumsOn(f, S)[S \ {Some(S)}] = Total(f, S \ {Some(S)})
  BY SumsAreTotals
<1> QED
  BY <1>1, <1>2 DEF Total, Summed

(* A total depends on the elements only.                                   *)
LEMMA TotalSame ==
  ASSUME NEW f, NEW g, NEW S, IsFiniteSet(S), \A x \in S : f[x] = g[x]
  PROVE  Total(f, S) = Total(g, S)
<1> DEFINE P == {s \in SUBSET S : Total(f, s) = Total(g, s)}
<1>1. ASSUME NEW s \in SUBSET S, \A x \in s : s \ {x} \in P
      PROVE  s \in P
  <2>1. CASE s = {}
    BY <2>1, TotalEmpty
  <2>2. CASE s # {}
    <3>1. Some(s) \in s /\ IsFiniteSet(s)
      BY <2>2, SomeIsElement, FS_Subset
    <3>2. /\ Total(f, s) = f[Some(s)] + Total(f, s \ {Some(s)})
          /\ Total(g, s) = g[Some(s)] + Total(g, s \ {Some(s)})
      BY <2>2, <3>1, TotalSome
    <3>3. Total(f, s \ {Some(s)}) = Total(g, s \ {Some(s)})
      BY <1>1, <3>1
    <3> QED
      BY <3>1, <3>2, <3>3
  <2> QED
    BY <2>1, <2>2
<1>2. SUBSET S \subseteq P
  <2> HIDE DEF P
  <2> QED
    BY <1>1, SubsetInduction
<1> QED
  BY <1>2

(* A total of natural numbers is one.                                      *)
LEMMA TotalType ==
  ASSUME NEW f, NEW S, IsFiniteSet(S), \A x \in S : f[x] \in Nat
  PROVE  Total(f, S) \in Nat
<1> DEFINE P == {s \in SUBSET S : Total(f, s) \in Nat}
<1>1. ASSUME NEW s \in SUBSET S, \A x \in s : s \ {x} \in P
      PROVE  s \in P
  <2>1. CASE s = {}
    BY <2>1, TotalEmpty
  <2>2. CASE s # {}
    <3>1. Some(s) \in s /\ IsFiniteSet(s)
      BY <2>2, SomeIsElement, FS_Subset
    <3>2. Total(f, s) = f[Some(s)] + Total(f, s \ {Some(s)})
      BY <2>2, <3>1, TotalSome
    <3>3. f[Some(s)] \in Nat /\ Total(f, s \ {Some(s)}) \in Nat
      BY <1>1, <3>1
    <3> QED
      BY <3>2, <3>3
  <2> QED
    BY <2>1, <2>2
<1>2. SUBSET S \subseteq P
  <2> HIDE DEF P
  <2> QED
    BY <1>1, SubsetInduction
<1> QED
  BY <1>2

(* A total of nothing but zeros.                                           *)
LEMMA TotalZero ==
  ASSUME NEW f, NEW S, IsFiniteSet(S), \A x \in S : f[x] = 0
  PROVE  Total(f, S) = 0
<1> DEFINE P == {s \in SUBSET S : Total(f, s) = 0}
<1>1. ASSUME NEW s \in SUBSET S, \A x \in s : s \ {x} \in P
      PROVE  s \in P
  <2>1. CASE s = {}
    BY <2>1, TotalEmpty
  <2>2. CASE s # {}
    <3>1. Some(s) \in s /\ IsFiniteSet(s)
      BY <2>2, SomeIsElement, FS_Subset
    <3>2. Total(f, s) = f[Some(s)] + Total(f, s \ {Some(s)})
      BY <2>2, <3>1, TotalSome
    <3>3. f[Some(s)] = 0 /\ Total(f, s \ {Some(s)}) = 0
      BY <1>1, <3>1
    <3> QED
      BY <3>2, <3>3
  <2> QED
    BY <2>1, <2>2
<1>2. SUBSET S \subseteq P
  <2> HIDE DEF P
  <2> QED
    BY <1>1, SubsetInduction
<1> QED
  BY <1>2

(* Any element can be taken away first.                                    *)
LEMMA TotalOthers ==
  ASSUME NEW f, NEW S, IsFiniteSet(S), \A x \in S : f[x] \in Nat, NEW y \in S
  PROVE  Total(f, S) = f[y] + Total(f, S \ {y})
<1> DEFINE P == {s \in SUBSET S : \A x \in s : Total(f, s) = f[x] + Total(f, s \ {x})}
<1>1. ASSUME NEW s \in SUBSET S, \A x \in s : s \ {x} \in P
      PROVE  s \in P
  <2> SUFFICES ASSUME NEW x \in s
               PROVE  Total(f, s) = f[x] + Total(f, s \ {x})
    OBVIOUS
  <2> DEFINE z == Some(s)
             r == s \ {x, z}
  <2>1. z \in s /\ IsFiniteSet(s)
    BY SomeIsElement, FS_Subset
  <2>2. Total(f, s) = f[z] + Total(f, s \ {z})
    BY <2>1, TotalSome
  <2>3. CASE x = z
    BY <2>2, <2>3
  <2>4. CASE x # z
    <3>1. s \ {z} \in P /\ s \ {x} \in P
      BY <1>1, <2>1
    <3>2. x \in s \ {z} /\ z \in s \ {x} /\ (s \ {z}) \ {x} = r /\ (s \ {x}) \ {z} = r
      BY <2>1, <2>4
    <3>3. Total(f, s \ {z}) = f[x] + Total(f, r)
      BY <3>1, <3>2
    <3>4. Total(f, s \ {x}) = f[z] + Total(f, r)
      BY <3>1, <3>2
    <3>5. IsFiniteSet(r) /\ \A w \in r : f[w] \in Nat
      BY <2>1, FS_Subset
    <3>6. Total(f, r) \in Nat /\ f[x] \in Nat /\ f[z] \in Nat
      BY <2>1, <3>5, TotalType
    <3> HIDE DEF z, r
    <3> QED
      BY <2>2, <3>3, <3>4, <3>6
  <2> QED
    BY <2>3, <2>4
<1>2. SUBSET S \subseteq P
  <2> HIDE DEF P
  <2> QED
    BY <1>1, SubsetInduction
<1> QED
  BY <1>2

(* The totals of two sets without a common element.                        *)
LEMMA TotalUnion ==
  ASSUME NEW f, NEW S, NEW T, IsFiniteSet(S), IsFiniteSet(T), S \cap T = {},
         \A x \in S \cup T : f[x] \in Nat
  PROVE  Total(f, S \cup T) = Total(f, S) + Total(f, T)
<1> DEFINE P == {t \in SUBSET T : Total(f, S \cup t) = Total(f, S) + Total(f, t)}
<1>1. Total(f, S) \in Nat
  BY TotalType
<1>2. ASSUME NEW t \in SUBSET T, \A x \in t : t \ {x} \in P
      PROVE  t \in P
  <2>1. CASE t = {}
    <3>1. Total(f, t) = 0 /\ S \cup t = S
      BY <2>1, TotalEmpty
    <3> QED
      BY <1>1, <3>1
  <2>2. CASE t # {}
    <3>1. PICK x \in t : TRUE
      BY <2>2
    <3> DEFINE r == t \ {x}
    <3>2. IsFiniteSet(t) /\ IsFiniteSet(r) /\ IsFiniteSet(S \cup t)
      BY FS_Subset, FS_Union
    <3>3. Total(f, t) = f[x] + Total(f, r)
      BY <3>2, TotalOthers
    <3>4. Total(f, S \cup t) = f[x] + Total(f, (S \cup t) \ {x})
      BY <3>2, TotalOthers
    <3>5. (S \cup t) \ {x} = S \cup r
      OBVIOUS
    <3>6. Total(f, S \cup r) = Total(f, S) + Total(f, r)
      BY <1>2
    <3>7. Total(f, r) \in Nat /\ f[x] \in Nat
      BY <3>2, TotalType
    <3> HIDE DEF r
    <3>8. Total(f, S \cup t) = Total(f, S) + Total(f, t)
      BY <1>1, <3>3, <3>4, <3>5, <3>6, <3>7
    <3> QED
      BY <3>8
  <2> QED
    BY <2>1, <2>2
<1>3. SUBSET T \subseteq P
  <2> HIDE DEF P
  <2> QED
    BY <1>2, SubsetInduction
<1> QED
  BY <1>3

(* A set in parts: the total of the totals of the parts is that of all.    *)
LEMMA TotalOfTotals ==
  ASSUME NEW S, IsFiniteSet(S), NEW part, NEW f, NEW g,
         \A x \in S : IsFiniteSet(part[x]) /\ f[x] = Total(g, part[x])
                      /\ \A y \in part[x] : g[y] \in Nat,
         \A x, y \in S : x # y => part[x] \cap part[y] = {}
  PROVE  Total(f, S) = Total(g, UNION {part[x] : x \in S})
<1> DEFINE Parts(s) == UNION {part[x] : x \in s}
           P == {s \in SUBSET S : IsFiniteSet(Parts(s)) /\ Total(f, s) = Total(g, Parts(s))}
<1>1. \A x \in S : f[x] \in Nat
  BY TotalType
<1>2. ASSUME NEW s \in SUBSET S, \A x \in s : s \ {x} \in P
      PROVE  s \in P
  <2>1. CASE s = {}
    <3>1. Parts(s) = {}
      BY <2>1
    <3> HIDE DEF Parts
    <3> QED
      BY <2>1, <3>1, TotalEmpty, FS_EmptySet
  <2>2. CASE s # {}
    <3>1. PICK x \in s : TRUE
      BY <2>2
    <3> DEFINE r == s \ {x}
               new == part[x]
               rest == Parts(r)
               all == Parts(s)
    <3>2. all = rest \cup new /\ rest \cap new = {}
      OBVIOUS
    <3>3. IsFiniteSet(rest) /\ Total(f, r) = Total(g, rest)
      BY <1>2
    <3>4. \A y \in rest \cup new : g[y] \in Nat
      OBVIOUS
    <3>5. IsFiniteSet(s) /\ IsFiniteSet(new) /\ f[x] = Total(g, new)
      BY FS_Subset
    <3>6. Total(f, s) = f[x] + Total(f, r)
      BY <1>1, <3>5, TotalOthers
    <3>7. IsFiniteSet(all) /\ Total(f, s) = Total(g, all)
      <4> HIDE DEF all, rest, new, r
      <4>1. IsFiniteSet(all)
        BY <3>2, <3>3, <3>5, FS_Union
      <4>2. Total(g, all) = Total(g, rest) + Total(g, new)
        BY <3>2, <3>3, <3>4, <3>5, TotalUnion
      <4>3. Total(g, rest) \in Nat /\ Total(g, new) \in Nat
        BY <3>3, <3>4, <3>5, TotalType
      <4> QED
        BY <3>3, <3>5, <3>6, <4>1, <4>2, <4>3
    <3> QED
      BY <3>7
  <2> QED
    BY <2>1, <2>2
<1>3. SUBSET S \subseteq P
  <2> HIDE DEF P
  <2> QED
    BY <1>2, SubsetInduction
<1>4. S \in P
  BY <1>3
<1> QED
  BY <1>4

(* Smaller elements have a smaller total.                                  *)
LEMMA TotalCompared ==
  ASSUME NEW f, NEW g, NEW S, IsFiniteSet(S),
         \A x \in S : f[x] \in Nat /\ g[x] \in Nat /\ f[x] <= g[x]
  PROVE  /\ Total(f, S) <= Total(g, S)
         /\ (\E x \in S : f[x] < g[x]) => Total(f, S) < Total(g, S)
<1> DEFINE C(s) == /\ Total(f, s) <= Total(g, s)
                   /\ (\E x \in s : f[x] < g[x]) => Total(f, s) < Total(g, s)
           P == {s \in SUBSET S : C(s)}
<1>1. ASSUME NEW s \in SUBSET S, \A x \in s : s \ {x} \in P
      PROVE  s \in P
  <2>1. CASE s = {}
    <3>1. Total(f, s) = 0 /\ Total(g, s) = 0
      BY <2>1, TotalEmpty
    <3> QED
      BY <2>1, <3>1
  <2>2. CASE s # {}
    <3>1. PICK z \in s : (\E x \in s : f[x] < g[x]) => f[z] < g[z]
      BY <2>2
    <3> DEFINE r == s \ {z}
    <3>2. IsFiniteSet(s) /\ IsFiniteSet(r)
      BY FS_Subset
    <3>3. Total(f, s) = f[z] + Total(f, r)
      BY <3>2, TotalOthers
    <3>4. Total(g, s) = g[z] + Total(g, r)
      BY <3>2, TotalOthers
    <3>5. Total(f, r) \in Nat /\ Total(g, r) \in Nat /\ Total(f, r) <= Total(g, r)
      <4>1. C(r)
        BY <1>1
      <4>2. \A x \in r : f[x] \in Nat /\ g[x] \in Nat
        OBVIOUS
      <4> HIDE DEF r
      <4> QED
        BY <3>2, <4>1, <4>2, TotalType
    <3>6. f[z] \in Nat /\ g[z] \in Nat /\ f[z] <= g[z]
      OBVIOUS
    <3> HIDE DEF r
    <3>7. Total(f, s) <= Total(g, s) /\ (f[z] < g[z] => Total(f, s) < Total(g, s))
      BY <3>3, <3>4, <3>5, <3>6
    <3> QED
      BY <3>1, <3>7
  <2> QED
    BY <2>1, <2>2
<1>2. SUBSET S \subseteq P
  <2> HIDE DEF P
  <2> QED
    BY <1>1, SubsetInduction
<1> QED
  BY <1>2

-------------------------------------------------------------------
(* A set of the numbers up to n has a largest one.                         *)
LEMMA MaxUpTo ==
  ASSUME NEW n \in Nat, NEW S \in SUBSET (1..n), S # {}
  PROVE  Max(S) \in S /\ \A y \in S : y <= Max(S)
<1> DEFINE R == {y \in Nat : n - y \in S}
<1>1. PICK x \in S : TRUE
  OBVIOUS
<1>2. n - x \in R
  BY <1>1
<1>3. Min(R) \in R /\ \A y \in R : Min(R) <= y
  BY <1>2, MinOfNaturals
<1>4. ASSUME NEW y \in S
      PROVE  n - y \in R /\ y \in Nat
  OBVIOUS
<1>5. n - Min(R) \in S /\ \A y \in S : n - Min(R) >= y
  BY <1>3, <1>4
<1>6. \E m \in S : \A y \in S : m >= y
  BY <1>5
<1>7. Max(S) \in S /\ \A y \in S : Max(S) >= y
  BY <1>6 DEF Max
<1> QED
  BY <1>7

(* The last of the numbers up to n + 1, and those before it.               *)
LEMMA MaxOfPrefix ==
  ASSUME NEW n \in Nat
  PROVE  Max(1..n + 1) = n + 1 /\ (1..n + 1) \ {n + 1} = 1..n /\ 1..n + 1 # {}
<1> DEFINE S == 1..n + 1
<1>1. S \in SUBSET (1..n + 1) /\ n + 1 \in S /\ n + 1 \in Nat
  OBVIOUS
<1> HIDE DEF S
<1>2. Max(S) \in S /\ \A y \in S : y <= Max(S)
  BY <1>1, MaxUpTo
<1>3. Max(1..n + 1) = n + 1
  BY <1>1, <1>2 DEF S
<1> QED
  BY <1>3

---------------------------------------------------------------------------
(* Folds, whose step is a function of the value so far and of the element  *)
(* that pick takes away from a set.                                        *)
Folded(step, base, pick, g, s) ==
  IF s = {} THEN base ELSE step[<<g[s \ {pick[s]}], pick[s]>>]

IsFolds(step, base, pick, g, S, n) == g = [s \in SubsetsUpTo(S, n) |-> Folded(step, base, pick, g, s)]

AllFolds(step, base, pick, g, S) == g = [s \in SUBSET S |-> Folded(step, base, pick, g, s)]

(* The function that the recursion defines does exist.                     *)
LEMMA FoldsExist ==
  ASSUME NEW step, NEW base, NEW pick, NEW S, IsFiniteSet(S),
         \A s \in SUBSET S : s # {} => pick[s] \in s
  PROVE  \E g : AllFolds(step, base, pick, g, S)
<1> DEFINE N == {n \in Nat : \E g : IsFolds(step, base, pick, g, S, n)}
<1>1. ASSUME NEW s \in SUBSET S
      PROVE  /\ Cardinality(s) \in Nat /\ (Cardinality(s) = 0 => s = {})
             /\ \A x \in s : Cardinality(s \ {x}) = Cardinality(s) - 1
  <2>1. IsFiniteSet(s)
    BY FS_Subset
  <2> QED
    BY <2>1, FS_CardinalityType, FS_EmptySet, FS_RemoveElement
<1>2. 0 \in N
  <2> DEFINE g == [s \in SubsetsUpTo(S, 0) |-> base]
  <2>1. \A s \in SubsetsUpTo(S, 0) : s = {}
    BY <1>1 DEF SubsetsUpTo
  <2>2. \A s \in SubsetsUpTo(S, 0) : Folded(step, base, pick, g, s) = base
    BY <2>1 DEF Folded
  <2>3. IsFolds(step, base, pick, g, S, 0)
    BY <2>2 DEF IsFolds
  <2> QED
    BY <2>3
<1>3. ASSUME NEW n \in Nat, n \in N
      PROVE  n + 1 \in N
  <2>1. PICK g : IsFolds(step, base, pick, g, S, n)
    BY <1>3
  <2> DEFINE h == [s \in SubsetsUpTo(S, n + 1) |-> Folded(step, base, pick, g, s)]
  <2>2. ASSUME NEW s \in SubsetsUpTo(S, n + 1)
        PROVE  Folded(step, base, pick, g, s) = Folded(step, base, pick, h, s)
    <3>1. CASE s = {}
      BY <3>1 DEF Folded
    <3>2. CASE s # {}
      <4> DEFINE r == s \ {pick[s]}
      <4>1. pick[s] \in s /\ s \in SUBSET S
        BY <3>2 DEF SubsetsUpTo
      <4>2. r \in SUBSET S /\ Cardinality(r) \in Nat /\ Cardinality(r) <= n
        BY <1>1, <4>1 DEF SubsetsUpTo
      <4>3. r \in SubsetsUpTo(S, n) /\ r \in SubsetsUpTo(S, n + 1)
        BY <4>2 DEF SubsetsUpTo
      <4>4. g[r] = Folded(step, base, pick, g, r) /\ h[r] = Folded(step, base, pick, g, r)
        BY <2>1, <4>3 DEF IsFolds
      <4> QED
        BY <3>2, <4>4 DEF Folded
    <3> QED
      BY <3>1, <3>2
  <2>3. IsFolds(step, base, pick, h, S, n + 1)
    BY <2>2 DEF IsFolds
  <2> QED
    BY <2>3
<1>4. Cardinality(S) \in N
  <2>1. Nat \subseteq N
    <3> HIDE DEF N
    <3> QED
      BY <1>2, <1>3, SetInduction
  <2> QED
    BY <1>1, <2>1
<1>5. SubsetsUpTo(S, Cardinality(S)) = SUBSET S
  BY FS_Subset DEF SubsetsUpTo
<1> QED
  BY <1>4, <1>5 DEF IsFolds, AllFolds

(* A fold over the places of a sequence takes the last one away; its       *)
(* values stay where each step leads back to.                              *)
FromLast(step, base, g, s) ==
  IF s = {} THEN base ELSE step[<<g[s \ {Max(s)}], Max(s)>>]

AllFromLast(step, base, g, n) == g = [s \in SUBSET (1..n) |-> FromLast(step, base, g, s)]

(* Such a fold is the function of one recursion, which has a value.        *)
LEMMA FoldFromLast ==
  ASSUME NEW n \in Nat, NEW St, NEW step, NEW base \in St,
         \A v \in St, i \in 1..n : step[<<v, i>>] \in St
  PROVE  \E g : /\ AllFromLast(step, base, g, n)
                /\ \A s \in SUBSET (1..n) : g[s] \in St
<1> DEFINE S == 1..n
           pick == [s \in SUBSET S |-> Max(s)]
<1>1. \A s \in SUBSET S : s # {} => pick[s] \in s /\ pick[s] \in S /\ pick[s] = Max(s)
  BY MaxUpTo
<1>2. IsFiniteSet(S)
  BY FS_Interval
<1> HIDE DEF pick
<1>3. PICK g : AllFolds(step, base, pick, g, S)
  <2> HIDE DEF S
  <2>1. \A s \in SUBSET S : s # {} => pick[s] \in s
    BY <1>1
  <2> QED
    BY <1>2, <2>1, FoldsExist
<1>4. \A s \in SUBSET S : Folded(step, base, pick, g, s) = FromLast(step, base, g, s)
  BY <1>1 DEF Folded, FromLast
<1>5. g = [s \in SUBSET S |-> FromLast(step, base, g, s)]
  BY <1>3, <1>4 DEF AllFolds
<1> DEFINE P == {s \in SUBSET S : g[s] \in St}
<1>6. ASSUME NEW s \in SUBSET S, \A x \in s : s \ {x} \in P
      PROVE  s \in P
  <2>1. g[s] = FromLast(step, base, g, s)
    BY <1>5
  <2>2. CASE s = {}
    BY <2>1, <2>2 DEF FromLast
  <2>3. CASE s # {}
    <3>1. Max(s) \in s /\ Max(s) \in S
      BY <1>1, <2>3
    <3>2. g[s \ {Max(s)}] \in St
      BY <1>6, <3>1
    <3> QED
      BY <2>1, <2>3, <3>1, <3>2 DEF FromLast
  <2> QED
    BY <2>2, <2>3
<1>7. SUBSET S \subseteq P
  <2> HIDE DEF P, S
  <2> QED
    BY <1>2, <1>6, SubsetInduction
<1> QED
  BY <1>5, <1>7 DEF AllFromLast
=============================================================================
