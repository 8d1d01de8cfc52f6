----------------------------- MODULE SumTheorems -----------------------------
(***************************************************************************)
(* Sums over finite sets: what MapThenSumSet of the community modules      *)
(* computes, for every finite set.  Its recursion is a function on the     *)
(* subsets of the set; that this function exists, and that the sum does    *)
(* not depend on the order in which elements are chosen, is shown by the   *)
(* smallest set for which it would fail.                                   *)
(***************************************************************************)
EXTENDS FiniteSetsExt, Integers, FiniteSetTheorems, WellFoundedInduction, TLAPS

\* The sum of h[x] over all x \in S.
SumOver(h, S) == MapThenSumSet(LAMBDA x : h[x], S)

(***************************************************************************)
(* Induction.                                                              *)
(***************************************************************************)
\* A set of numbers has a least element.
LEMMA LeastNumber ==
    ASSUME NEW T, T \subseteq Nat, T # {}
    PROVE  \E m \in T : \A k \in T : m <= k
<1> DEFINE R == OpToRel(<, Nat)
<1>1. IsWellFoundedOn(R, Nat)
  BY NatLessThanWellFounded
<1>2. \A x, y \in Nat : <<x, y>> \in R <=> x < y
  BY DEF OpToRel
<1> HIDE DEF R
<1>3. PICK m \in T : \A k \in T : ~(<<k, m>> \in R)
  BY <1>1, WFMin
<1>4. \A k \in T : ~(k < m)
  BY <1>2, <1>3
<1> QED
  BY <1>3, <1>4

\* Among some subsets of a finite set there is one that has no other of them in it.
LEMMA SmallestSet ==
    ASSUME NEW U, IsFiniteSet(U), NEW Bad, Bad \subseteq SUBSET U, Bad # {}
    PROVE  \E S \in Bad : \A T \in Bad : T \subseteq S => T = S
<1> DEFINE Sizes == { Cardinality(S) : S \in Bad }
<1>1. \A S \in Bad : IsFiniteSet(S) /\ Cardinality(S) \in Nat
  BY FS_Subset, FS_CardinalityType
<1>2. Sizes \subseteq Nat /\ Sizes # {}
  BY <1>1
<1>3. PICK m \in Sizes : \A k \in Sizes : m <= k
  <2> HIDE DEF Sizes
  <2> QED
    BY <1>2, LeastNumber
<1>4. PICK S \in Bad : Cardinality(S) = m
  OBVIOUS
<1>5. ASSUME NEW T \in Bad, T \subseteq S PROVE T = S
  <2>1. Cardinality(T) <= Cardinality(S) /\ (Cardinality(S) = Cardinality(T) => S = T)
    BY <1>1, <1>5, FS_Subset
  <2>2. Cardinality(S) <= Cardinality(T)
    BY <1>3, <1>4
  <2>3. Cardinality(S) \in Nat /\ Cardinality(T) \in Nat
    BY <1>1
  <2> QED
    BY <2>1, <2>2, <2>3
<1> QED
  BY <1>5

(***************************************************************************)
(* The recursion.                                                          *)
(***************************************************************************)
\* The element that the sum takes out of s first.
First(s) == CHOOSE x \in s : TRUE

\* g gives the sums over all subsets of S.
IsSum(g, h, S) ==
    g = [s \in SUBSET S |-> IF s = {} THEN 0 ELSE h[First(s)] + g[s \ {First(s)}]]

LEMMA SumIs ==
    ASSUME NEW h, NEW S
    PROVE  SumOver(h, S) = (CHOOSE g : IsSum(g, h, S))[S]
BY DEF SumOver, MapThenSumSet, MapThenFoldSet, IsSum, First

LEMMA FirstIn == ASSUME NEW s, s # {} PROVE First(s) \in s
BY DEF First

\* What it means to give the sums, set by set.
LEMMA SumsAre ==
    ASSUME NEW g, NEW h, NEW S
    PROVE  IsSum(g, h, S) <=>
              /\ g = [s \in SUBSET S |-> g[s]]
              /\ \A s \in SUBSET S :
                    g[s] = IF s = {} THEN 0 ELSE h[First(s)] + g[s \ {First(s)}]
<1> DEFINE Value(s) == IF s = {} THEN 0 ELSE h[First(s)] + g[s \ {First(s)}]
<1>1. IsSum(g, h, S) <=> g = [s \in SUBSET S |-> Value(s)]
  BY DEF IsSum
<1> HIDE DEF Value
<1>2. g = [s \in SUBSET S |-> Value(s)] <=>
         g = [s \in SUBSET S |-> g[s]] /\ \A s \in SUBSET S : g[s] = Value(s)
  OBVIOUS
<1> QED
  BY <1>1, <1>2 DEF Value

\* The sums over the subsets of T are among those over the subsets of S.
LEMMA SumRestrict ==
    ASSUME NEW g, NEW h, NEW S, NEW T, T \subseteq S, IsSum(g, h, S)
    PROVE  IsSum([s \in SUBSET T |-> g[s]], h, T)
<1> DEFINE k == [s \in SUBSET T |-> g[s]]
<1>1. \A s \in SUBSET S : g[s] = IF s = {} THEN 0 ELSE h[First(s)] + g[s \ {First(s)}]
  BY SumsAre
<1>2. k = [s \in SUBSET T |-> k[s]]
  OBVIOUS
<1>3. ASSUME NEW s \in SUBSET T
      PROVE  k[s] = IF s = {} THEN 0 ELSE h[First(s)] + k[s \ {First(s)}]
  <2>1. k[s] = g[s] /\ k[s \ {First(s)}] = g[s \ {First(s)}]
    OBVIOUS
  <2> QED
    BY <1>1, <2>1
<1> HIDE DEF k
<1>4. IsSum(k, h, T)
  BY <1>2, <1>3, SumsAre
<1> QED
  BY <1>4 DEF k

\* There is one function of sums at most.
LEMMA SumUnique ==
    ASSUME NEW g, NEW k, NEW h, NEW S, IsFiniteSet(S), IsSum(g, h, S), IsSum(k, h, S)
    PROVE  g = k
<1>1. /\ g = [s \in SUBSET S |-> g[s]]
      /\ \A s \in SUBSET S : g[s] = IF s = {} THEN 0 ELSE h[First(s)] + g[s \ {First(s)}]
  BY SumsAre
<1>2. /\ k = [s \in SUBSET S |-> k[s]]
      /\ \A s \in SUBSET S : k[s] = IF s = {} THEN 0 ELSE h[First(s)] + k[s \ {First(s)}]
  BY SumsAre
<1> DEFINE Bad == { s \in SUBSET S : g[s] # k[s] }
<1>3. CASE Bad # {}
  <2>1. PICK s \in Bad : \A t \in Bad : t \subseteq s => t = s
    <3>1. Bad \subseteq SUBSET S
      OBVIOUS
    <3> HIDE DEF Bad
    <3> QED
      BY <1>3, <3>1, SmallestSet
  <2>2. s # {}
    BY <1>1, <1>2
  <2> DEFINE x == First(s)
  <2>3. x \in s
    BY <2>2, FirstIn
  <2> HIDE DEF x
  <2>4. s \ {x} \notin Bad
    BY <2>1, <2>3
  <2>5. g[s \ {x}] = k[s \ {x}]
    BY <2>4
  <2>6. g[s] = h[x] + g[s \ {x}] /\ k[s] = h[x] + k[s \ {x}]
    BY <1>1, <1>2, <2>2 DEF x
  <2> QED
    BY <2>5, <2>6
<1>4. CASE Bad = {}
  BY <1>1, <1>2, <1>4
<1> QED
  BY <1>3, <1>4

\* Where there is a function of sums, the sum is its value.
LEMMA SumValue ==
    ASSUME NEW g, NEW h, NEW S, NEW T, IsFiniteSet(S), T \subseteq S, IsSum(g, h, S)
    PROVE  g[T] = SumOver(h, T)
<1> DEFINE k == [s \in SUBSET T |-> g[s]]
<1>1. IsSum(k, h, T) /\ k[T] = g[T]
  BY SumRestrict
<1>2. IsFiniteSet(T)
  BY FS_Subset
<1> DEFINE c == CHOOSE f : IsSum(f, h, T)
<1> HIDE DEF k
<1>3. IsSum(c, h, T)
  BY <1>1
<1> HIDE DEF c
<1>4. c = k
  BY <1>1, <1>2, <1>3, SumUnique
<1>5. SumOver(h, T) = c[T]
  BY SumIs DEF c
<1> QED
  BY <1>1, <1>4, <1>5

LEMMA SumExists ==
    ASSUME NEW h, NEW U, IsFiniteSet(U)
    PROVE  \E g : IsSum(g, h, U)
<1> DEFINE Bad == { s \in SUBSET U : ~ \E g : IsSum(g, h, s) }
<1> SUFFICES ASSUME Bad # {} PROVE FALSE
  OBVIOUS
<1>1. PICK S \in Bad : \A T \in Bad : T \subseteq S => T = S
  <2>1. Bad \subseteq SUBSET U
    OBVIOUS
  <2> HIDE DEF Bad
  <2> QED
    BY <2>1, SmallestSet
<1>2. S \in SUBSET U /\ ~ \E g : IsSum(g, h, S)
  OBVIOUS
<1>3. ASSUME NEW s \in SUBSET S, s # S
      PROVE  \E g : IsSum(g, h, s)
  BY <1>1, <1>2, <1>3
<1> HIDE DEF Bad
<1> DEFINE v == [s \in SUBSET S |->
                    IF s # S THEN SumOver(h, s)
                    ELSE IF s = {} THEN 0 ELSE h[First(s)] + SumOver(h, s \ {First(s)})]
<1>4. ASSUME NEW s \in SUBSET S, s # {}
      PROVE  v[s \ {First(s)}] = SumOver(h, s \ {First(s)})
  <2>1. First(s) \in s
    BY <1>4, FirstIn
  <2>2. s \ {First(s)} \in SUBSET S /\ s \ {First(s)} # S
    BY <2>1
  <2> QED
    BY <2>2
<1>5. ASSUME NEW s \in SUBSET S, s # S
      PROVE  SumOver(h, s) = IF s = {} THEN 0 ELSE h[First(s)] + SumOver(h, s \ {First(s)})
  <2>1. PICK g : IsSum(g, h, s)
    BY <1>3, <1>5
  <2>2. IsFiniteSet(s)
    BY <1>2, FS_Subset
  <2>3. g[s] = SumOver(h, s)
    BY <2>1, <2>2, SumValue
  <2>4. g[s \ {First(s)}] = SumOver(h, s \ {First(s)})
    BY <2>1, <2>2, SumValue
  <2>5. g[s] = IF s = {} THEN 0 ELSE h[First(s)] + g[s \ {First(s)}]
    BY <2>1, SumsAre
  <2> QED
    BY <2>3, <2>4, <2>5
<1>6. ASSUME NEW s \in SUBSET S
      PROVE  v[s] = IF s = {} THEN 0 ELSE h[First(s)] + v[s \ {First(s)}]
  <2>1. CASE s = S
    BY <1>4, <2>1
  <2>2. CASE s # S
    <3>1. v[s] = SumOver(h, s)
      BY <2>2
    <3> HIDE DEF v
    <3> QED
      BY <1>4, <1>5, <2>2, <3>1
  <2> QED
    BY <2>1, <2>2
<1>7. v = [s \in SUBSET S |-> v[s]]
  OBVIOUS
<1> HIDE DEF v
<1>8. IsSum(v, h, S)
  BY <1>6, <1>7, SumsAre
<1> QED
  BY <1>2, <1>8

\* The recursion that the sum follows.
LEMMA SumUnfold ==
    ASSUME NEW h, NEW S, IsFiniteSet(S)
    PROVE  SumOver(h, S) = IF S = {} THEN 0
                           ELSE h[First(S)] + SumOver(h, S \ {First(S)})
<1>1. PICK g : IsSum(g, h, S)
  BY SumExists
<1>2. g[S] = SumOver(h, S) /\ g[S \ {First(S)}] = SumOver(h, S \ {First(S)})
  BY <1>1, SumValue
<1>3. g[S] = IF S = {} THEN 0 ELSE h[First(S)] + g[S \ {First(S)}]
  BY <1>1, SumsAre
<1> QED
  BY <1>2, <1>3

(***************************************************************************)
(* What follows for sums of integers.                                      *)
(***************************************************************************)
THEOREM SumEmpty == ASSUME NEW h PROVE SumOver(h, {}) = 0
BY SumUnfold, FS_EmptySet

THEOREM SumInteger ==
    ASSUME NEW h, NEW U, IsFiniteSet(U), \A x \in U : h[x] \in Int
    PROVE  SumOver(h, U) \in Int
<1> DEFINE Bad == { s \in SUBSET U : SumOver(h, s) \notin Int }
<1>1. CASE Bad # {}
  <2>1. PICK s \in Bad : \A t \in Bad : t \subseteq s => t = s
    <3>1. Bad \subseteq SUBSET U
      OBVIOUS
    <3> HIDE DEF Bad
    <3> QED
      BY <1>1, <3>1, SmallestSet
  <2>2. IsFiniteSet(s)
    BY FS_Subset
  <2>3. s # {}
    BY SumEmpty
  <2> DEFINE x == First(s)
  <2>4. x \in s
    BY <2>3, FirstIn
  <2>5. SumOver(h, s) = h[x] + SumOver(h, s \ {x})
    BY <2>2, <2>3, SumUnfold
  <2> HIDE DEF x
  <2>6. SumOver(h, s \ {x}) \in Int
    BY <2>1, <2>4
  <2>7. h[x] \in Int
    BY <2>4
  <2> QED
    BY <2>5, <2>6, <2>7
<1>2. CASE Bad = {}
  BY <1>2
<1> QED
  BY <1>1, <1>2

\* Any element may be taken out first.
THEOREM SumTakes ==
    ASSUME NEW h, NEW U, IsFiniteSet(U), \A x \in U : h[x] \in Int, NEW u \in U
    PROVE  SumOver(h, U) = h[u] + SumOver(h, U \ {u})
<1> DEFINE Bad == { s \in SUBSET U : \E x \in s : SumOver(h, s) # h[x] + SumOver(h, s \ {x}) }
<1>1. CASE Bad # {}
  <2>1. PICK s \in Bad : \A t \in Bad : t \subseteq s => t = s
    <3>1. Bad \subseteq SUBSET U
      OBVIOUS
    <3> HIDE DEF Bad
    <3> QED
      BY <1>1, <3>1, SmallestSet
  <2>2. PICK x \in s : SumOver(h, s) # h[x] + SumOver(h, s \ {x})
    OBVIOUS
  <2> DEFINE y == First(s)
  <2>3. y \in s
    BY FirstIn
  <2>4. IsFiniteSet(s) /\ s \subseteq U
    BY FS_Subset
  <2>5. SumOver(h, s) = h[y] + SumOver(h, s \ {y})
    BY <2>2, <2>4, SumUnfold
  <2> HIDE DEF y
  <2>6. x # y
    BY <2>2, <2>5
  <2>7. SumOver(h, s \ {y}) = h[x] + SumOver(h, (s \ {y}) \ {x})
    <3>1. s \ {y} \notin Bad
      BY <2>1, <2>3
    <3> QED
      BY <2>4, <2>6, <3>1
  <2>8. SumOver(h, s \ {x}) = h[y] + SumOver(h, (s \ {x}) \ {y})
    <3>1. s \ {x} \notin Bad
      BY <2>1, <2>2
    <3> QED
      BY <2>3, <2>4, <2>6, <3>1
  <2>9. (s \ {y}) \ {x} = (s \ {x}) \ {y}
    OBVIOUS
  <2> DEFINE rest == SumOver(h, (s \ {x}) \ {y})
  <2>10. rest \in Int
    <3> DEFINE r == (s \ {x}) \ {y}
    <3>1. IsFiniteSet(r) /\ r \subseteq U
      BY <2>4, FS_Subset
    <3> HIDE DEF r
    <3>2. SumOver(h, r) \in Int
      BY <3>1, SumInteger
    <3> QED
      BY <3>2 DEF r
  <2>11. h[x] \in Int /\ h[y] \in Int
    BY <2>2, <2>3, <2>4
  <2>12. /\ SumOver(h, s \ {y}) = h[x] + rest
         /\ SumOver(h, s \ {x}) = h[y] + rest
    BY <2>7, <2>8, <2>9
  <2> HIDE DEF rest
  <2> QED
    BY <2>2, <2>5, <2>10, <2>11, <2>12
<1>2. CASE Bad = {}
  BY <1>2
<1> QED
  BY <1>1, <1>2

\* The sum depends on the values over the set alone.
THEOREM SumSame ==
    ASSUME NEW h, NEW k, NEW U, IsFiniteSet(U), \A x \in U : h[x] = k[x]
    PROVE  SumOver(h, U) = SumOver(k, U)
<1> DEFINE Bad == { s \in SUBSET U : SumOver(h, s) # SumOver(k, s) }
<1>1. CASE Bad # {}
  <2>1. PICK s \in Bad : \A t \in Bad : t \subseteq s => t = s
    <3>1. Bad \subseteq SUBSET U
      OBVIOUS
    <3> HIDE DEF Bad
    <3> QED
      BY <1>1, <3>1, SmallestSet
  <2>2. IsFiniteSet(s)
    BY FS_Subset
  <2>3. s # {}
    BY SumEmpty
  <2> DEFINE x == First(s)
  <2>4. x \in s
    BY <2>3, FirstIn
  <2>5. /\ SumOver(h, s) = h[x] + SumOver(h, s \ {x})
        /\ SumOver(k, s) = k[x] + SumOver(k, s \ {x})
    BY <2>2, <2>3, SumUnfold
  <2> HIDE DEF x
  <2>6. SumOver(h, s \ {x}) = SumOver(k, s \ {x})
    BY <2>1, <2>4
  <2> QED
    BY <2>4, <2>5, <2>6
<1>2. CASE Bad = {}
  BY <1>2
<1> QED
  BY <1>1, <1>2

\* Greater values have no smaller a sum.
THEOREM SumMonotone ==
    ASSUME NEW h, NEW k, NEW U, IsFiniteSet(U),
           \A x \in U : h[x] \in Int /\ k[x] \in Int /\ h[x] <= k[x]
    PROVE  SumOver(h, U) <= SumOver(k, U)
<1> DEFINE Bad == { s \in SUBSET U : ~(SumOver(h, s) <= SumOver(k, s)) }
<1>1. CASE Bad # {}
  <2>1. PICK s \in Bad : \A t \in Bad : t \subseteq s => t = s
    <3>1. Bad \subseteq SUBSET U
      OBVIOUS
    <3> HIDE DEF Bad
    <3> QED
      BY <1>1, <3>1, SmallestSet
  <2>2. s \subseteq U /\ IsFiniteSet(s)
    BY FS_Subset
  <2>3. s # {}
    <3>1. SumOver(h, {}) = 0 /\ SumOver(k, {}) = 0
      BY SumEmpty
    <3> QED
      BY <3>1
  <2> DEFINE x == First(s)
             a == SumOver(h, s \ {x})
             b == SumOver(k, s \ {x})
  <2>4. x \in s
    BY <2>3, FirstIn
  <2>5. SumOver(h, s) = h[x] + a /\ SumOver(k, s) = k[x] + b
    BY <2>2, <2>3, SumUnfold
  <2>6. IsFiniteSet(s \ {x})
    BY <2>2, FS_Subset
  <2> HIDE DEF x
  <2>7. a \in Int /\ b \in Int
    BY <2>2, <2>6, SumInteger
  <2>8. a <= b
    BY <2>1, <2>2, <2>4
  <2>9. h[x] \in Int /\ k[x] \in Int /\ h[x] <= k[x]
    BY <2>2, <2>4
  <2> HIDE DEF a, b
  <2>10. h[x] + a <= k[x] + b
    BY <2>7, <2>8, <2>9
  <2> QED
    BY <2>1, <2>5, <2>10
<1>2. CASE Bad = {}
  BY <1>2
<1> QED
  BY <1>1, <1>2

\* One value changes.
THEOREM SumChange ==
    ASSUME NEW h, NEW k, NEW U, IsFiniteSet(U), NEW u \in U,
           \A x \in U : h[x] \in Int /\ k[x] \in Int,
           \A x \in U : x # u => k[x] = h[x]
    PROVE  /\ SumOver(h, U) \in Int /\ SumOver(k, U) \in Int
           /\ SumOver(k, U) = SumOver(h, U) + (k[u] - h[u])
<1> DEFINE rest == SumOver(h, U \ {u})
<1>1. IsFiniteSet(U \ {u})
  BY FS_Subset
<1>2. SumOver(h, U) = h[u] + rest
  BY SumTakes
<1>3. SumOver(k, U) = k[u] + SumOver(k, U \ {u})
  BY SumTakes
<1>4. SumOver(k, U \ {u}) = rest
  BY <1>1, SumSame
<1>5. rest \in Int /\ h[u] \in Int /\ k[u] \in Int
  BY <1>1, SumInteger
<1>6. SumOver(h, U) \in Int /\ SumOver(k, U) \in Int
  BY SumInteger
<1> HIDE DEF rest
<1> QED
  BY <1>2, <1>3, <1>4, <1>5, <1>6

\* A value that is not negative is no more than the sum of such values.
THEOREM SumNatural ==
    ASSUME NEW h, NEW U, IsFiniteSet(U), \A x \in U : h[x] \in Nat
    PROVE  /\ SumOver(h, U) \in Nat
           /\ \A u \in U : h[u] <= SumOver(h, U)
<1> DEFINE Bad == { s \in SUBSET U : SumOver(h, s) \notin Nat }
<1>1. CASE Bad # {}
  <2>1. PICK s \in Bad : \A t \in Bad : t \subseteq s => t = s
    <3>1. Bad \subseteq SUBSET U
      OBVIOUS
    <3> HIDE DEF Bad
    <3> QED
      BY <1>1, <3>1, SmallestSet
  <2>2. IsFiniteSet(s)
    BY FS_Subset
  <2>3. s # {}
    BY SumEmpty
  <2> DEFINE x == First(s)
  <2>4. x \in s
    BY <2>3, FirstIn
  <2>5. SumOver(h, s) = h[x] + SumOver(h, s \ {x})
    BY <2>2, <2>3, SumUnfold
  <2> HIDE DEF x
  <2>6. SumOver(h, s \ {x}) \in Nat
    BY <2>1, <2>4
  <2>7. h[x] \in Nat
    BY <2>4
  <2> QED
    BY <2>5, <2>6, <2>7
<1>2. CASE Bad = {}
  <2>1. \A s \in SUBSET U : SumOver(h, s) \in Nat
    BY <1>2
  <2>2. ASSUME NEW u \in U PROVE h[u] <= SumOver(h, U)
    <3>1. SumOver(h, U) = h[u] + SumOver(h, U \ {u})
      BY SumTakes
    <3>2. SumOver(h, U \ {u}) \in Nat /\ h[u] \in Nat
      BY <2>1
    <3> QED
      BY <3>1, <3>2
  <2> QED
    BY <2>1, <2>2
<1> QED
  BY <1>1, <1>2

\* One element more.
THEOREM SumInsert ==
    ASSUME NEW h, NEW U, IsFiniteSet(U), NEW u, u \notin U,
           \A x \in U \cup {u} : h[x] \in Int
    PROVE  SumOver(h, U \cup {u}) = SumOver(h, U) + h[u]
<1>1. IsFiniteSet(U \cup {u}) /\ (U \cup {u}) \ {u} = U
  BY FS_AddElement
<1>2. SumOver(h, U \cup {u}) = h[u] + SumOver(h, U)
  BY <1>1, SumTakes
<1>3. SumOver(h, U) \in Int /\ h[u] \in Int
  BY SumInteger
<1> QED
  BY <1>2, <1>3

\* Zeros add up to zero.
THEOREM SumZero ==
    ASSUME NEW h, NEW U, IsFiniteSet(U), \A x \in U : h[x] = 0
    PROVE  SumOver(h, U) = 0
<1>1. CASE U = {}
  BY <1>1, SumEmpty
<1>2. CASE U # {}
  <2> DEFINE Bad == { s \in SUBSET U : SumOver(h, s) # 0 }
  <2>1. CASE Bad # {}
    <3>1. PICK s \in Bad : \A t \in Bad : t \subseteq s => t = s
      <4>1. Bad \subseteq SUBSET U
        OBVIOUS
      <4> HIDE DEF Bad
      <4> QED
        BY <2>1, <4>1, SmallestSet
    <3>2. s \in SUBSET U /\ SumOver(h, s) # 0 /\ s # {}
      BY SumEmpty
    <3>3. PICK u \in s : TRUE
      BY <3>2
    <3>4. IsFiniteSet(s)
      BY <3>2, FS_Subset
    <3>5. SumOver(h, s) = h[u] + SumOver(h, s \ {u})
      BY <3>2, <3>4, SumTakes
    <3>6. s \ {u} \in SUBSET U /\ s \ {u} \subseteq s /\ s \ {u} # s
      BY <3>2
    <3>7. SumOver(h, s \ {u}) = 0
      BY <3>1, <3>6
    <3> QED
      BY <3>2, <3>5, <3>7
  <2>2. CASE Bad = {}
    BY <2>2
  <2> QED
    BY <2>1, <2>2
<1> QED
  BY <1>1, <1>2

\* The sum over two sets that share no element.
THEOREM SumParts ==
    ASSUME NEW h, NEW U, NEW V, IsFiniteSet(U), IsFiniteSet(V), U \cap V = {},
           \A x \in U \cup V : h[x] \in Int
    PROVE  SumOver(h, U \cup V) = SumOver(h, U) + SumOver(h, V)
<1> DEFINE Bad == { s \in SUBSET U : SumOver(h, s \cup V) # SumOver(h, s) + SumOver(h, V) }
<1>1. SumOver(h, V) \in Int
  BY SumInteger
<1>2. CASE Bad # {}
  <2>1. PICK s \in Bad : \A t \in Bad : t \subseteq s => t = s
    <3>1. Bad \subseteq SUBSET U
      OBVIOUS
    <3> HIDE DEF Bad
    <3> QED
      BY <1>2, <3>1, SmallestSet
  <2>2. s # {}
    <3> SUFFICES ASSUME s = {} PROVE FALSE
      OBVIOUS
    <3>1. s \cup V = V
      OBVIOUS
    <3>2. SumOver(h, s) = 0
      BY SumEmpty
    <3>3. SumOver(h, s \cup V) # SumOver(h, s) + SumOver(h, V)
      BY <2>1
    <3> HIDE DEF Bad
    <3> QED
      BY <1>1, <3>1, <3>2, <3>3
  <2>3. PICK u \in s : TRUE
    BY <2>2
  <2> DEFINE rest == s \ {u}
  <2>4. IsFiniteSet(s) /\ IsFiniteSet(rest) /\ IsFiniteSet(s \cup V)
    BY FS_Subset, FS_Union
  <2>5. SumOver(h, rest \cup V) = SumOver(h, rest) + SumOver(h, V)
    <3>1. rest \in SUBSET U /\ rest \subseteq s /\ rest # s
      OBVIOUS
    <3> QED
      BY <2>1, <3>1
  <2>6. SumOver(h, s) = h[u] + SumOver(h, rest)
    BY <2>4, SumTakes
  <2>7. SumOver(h, s \cup V) = h[u] + SumOver(h, rest \cup V)
    <3>1. (s \cup V) \ {u} = rest \cup V
      OBVIOUS
    <3>2. u \in s \cup V /\ \A x \in s \cup V : h[x] \in Int
      OBVIOUS
    <3> QED
      BY <2>4, <3>1, <3>2, SumTakes
  <2>8. h[u] \in Int /\ SumOver(h, rest) \in Int
    BY <2>4, SumInteger
  <2>9. SumOver(h, s \cup V) # SumOver(h, s) + SumOver(h, V)
    BY <2>1
  <2> HIDE DEF rest
  <2> QED
    BY <1>1, <2>5, <2>6, <2>7, <2>8, <2>9
<1>3. CASE Bad = {}
  BY <1>3
<1> QED
  BY <1>2, <1>3

\* The sum of naturals over a part of a set is no more than over the whole.
THEOREM SumWithin ==
    ASSUME NEW h, NEW U, NEW V, IsFiniteSet(U), V \subseteq U, \A x \in U : h[x] \in Nat
    PROVE  SumOver(h, V) <= SumOver(h, U)
<1>1. IsFiniteSet(V) /\ IsFiniteSet(U \ V)
  BY FS_Subset
<1>2. SumOver(h, V) \in Nat /\ SumOver(h, U \ V) \in Nat
  <2>1. (\A x \in V : h[x] \in Nat) /\ (\A x \in U \ V : h[x] \in Nat)
    OBVIOUS
  <2> QED
    BY <1>1, <2>1, SumNatural
<1>3. SumOver(h, V \cup (U \ V)) = SumOver(h, V) + SumOver(h, U \ V)
  BY <1>1, SumParts
<1>4. V \cup (U \ V) = U
  OBVIOUS
<1> DEFINE rest == SumOver(h, U \ V)
<1>5. SumOver(h, U) = SumOver(h, V) + rest
  BY <1>3, <1>4, Zenon
<1>6. SumOver(h, V) \in Nat /\ rest \in Nat
  BY <1>2
<1> HIDE DEF rest
<1> QED
  BY <1>5, <1>6

\* The sets part[i], for i in U, share no element, and g[i] is the sum over part[i].
Splits(h, g, part, U) ==
    /\ \A i \in U : IsFiniteSet(part[i]) /\ g[i] = SumOver(h, part[i])
    /\ \A i, j \in U : i # j => part[i] \cap part[j] = {}
    /\ \A i \in U : \A x \in part[i] : h[x] \in Int

UnionOf(part, U) == UNION { part[i] : i \in U }

\* The sum over sets that share no element is the sum of the sums over each.
THEOREM SumUnion ==
    ASSUME NEW h, NEW g, NEW part, NEW U, IsFiniteSet(U), Splits(h, g, part, U)
    PROVE  /\ IsFiniteSet(UnionOf(part, U))
           /\ SumOver(g, U) = SumOver(h, UnionOf(part, U))
<1>0. /\ \A i \in U : IsFiniteSet(part[i]) /\ g[i] = SumOver(h, part[i])
      /\ \A i, j \in U : i # j => part[i] \cap part[j] = {}
      /\ \A i \in U : \A x \in part[i] : h[x] \in Int
  BY DEF Splits
<1> DEFINE Un(s) == UNION { part[i] : i \in s }
           Good(s) == IsFiniteSet(Un(s)) /\ SumOver(g, s) = SumOver(h, Un(s))
           Bad == { s \in SUBSET U : ~Good(s) }
<1>1. ASSUME Bad # {} PROVE FALSE
  <2>1. PICK s \in Bad : \A t \in Bad : t \subseteq s => t = s
    <3>1. Bad \subseteq SUBSET U
      OBVIOUS
    <3> HIDE DEF Bad
    <3> QED
      BY <1>1, <3>1, SmallestSet
  <2>2. s \subseteq U /\ ~Good(s)
    OBVIOUS
  <2>3. s # {}
    <3> SUFFICES ASSUME s = {} PROVE FALSE
      OBVIOUS
    <3>1. Un(s) = {}
      OBVIOUS
    <3>2. SumOver(g, s) = 0 /\ SumOver(h, {}) = 0 /\ IsFiniteSet({})
      BY SumEmpty, FS_EmptySet
    <3>3. Good(s)
      <4> HIDE DEF Un
      <4> QED
        BY <3>1, <3>2
    <3> QED
      BY <2>2, <3>3
  <2>4. PICK i \in s : TRUE
    BY <2>3
  <2> DEFINE rest == s \ {i}
  <2>5. rest \in SUBSET U /\ rest \subseteq s /\ rest # s
    BY <2>2
  <2>6. Good(rest)
    <3> HIDE DEF Good, rest
    <3> QED
      BY <2>1, <2>5
  <2>7. Un(s) = Un(rest) \cup part[i] /\ Un(rest) \cap part[i] = {}
    <3>1. Un(s) = Un(rest) \cup part[i]
      OBVIOUS
    <3>2. \A j \in rest : part[j] \cap part[i] = {}
      BY <1>0, <2>2
    <3>3. Un(rest) \cap part[i] = {}
      <4> HIDE DEF rest
      <4> QED
        BY <3>2
    <3> QED
      BY <3>1, <3>3
  <2>8. IsFiniteSet(part[i]) /\ g[i] = SumOver(h, part[i]) /\ i \in U
    BY <1>0, <2>2
  <2>9. \A x \in Un(s) : h[x] \in Int
    BY <1>0, <2>2
  <2>10. \A j \in s : g[j] \in Int
    <3> SUFFICES ASSUME NEW j \in s PROVE g[j] \in Int
      OBVIOUS
    <3>1. /\ IsFiniteSet(part[j]) /\ g[j] = SumOver(h, part[j])
          /\ \A x \in part[j] : h[x] \in Int
      BY <1>0, <2>2
    <3> QED
      BY <3>1, SumInteger
  <2> HIDE DEF Un
  <2>11. IsFiniteSet(s) /\ IsFiniteSet(Un(rest)) /\ IsFiniteSet(Un(s))
    BY <2>2, <2>6, <2>7, <2>8, FS_Subset, FS_Union
  <2>12. SumOver(g, s) = g[i] + SumOver(g, rest)
    BY <2>10, <2>11, SumTakes
  <2>13. \A x \in Un(rest) \cup part[i] : h[x] \in Int
    BY <2>7, <2>9
  <2>14. SumOver(h, Un(s)) = SumOver(h, Un(rest)) + SumOver(h, part[i])
    <3> DEFINE V == Un(rest)
               P == part[i]
    <3>1. /\ Un(s) = V \cup P /\ V \cap P = {} /\ IsFiniteSet(V) /\ IsFiniteSet(P)
          /\ \A x \in V \cup P : h[x] \in Int
      BY <2>7, <2>8, <2>11, <2>13
    <3> HIDE DEF V, P
    <3>2. SumOver(h, V \cup P) = SumOver(h, V) + SumOver(h, P)
      BY <3>1, SumParts
    <3>3. SumOver(h, Un(s)) = SumOver(h, V) + SumOver(h, P)
      BY <3>1, <3>2
    <3> QED
      BY <3>3 DEF V, P
  <2>15. SumOver(h, Un(rest)) \in Int /\ g[i] \in Int
    BY <2>10, <2>11, <2>13, SumInteger
  <2> DEFINE a == SumOver(h, Un(rest))
             e == g[i]
  <2>16. SumOver(g, s) = e + a /\ SumOver(h, Un(s)) = a + e /\ a \in Int /\ e \in Int
    BY <2>6, <2>8, <2>12, <2>14, <2>15
  <2> HIDE DEF a, e
  <2>17. SumOver(g, s) = SumOver(h, Un(s))
    BY <2>16
  <2> QED
    BY <2>2, <2>11, <2>17
<1>2. Good(U)
  <2>1. U \in SUBSET U
    OBVIOUS
  <2> HIDE DEF Good
  <2> QED
    BY <1>1, <2>1
<1> QED
  BY <1>2 DEF UnionOf
=============================================================================
