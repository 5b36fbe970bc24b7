---------------------------- MODULE SumTheorems ----------------------------
(***************************************************************************)
(* Facts about SumFunctionOnSet(f, S), the sum of f[x] for x in a finite   *)
(* set S, which the models use for what is held on a wallet, what an order *)
(* has traded and what a stop-loss has sold; then a few about the extremes *)
(* of a finite set of integers and about remainders.                       *)
(*                                                                         *)
(* The sum is defined by recursion over subsets.  Every induction below is *)
(* a choice of a smallest counterexample: the finite subsets of a set are  *)
(* well-founded by inclusion, a fact about sets and not about operators.   *)
(***************************************************************************)
EXTENDS Functions, FiniteSets, FiniteSetTheorems, TLAPS

(* A nonempty collection of subsets of a finite set has a minimal one.        *)
LEMMA MinimalSubset ==
  ASSUME NEW S, IsFiniteSet(S), NEW C, C \subseteq SUBSET S, C # {}
  PROVE  \E T \in C : \A U \in SUBSET T : U # T => U \notin C
  <1>1. SUBSET S = FiniteSubsetsOf(S)
    BY FS_FiniteSubsetsOfFinite
  <1>2. PICK T \in C : \A U \in C : ~ (<<U, T>> \in StrictSubsetOrdering(S))
    BY <1>1, FS_StrictSubsetOrderingWellFounded, WFMin
  <1>3. ASSUME NEW U \in SUBSET T, U # T, U \in C PROVE FALSE
    <2>1. <<U, T>> \in StrictSubsetOrdering(S)
      BY <1>3 DEF StrictSubsetOrdering
    <2> QED
      BY <1>2, <1>3, <2>1
  <1> QED
    BY <1>3

First(S) == CHOOSE x \in S : TRUE

(* g is the table of the sums of f over the subsets of S. *)
IsTable(g, f, S) ==
  g = [T \in SUBSET S |-> IF T = {} THEN 0 ELSE f[First(T)] + g[T \ {First(T)}]]

LEMMA SumUnfolded ==
  ASSUME NEW f, NEW S
  PROVE  SumFunctionOnSet(f, S) = (CHOOSE g : IsTable(g, f, S))[S]
  BY DEF SumFunctionOnSet, FoldFunctionOnSet, MapThenFoldSet, IsTable, First

LEMMA FirstIn == ASSUME NEW S, S # {} PROVE First(S) \in S
  BY DEF First

(* Two tables agree where both are defined. *)
LEMMA TablesAgree ==
  ASSUME NEW f, NEW S, IsFiniteSet(S), NEW T \in SUBSET S,
         NEW g, IsTable(g, f, S), NEW h, IsTable(h, f, T)
  PROVE  \A U \in SUBSET T : g[U] = h[U]
  <1> DEFINE C == {U \in SUBSET T : g[U] # h[U]}
  <1> SUFFICES ASSUME C # {} PROVE FALSE
    OBVIOUS
  <1>1. IsFiniteSet(T)
    BY FS_Subset
  <1>2. PICK U \in C : \A V \in SUBSET U : V # U => V \notin C
    <2>1. C \subseteq SUBSET T
      OBVIOUS
    <2> HIDE DEF C
    <2> QED
      BY <1>1, <2>1, MinimalSubset
  <1>3. /\ g[U] = IF U = {} THEN 0 ELSE f[First(U)] + g[U \ {First(U)}]
        /\ h[U] = IF U = {} THEN 0 ELSE f[First(U)] + h[U \ {First(U)}]
    BY DEF IsTable
  <1>4. U # {}
    BY <1>3
  <1>5. First(U) \in U
    BY <1>4, FirstIn
  <1>6. g[U \ {First(U)}] = h[U \ {First(U)}]
    BY <1>2, <1>5
  <1> QED
    BY <1>3, <1>6

(* There is a table for every finite set. *)
LEMMA TableExists ==
  ASSUME NEW f, NEW S, IsFiniteSet(S)
  PROVE  \E g : IsTable(g, f, S)
  <1> DEFINE C == {T \in SUBSET S : ~ \E g : IsTable(g, f, T)}
  <1> SUFFICES ASSUME C # {} PROVE FALSE
    OBVIOUS
  <1>1. PICK T \in C : \A U \in SUBSET T : U # T => U \notin C
    <2>1. C \subseteq SUBSET S
      OBVIOUS
    <2> HIDE DEF C
    <2> QED
      BY <2>1, MinimalSubset
  <1> DEFINE t(U) == CHOOSE g : IsTable(g, f, U)
             v(U) == IF U = {} THEN 0 ELSE f[First(U)] + t(U \ {First(U)})[U \ {First(U)}]
             g == [U \in SUBSET T |-> v(U)]
  <1>2. ASSUME NEW U \in SUBSET T, U # T PROVE IsTable(t(U), f, U)
    <2>1. U \in SUBSET S /\ U \notin C
      BY <1>1, <1>2
    <2>2. \E h : IsTable(h, f, U)
      BY <2>1
    <2> QED
      BY <2>2
  <1>3. ASSUME NEW U \in SUBSET T, U # T PROVE t(U)[U] = v(U)
    <2>1. t(U)[U] = IF U = {} THEN 0 ELSE f[First(U)] + t(U)[U \ {First(U)}]
      <3>1. IsTable(t(U), f, U)
        BY <1>2, <1>3
      <3> HIDE DEF t
      <3> QED
        BY <3>1 DEF IsTable
    <2>2. CASE U # {}
      <3> DEFINE W == U \ {First(U)}
      <3>1. W \in SUBSET U /\ W \in SUBSET T /\ W # T
        BY <1>3
      <3>2. IsFiniteSet(U)
        BY FS_Subset
      <3>3. IsTable(t(U), f, U) /\ IsTable(t(W), f, W)
        BY <1>2, <1>3, <3>1
      <3> HIDE DEF t, W
      <3>4. t(U)[W] = t(W)[W]
        BY <3>1, <3>2, <3>3, TablesAgree
      <3> QED
        BY <2>1, <2>2, <3>4 DEF W
    <2> QED
      BY <2>1, <2>2
  <1>4. ASSUME NEW U \in SUBSET T, U # {}
        PROVE  t(U \ {First(U)})[U \ {First(U)}] = g[U \ {First(U)}]
    <2>1. First(U) \in U
      BY <1>4, FirstIn
    <2>2. U \ {First(U)} \in SUBSET T /\ U \ {First(U)} # T
      BY <2>1
    <2>3. t(U \ {First(U)})[U \ {First(U)}] = v(U \ {First(U)})
      BY <1>3, <2>2
    <2> HIDE DEF v, t
    <2> QED
      BY <2>2, <2>3
  <1>5. ASSUME NEW U \in SUBSET T
        PROVE  v(U) = IF U = {} THEN 0 ELSE f[First(U)] + g[U \ {First(U)}]
    <2>1. v(U) = IF U = {} THEN 0 ELSE f[First(U)] + t(U \ {First(U)})[U \ {First(U)}]
      OBVIOUS
    <2> HIDE DEF v, t, g
    <2> QED
      BY <1>4, <2>1
  <1>6. g = [U \in SUBSET T |-> IF U = {} THEN 0 ELSE f[First(U)] + g[U \ {First(U)}]]
    <2>1. g = [U \in SUBSET T |-> v(U)]
      OBVIOUS
    <2> HIDE DEF v, g
    <2> QED
      BY <1>5, <2>1
  <1>7. IsTable(g, f, T)
    <2> HIDE DEF g
    <2> QED
      BY <1>6 DEF IsTable
  <1> QED
    BY <1>7

(* The recursion of the sum. *)
LEMMA SumRecursion ==
  ASSUME NEW f, NEW S, IsFiniteSet(S)
  PROVE  SumFunctionOnSet(f, S) =
           IF S = {} THEN 0
           ELSE f[First(S)] + SumFunctionOnSet(f, S \ {First(S)})
  <1> DEFINE t(U) == CHOOSE g : IsTable(g, f, U)
             W == S \ {First(S)}
  <1>1. IsFiniteSet(W) /\ W \in SUBSET S
    BY FS_Subset
  <1>2. IsTable(t(S), f, S) /\ IsTable(t(W), f, W)
    BY <1>1, TableExists
  <1> HIDE DEF t, W
  <1>3. t(S)[W] = t(W)[W]
    BY <1>1, <1>2, TablesAgree
  <1>4. t(S)[S] = IF S = {} THEN 0 ELSE f[First(S)] + t(S)[W]
    BY <1>2 DEF IsTable, W
  <1>5. SumFunctionOnSet(f, S) = t(S)[S] /\ SumFunctionOnSet(f, W) = t(W)[W]
    BY SumUnfolded DEF t
  <1> QED
    BY <1>3, <1>4, <1>5 DEF W

-----------------------------------------------------------------------------
(* What the proofs use of sums.                                               *)

(* The sum over no elements is 0. *)
LEMMA SumEmpty == ASSUME NEW f PROVE SumFunctionOnSet(f, {}) = 0
  BY SumRecursion, FS_EmptySet

(* A sum depends on no values but those of the elements. *)
LEMMA SumSame ==
  ASSUME NEW f, NEW g, NEW S, IsFiniteSet(S), \A x \in S : f[x] = g[x]
  PROVE  SumFunctionOnSet(f, S) = SumFunctionOnSet(g, S)
  <1> DEFINE C == {T \in SUBSET S : SumFunctionOnSet(f, T) # SumFunctionOnSet(g, T)}
  <1> SUFFICES ASSUME C # {} PROVE FALSE
    OBVIOUS
  <1>1. PICK T \in C : \A U \in SUBSET T : U # T => U \notin C
    <2>1. C \subseteq SUBSET S
      OBVIOUS
    <2> HIDE DEF C
    <2> QED
      BY <2>1, MinimalSubset
  <1>2. IsFiniteSet(T)
    BY FS_Subset
  <1>3. T # {}
    BY SumEmpty
  <1>4. First(T) \in T
    BY <1>3, FirstIn
  <1>5. SumFunctionOnSet(f, T \ {First(T)}) = SumFunctionOnSet(g, T \ {First(T)})
    BY <1>1, <1>4
  <1> QED
    BY <1>2, <1>3, <1>4, <1>5, SumRecursion

(* Sums of integers are integers. *)
LEMMA SumInt ==
  ASSUME NEW f, NEW S, IsFiniteSet(S), \A x \in S : f[x] \in Int
  PROVE  SumFunctionOnSet(f, S) \in Int
  <1> DEFINE C == {T \in SUBSET S : SumFunctionOnSet(f, T) \notin Int}
  <1> SUFFICES ASSUME C # {} PROVE FALSE
    OBVIOUS
  <1>1. PICK T \in C : \A U \in SUBSET T : U # T => U \notin C
    <2>1. C \subseteq SUBSET S
      OBVIOUS
    <2> HIDE DEF C
    <2> QED
      BY <2>1, MinimalSubset
  <1>2. IsFiniteSet(T)
    BY FS_Subset
  <1>3. T # {}
    BY SumEmpty
  <1>4. First(T) \in T
    BY <1>3, FirstIn
  <1>5. SumFunctionOnSet(f, T \ {First(T)}) \in Int
    BY <1>1, <1>4
  <1>6. SumFunctionOnSet(f, T) = f[First(T)] + SumFunctionOnSet(f, T \ {First(T)})
    BY <1>2, <1>3, SumRecursion
  <1> QED
    BY <1>4, <1>5, <1>6

(* Any element can be taken out first. *)
LEMMA SumRemove ==
  ASSUME NEW f, NEW S, IsFiniteSet(S), \A x \in S : f[x] \in Int, NEW y \in S
  PROVE  SumFunctionOnSet(f, S) = f[y] + SumFunctionOnSet(f, S \ {y})
  <1> DEFINE C == {T \in SUBSET S : \E x \in T :
                     SumFunctionOnSet(f, T) # f[x] + SumFunctionOnSet(f, T \ {x})}
  <1> SUFFICES ASSUME C # {} PROVE FALSE
    OBVIOUS
  <1>1. PICK T \in C : \A U \in SUBSET T : U # T => U \notin C
    <2>1. C \subseteq SUBSET S
      OBVIOUS
    <2> HIDE DEF C
    <2> QED
      BY <2>1, MinimalSubset
  <1>2. PICK x \in T : SumFunctionOnSet(f, T) # f[x] + SumFunctionOnSet(f, T \ {x})
    OBVIOUS
  <1> DEFINE z == First(T)
             U == T \ {x, z}
  <1>3. z \in T
    BY <1>2, FirstIn
  <1>4. IsFiniteSet(T) /\ IsFiniteSet(U)
    BY FS_Subset
  <1>5. SumFunctionOnSet(f, T) = f[z] + SumFunctionOnSet(f, T \ {z})
    BY <1>2, <1>4, SumRecursion
  <1>6. x # z
    BY <1>2, <1>5
  <1>7. SumFunctionOnSet(f, T \ {z}) = f[x] + SumFunctionOnSet(f, U)
    <2>1. T \ {z} \notin C /\ (T \ {z}) \ {x} = U /\ x \in T \ {z} /\ T \ {z} \in SUBSET S
      BY <1>1, <1>3, <1>6
    <2> QED
      BY <2>1
  <1>8. SumFunctionOnSet(f, T \ {x}) = f[z] + SumFunctionOnSet(f, U)
    <2>1. T \ {x} \notin C /\ (T \ {x}) \ {z} = U /\ z \in T \ {x} /\ T \ {x} \in SUBSET S
      BY <1>1, <1>2, <1>3, <1>6
    <2> QED
      BY <2>1
  <1>9. f[x] \in Int /\ f[z] \in Int /\ SumFunctionOnSet(f, U) \in Int
    BY <1>3, <1>4, SumInt
  <1> HIDE DEF z, U
  <1> QED
    BY <1>2, <1>5, <1>7, <1>8, <1>9

(* An element that is added counts once. *)
LEMMA SumAdd ==
  ASSUME NEW f, NEW S, IsFiniteSet(S), NEW y, y \notin S,
         \A x \in S \cup {y} : f[x] \in Int
  PROVE  SumFunctionOnSet(f, S \cup {y}) = f[y] + SumFunctionOnSet(f, S)
  <1>1. (S \cup {y}) \ {y} = S
    OBVIOUS
  <1>2. IsFiniteSet(S \cup {y})
    BY FS_AddElement
  <1> QED
    BY <1>1, <1>2, SumRemove

(* Sums are added element by element. *)
LEMMA SumPlus ==
  ASSUME NEW f, NEW g, NEW h, NEW S, IsFiniteSet(S),
         \A x \in S : f[x] \in Int /\ g[x] \in Int /\ h[x] = f[x] + g[x]
  PROVE  SumFunctionOnSet(h, S) = SumFunctionOnSet(f, S) + SumFunctionOnSet(g, S)
  <1> DEFINE C == {T \in SUBSET S :
                     SumFunctionOnSet(h, T) # SumFunctionOnSet(f, T) + SumFunctionOnSet(g, T)}
  <1> SUFFICES ASSUME C # {} PROVE FALSE
    OBVIOUS
  <1>1. PICK T \in C : \A U \in SUBSET T : U # T => U \notin C
    <2>1. C \subseteq SUBSET S
      OBVIOUS
    <2> HIDE DEF C
    <2> QED
      BY <2>1, MinimalSubset
  <1>2. IsFiniteSet(T)
    BY FS_Subset
  <1>3. T # {}
    <2>1. SumFunctionOnSet(f, {}) = 0 /\ SumFunctionOnSet(g, {}) = 0 /\ SumFunctionOnSet(h, {}) = 0
      BY SumEmpty
    <2>2. 0 = SumFunctionOnSet(f, {}) + SumFunctionOnSet(g, {})
      BY <2>1
    <2> QED
      BY <2>1, <2>2, Zenon
  <1> DEFINE z == First(T)
             U == T \ {z}
  <1>4. z \in T /\ f[z] \in Int /\ g[z] \in Int /\ h[z] = f[z] + g[z]
    BY <1>3, FirstIn
  <1>5. SumFunctionOnSet(h, U) = SumFunctionOnSet(f, U) + SumFunctionOnSet(g, U)
    BY <1>1, <1>4
  <1>6. SumFunctionOnSet(f, U) \in Int /\ SumFunctionOnSet(g, U) \in Int
    <2>1. IsFiniteSet(U)
      BY <1>2, FS_Subset
    <2> QED
      BY <2>1, SumInt
  <1>7. /\ SumFunctionOnSet(f, T) = f[z] + SumFunctionOnSet(f, U)
        /\ SumFunctionOnSet(g, T) = g[z] + SumFunctionOnSet(g, U)
        /\ SumFunctionOnSet(h, T) = h[z] + SumFunctionOnSet(h, U)
    BY <1>2, <1>3, SumRecursion
  <1>8. SumFunctionOnSet(h, T) # SumFunctionOnSet(f, T) + SumFunctionOnSet(g, T)
    OBVIOUS
  <1> HIDE DEF z, U, C
  <1> QED
    BY <1>4, <1>5, <1>6, <1>7, <1>8

(* A smaller function has a smaller sum. *)
LEMMA SumAtMost ==
  ASSUME NEW f, NEW g, NEW S, IsFiniteSet(S),
         \A x \in S : f[x] \in Int /\ g[x] \in Int /\ f[x] <= g[x]
  PROVE  SumFunctionOnSet(f, S) <= SumFunctionOnSet(g, S)
  <1> DEFINE C == {T \in SUBSET S : ~ (SumFunctionOnSet(f, T) <= SumFunctionOnSet(g, T))}
  <1> SUFFICES ASSUME C # {} PROVE FALSE
    OBVIOUS
  <1>1. PICK T \in C : \A U \in SUBSET T : U # T => U \notin C
    <2>1. C \subseteq SUBSET S
      OBVIOUS
    <2> HIDE DEF C
    <2> QED
      BY <2>1, MinimalSubset
  <1>2. IsFiniteSet(T)
    BY FS_Subset
  <1>3. T # {}
    BY SumEmpty
  <1> DEFINE z == First(T)
             U == T \ {z}
  <1>4. z \in T /\ f[z] \in Int /\ g[z] \in Int /\ f[z] <= g[z]
    BY <1>3, FirstIn
  <1>5. SumFunctionOnSet(f, U) <= SumFunctionOnSet(g, U)
    BY <1>1, <1>4
  <1>6. SumFunctionOnSet(f, U) \in Int /\ SumFunctionOnSet(g, U) \in Int
    <2>1. IsFiniteSet(U)
      BY <1>2, FS_Subset
    <2> QED
      BY <2>1, SumInt
  <1>7. /\ SumFunctionOnSet(f, T) = f[z] + SumFunctionOnSet(f, U)
        /\ SumFunctionOnSet(g, T) = g[z] + SumFunctionOnSet(g, U)
    BY <1>2, <1>3, SumRecursion
  <1>8. ~ (SumFunctionOnSet(f, T) <= SumFunctionOnSet(g, T))
    OBVIOUS
  <1> HIDE DEF z, U, C
  <1> QED
    BY <1>4, <1>5, <1>6, <1>7, <1>8

(* A sum of zeros is 0. *)
LEMMA SumZero ==
  ASSUME NEW f, NEW S, IsFiniteSet(S), \A x \in S : f[x] = 0
  PROVE  SumFunctionOnSet(f, S) = 0
  <1> DEFINE total == SumFunctionOnSet(f, S)
  <1>1. \A x \in S : f[x] \in Int /\ f[x] = f[x] + f[x]
    OBVIOUS
  <1>2. total = total + total /\ total \in Int
    BY <1>1, SumPlus, SumInt
  <1> HIDE DEF total
  <1>3. total = 0
    BY <1>2
  <1> QED
    BY <1>3 DEF total

(* A sum of natural numbers is one. *)
LEMMA SumNat ==
  ASSUME NEW f, NEW S, IsFiniteSet(S), \A x \in S : f[x] \in Nat
  PROVE  SumFunctionOnSet(f, S) \in Nat
  <1> DEFINE g == [x \in S |-> 0]
  <1>1. SumFunctionOnSet(g, S) = 0
    BY SumZero
  <1>2. \A x \in S : g[x] \in Int /\ f[x] \in Int /\ g[x] <= f[x]
    OBVIOUS
  <1> HIDE DEF g
  <1>3. SumFunctionOnSet(g, S) <= SumFunctionOnSet(f, S)
    BY <1>2, SumAtMost
  <1>4. SumFunctionOnSet(f, S) \in Int
    BY SumInt
  <1> QED
    BY <1>1, <1>3, <1>4

(* A change of one value changes the sum by as much. *)
LEMMA SumUpdate ==
  ASSUME NEW f, NEW g, NEW S, IsFiniteSet(S), NEW y \in S,
         \A x \in S : f[x] \in Int /\ g[x] \in Int,
         \A x \in S \ {y} : f[x] = g[x]
  PROVE  SumFunctionOnSet(g, S) = SumFunctionOnSet(f, S) - f[y] + g[y]
  <1>1. /\ SumFunctionOnSet(f, S) = f[y] + SumFunctionOnSet(f, S \ {y})
        /\ SumFunctionOnSet(g, S) = g[y] + SumFunctionOnSet(g, S \ {y})
    BY SumRemove
  <1>2. IsFiniteSet(S \ {y})
    BY FS_Subset
  <1>3. SumFunctionOnSet(f, S \ {y}) = SumFunctionOnSet(g, S \ {y})
    BY <1>2, SumSame
  <1>4. SumFunctionOnSet(f, S \ {y}) \in Int /\ f[y] \in Int /\ g[y] \in Int
    BY <1>2, SumInt
  <1> QED
    BY <1>1, <1>3, <1>4

(* The sum over two disjoint sets. *)
LEMMA SumUnion ==
  ASSUME NEW f, NEW S, IsFiniteSet(S), NEW R, IsFiniteSet(R), S \cap R = {},
         \A x \in S \cup R : f[x] \in Int
  PROVE  SumFunctionOnSet(f, S \cup R) = SumFunctionOnSet(f, S) + SumFunctionOnSet(f, R)
  <1> DEFINE C == {T \in SUBSET S :
                SumFunctionOnSet(f, T \cup R) # SumFunctionOnSet(f, T) + SumFunctionOnSet(f, R)}
  <1> SUFFICES ASSUME C # {} PROVE FALSE
    OBVIOUS
  <1>1. PICK T \in C : \A U \in SUBSET T : U # T => U \notin C
    <2>1. C \subseteq SUBSET S
      OBVIOUS
    <2> HIDE DEF C
    <2> QED
      BY <2>1, MinimalSubset
  <1>2. IsFiniteSet(T) /\ IsFiniteSet(T \cup R)
    BY FS_Subset, FS_Union
  <1>3. T # {}
    <2>1. SumFunctionOnSet(f, {}) = 0 /\ SumFunctionOnSet(f, R) \in Int /\ {} \cup R = R
      BY SumEmpty, SumInt
    <2> QED
      BY <2>1
  <1>4. PICK z \in T : TRUE
    BY <1>3
  <1> DEFINE U == T \ {z}
  <1>5. SumFunctionOnSet(f, U \cup R) = SumFunctionOnSet(f, U) + SumFunctionOnSet(f, R)
    BY <1>1
  <1>6. IsFiniteSet(U)
    BY <1>2, FS_Subset
  <1>7. SumFunctionOnSet(f, T) = f[z] + SumFunctionOnSet(f, U)
    BY <1>2, SumRemove
  <1>8. SumFunctionOnSet(f, T \cup R) = f[z] + SumFunctionOnSet(f, U \cup R)
    <2>1. (T \cup R) \ {z} = U \cup R /\ z \in T \cup R
      OBVIOUS
    <2> QED
      BY <1>2, <2>1, SumRemove
  <1>9. /\ SumFunctionOnSet(f, U) \in Int /\ SumFunctionOnSet(f, R) \in Int /\ f[z] \in Int
        /\ SumFunctionOnSet(f, T \cup R) # SumFunctionOnSet(f, T) + SumFunctionOnSet(f, R)
    BY <1>6, SumInt
  <1> HIDE DEF U, C
  <1> QED
    BY <1>5, <1>7, <1>8, <1>9

(* The sum of natural numbers over a part of a set. *)
LEMMA SumPart ==
  ASSUME NEW f, NEW S, IsFiniteSet(S), \A x \in S : f[x] \in Nat, NEW T \in SUBSET S
  PROVE  SumFunctionOnSet(f, T) <= SumFunctionOnSet(f, S)
  <1>1. IsFiniteSet(T) /\ IsFiniteSet(S \ T) /\ T \cup (S \ T) = S /\ T \cap (S \ T) = {}
    BY FS_Subset
  <1>2. SumFunctionOnSet(f, T) \in Nat /\ SumFunctionOnSet(f, S \ T) \in Nat
    BY <1>1, SumNat
  <1>3. SumFunctionOnSet(f, S) = SumFunctionOnSet(f, T) + SumFunctionOnSet(f, S \ T)
    BY <1>1, SumUnion
  <1> QED
    BY <1>2, <1>3

(* A sum over renamed elements. *)
LEMMA SumRenamed ==
  ASSUME NEW f, NEW g, NEW m, NEW S, IsFiniteSet(S),
         \A x \in S : f[x] = g[m[x]] /\ g[m[x]] \in Int,
         \A x \in S, y \in S : m[x] = m[y] => x = y,
         NEW R, R = {m[x] : x \in S}
  PROVE  SumFunctionOnSet(f, S) = SumFunctionOnSet(g, R)
  <1> DEFINE I(T) == {m[x] : x \in T}
             C == {T \in SUBSET S : SumFunctionOnSet(f, T) # SumFunctionOnSet(g, I(T))}
  <1> SUFFICES ASSUME C # {} PROVE FALSE
    OBVIOUS
  <1>1. PICK T \in C : \A U \in SUBSET T : U # T => U \notin C
    <2>1. C \subseteq SUBSET S
      OBVIOUS
    <2> HIDE DEF C
    <2> QED
      BY <2>1, MinimalSubset
  <1>2. IsFiniteSet(T) /\ IsFiniteSet(I(T))
    <2>1. IsFiniteSet(T)
      BY FS_Subset
    <2> DEFINE h == [x \in T |-> m[x]]
    <2>2. h \in Surjection(T, I(T))
      BY DEF Surjection
    <2> QED
      BY <2>1, <2>2, FS_Surjection
  <1>3. T # {}
    <2>1. SumFunctionOnSet(f, {}) = 0 /\ SumFunctionOnSet(g, {}) = 0 /\ I({}) = {}
      BY SumEmpty
    <2> QED
      BY <2>1
  <1>4. PICK z \in T : TRUE
    BY <1>3
  <1>5. SumFunctionOnSet(f, T \ {z}) = SumFunctionOnSet(g, I(T \ {z}))
    BY <1>1
  <1>6. I(T) \ {m[z]} = I(T \ {z}) /\ m[z] \in I(T)
    OBVIOUS
  <1>7. SumFunctionOnSet(f, T) = f[z] + SumFunctionOnSet(f, T \ {z})
    BY <1>2, SumRemove
  <1>8. SumFunctionOnSet(g, I(T)) = g[m[z]] + SumFunctionOnSet(g, I(T) \ {m[z]})
    <2>1. \A y \in I(T) : g[y] \in Int
      OBVIOUS
    <2> HIDE DEF I
    <2> QED
      BY <1>2, <1>6, <2>1, SumRemove
  <1> QED
    BY <1>5, <1>6, <1>7, <1>8

(* The elements whose value is 0 do not count. *)
LEMMA SumSupport ==
  ASSUME NEW f, NEW S, IsFiniteSet(S), \A x \in S : f[x] \in Int,
         NEW T, T = {x \in S : f[x] # 0}
  PROVE  SumFunctionOnSet(f, S) = SumFunctionOnSet(f, T)
  <1> DEFINE Z == S \ T
  <1>1. T \subseteq S /\ IsFiniteSet(T) /\ IsFiniteSet(Z) /\ T \cap Z = {} /\ T \cup Z = S
    BY FS_Subset
  <1>2. \A x \in Z : f[x] = 0
    OBVIOUS
  <1> HIDE DEF Z
  <1>3. SumFunctionOnSet(f, Z) = 0
    BY <1>1, <1>2, SumZero
  <1>4. SumFunctionOnSet(f, T) \in Int
    BY <1>1, SumInt
  <1>5. SumFunctionOnSet(f, S) = SumFunctionOnSet(f, T) + SumFunctionOnSet(f, Z)
    BY <1>1, SumUnion
  <1> QED
    BY <1>3, <1>4, <1>5

-----------------------------------------------------------------------------
(* A nonempty finite set of integers has a greatest element. *)
LEMMA GreatestElement ==
  ASSUME NEW T, T \subseteq Int, IsFiniteSet(T), T # {}
  PROVE  \E x \in T : \A y \in T : y <= x
  <1> SUFFICES ASSUME \A x \in T : \E y \in T : y > x PROVE FALSE
    <2>1. ASSUME NEW x \in T, NEW y \in T, ~ (y <= x) PROVE y > x
      BY <2>1
    <2> QED
      BY <2>1
  <1> DEFINE Above(x) == {y \in T : y > x}
             F == {Above(x) : x \in T}
  <1>1. F \subseteq FiniteSubsetsOf(T) /\ F # {}
    <2>1. ASSUME NEW x \in T PROVE Above(x) \in FiniteSubsetsOf(T)
      BY FS_Subset DEF FiniteSubsetsOf
    <2> QED
      BY <2>1
  <1>2. PICK U \in F : \A V \in F : ~ (<<V, U>> \in StrictSubsetOrdering(T))
    BY <1>1, FS_StrictSubsetOrderingWellFounded, WFMin
  <1>3. PICK x \in T : U = Above(x)
    OBVIOUS
  <1>4. PICK y \in T : y > x
    OBVIOUS
  <1>5. Above(y) \subseteq Above(x)
    <2>1. ASSUME NEW z \in T, z > y PROVE z > x
      BY <1>4, <2>1
    <2> QED
      BY <2>1
  <1>6. y \in Above(x) /\ y \notin Above(y)
    BY <1>4
  <1>7. <<Above(y), Above(x)>> \in StrictSubsetOrdering(T)
    BY <1>5, <1>6 DEF StrictSubsetOrdering
  <1> QED
    BY <1>2, <1>3, <1>7

(* A nonempty finite set of integers has a least element. *)
LEMMA LeastElement ==
  ASSUME NEW T, T \subseteq Int, IsFiniteSet(T), T # {}
  PROVE  \E x \in T : \A y \in T : y >= x
  <1> SUFFICES ASSUME \A x \in T : \E y \in T : y < x PROVE FALSE
    <2>1. ASSUME NEW x \in T, NEW y \in T, ~ (y >= x) PROVE y < x
      BY <2>1
    <2> QED
      BY <2>1
  <1> DEFINE Below(x) == {y \in T : y < x}
             F == {Below(x) : x \in T}
  <1>1. F \subseteq FiniteSubsetsOf(T) /\ F # {}
    <2>1. ASSUME NEW x \in T PROVE Below(x) \in FiniteSubsetsOf(T)
      BY FS_Subset DEF FiniteSubsetsOf
    <2> QED
      BY <2>1
  <1>2. PICK U \in F : \A V \in F : ~ (<<V, U>> \in StrictSubsetOrdering(T))
    BY <1>1, FS_StrictSubsetOrderingWellFounded, WFMin
  <1>3. PICK x \in T : U = Below(x)
    OBVIOUS
  <1>4. PICK y \in T : y < x
    OBVIOUS
  <1>5. Below(y) \subseteq Below(x)
    <2>1. ASSUME NEW z \in T, z < y PROVE z < x
      BY <1>4, <2>1
    <2> QED
      BY <2>1
  <1>6. y \in Below(x) /\ y \notin Below(y)
    BY <1>4
  <1>7. <<Below(y), Below(x)>> \in StrictSubsetOrdering(T)
    BY <1>5, <1>6 DEF StrictSubsetOrdering
  <1> QED
    BY <1>2, <1>3, <1>7

-----------------------------------------------------------------------------
(* Division with remainder. *)
LEMMA Division ==
  ASSUME NEW u \in Nat \ {0}, NEW x \in Nat
  PROVE  x \div u \in Nat /\ x % u \in 0 .. (u - 1) /\ x = u * (x \div u) + (x % u)
  OBVIOUS

LEMMA RemaindersAgree ==
  ASSUME NEW u \in Nat \ {0}, NEW a \in Int, NEW b \in Int,
         NEW r \in 0 .. (u - 1), NEW s \in 0 .. (u - 1), u * a + r = u * b + s
  PROVE  r = s
  <1>1. u * (a - b) = s - r
    OBVIOUS
  <1>2. CASE a > b
    <2>1. u * (a - b) >= u
      BY <1>2
    <2> QED
      BY <1>1, <2>1
  <1>3. CASE a < b
    <2>1. u * (b - a) >= u
      BY <1>3
    <2>2. u * (b - a) = r - s
      BY <1>1
    <2> QED
      BY <2>1, <2>2
  <1> QED
    BY <1>1, <1>2, <1>3

LEMMA RemainderOfSum ==
  ASSUME NEW u \in Nat \ {0}, NEW x \in Nat, NEW y \in Nat
  PROVE  \/ (x + y) % u = (x % u) + (y % u)
         \/ (x + y) % u = (x % u) + (y % u) - u
  <1> DEFINE X == x \div u
             Y == y \div u
             Z == (x + y) \div u
             r == x % u
             s == y % u
             t == (x + y) % u
  <1>1. X \in Nat /\ r \in 0 .. (u - 1) /\ x = u * X + r
    BY Division
  <1>2. Y \in Nat /\ s \in 0 .. (u - 1) /\ y = u * Y + s
    BY Division
  <1>3. Z \in Nat /\ t \in 0 .. (u - 1) /\ x + y = u * Z + t
    <2>1. x + y \in Nat
      OBVIOUS
    <2> QED
      BY <2>1, Division
  <1> HIDE DEF X, Y, Z, r, s, t
  <1>4. CASE r + s < u
    <2>1. u * Z + t = u * (X + Y) + (r + s)
      BY <1>1, <1>2, <1>3
    <2>2. r + s \in 0 .. (u - 1) /\ X + Y \in Int /\ Z \in Int
      BY <1>1, <1>2, <1>3, <1>4
    <2>3. t = r + s
      BY <1>3, <2>1, <2>2, RemaindersAgree
    <2> QED
      BY <2>3 DEF r, s, t
  <1>5. CASE r + s >= u
    <2>1. u * Z + t = u * (X + Y + 1) + (r + s - u)
      BY <1>1, <1>2, <1>3
    <2>2. r + s - u \in 0 .. (u - 1) /\ X + Y + 1 \in Int /\ Z \in Int
      BY <1>1, <1>2, <1>3, <1>5
    <2>3. t = r + s - u
      BY <1>3, <2>1, <2>2, RemaindersAgree
    <2> QED
      BY <2>3 DEF r, s, t
  <1> QED
    BY <1>1, <1>2, <1>4, <1>5

=============================================================================
