-------------------------------- MODULE Sums --------------------------------
(***************************************************************************)
(* Sums of a function over a finite set of indices, for the totals that    *)
(* Refund, Checkout and Accounts keep: what the fold of the community      *)
(* modules adds up to, one index at a time.                                *)
(*                                                                         *)
(* The induction is over the finite subsets of the indices: the library's  *)
(* well-founded minimum of a set of counterexamples, which is first-order. *)
(***************************************************************************)
EXTENDS Naturals, Functions, FiniteSetTheorems, TLAPS

SumOver(f, S) == SumFunctionOnSet(f, S)

(* The index the fold takes first.                                         *)
First(S) == CHOOSE x \in S : TRUE

(* g holds the sums of f over all subsets of S.                            *)
Folds(g, f, S) ==
    g = [s \in SUBSET S |-> IF s = {} THEN 0 ELSE f[First(s)] + g[s \ {First(s)}]]

(* Every set of counterexamples among the subsets of a finite set has one  *)
(* that is minimal.                                                        *)
LEMMA MinimalSubset ==
    ASSUME NEW S, IsFiniteSet(S), NEW Bad \in SUBSET (SUBSET S), Bad # {}
    PROVE  \E T \in Bad : \A U \in SUBSET T : U # T => U \notin Bad
<1>1. IsWellFoundedOn(StrictSubsetOrdering(S), SUBSET S)
  BY FS_StrictSubsetOrderingWellFounded, FS_FiniteSubsetsOfFinite
<1>2. PICK T \in Bad : \A U \in Bad : <<U, T>> \notin StrictSubsetOrdering(S)
  BY <1>1, WFMin
<1>3. \A U \in SUBSET T : U # T => U \notin Bad
  BY <1>2 DEF StrictSubsetOrdering
<1> QED BY <1>3

(* The fold of the community modules is the table of sums, looked up.      *)
LEMMA SumIsFold ==
    ASSUME NEW f, NEW S
    PROVE  SumOver(f, S) = (CHOOSE g : Folds(g, f, S))[S]
BY DEF SumOver, SumFunctionOnSet, FoldFunctionOnSet, MapThenFoldSet, Folds, First

(* Two tables of sums agree where both are defined.                        *)
LEMMA FoldsAgree ==
    ASSUME NEW f, NEW S, IsFiniteSet(S), NEW T \in SUBSET S,
           NEW g, Folds(g, f, S), NEW h, Folds(h, f, T)
    PROVE  \A U \in SUBSET T : g[U] = h[U]
<1> DEFINE Bad == {U \in SUBSET T : g[U] # h[U]}
<1> SUFFICES ASSUME Bad # {} PROVE FALSE
  OBVIOUS
<1>1. IsFiniteSet(T) /\ Bad \in SUBSET (SUBSET T)
  BY FS_Subset
<1>2. PICK U \in Bad : \A V \in SUBSET U : V # U => V \notin Bad
  <2> HIDE DEF Bad
  <2> QED BY <1>1, MinimalSubset
<1>3. CASE U = {}
  BY <1>2, <1>3 DEF Folds
<1>4. CASE U # {}
  <2>1. First(U) \in U
    BY <1>4 DEF First
  <2>2. U \ {First(U)} \in SUBSET U /\ U \ {First(U)} # U
    BY <2>1
  <2>3. g[U \ {First(U)}] = h[U \ {First(U)}]
    BY <1>2, <2>2
  <2>4. g[U] = f[First(U)] + g[U \ {First(U)}]
    BY <1>4 DEF Folds
  <2>5. h[U] = f[First(U)] + h[U \ {First(U)}]
    BY <1>4 DEF Folds
  <2> QED BY <2>3, <2>4, <2>5
<1> QED BY <1>3, <1>4

(* There is a table of the sums over the subsets of a finite set.          *)
LEMMA FoldExists ==
    ASSUME NEW f, NEW S, IsFiniteSet(S)
    PROVE  \E g : Folds(g, f, S)
<1> DEFINE Bad == {T \in SUBSET S : ~ \E g : Folds(g, f, T)}
<1> SUFFICES ASSUME Bad # {} PROVE FALSE
  OBVIOUS
<1>1. PICK T \in Bad : \A U \in SUBSET T : U # T => U \notin Bad
  <2>1. Bad \in SUBSET (SUBSET S)
    OBVIOUS
  <2> HIDE DEF Bad
  <2> QED BY <2>1, MinimalSubset
<1>2. \A U \in SUBSET T : U # T => \E g : Folds(g, f, U)
  BY <1>1
<1> DEFINE tab(U) == CHOOSE g : Folds(g, f, U)
           rest == T \ {First(T)}
           g == [s \in SUBSET T |->
                   IF s = {} THEN 0
                   ELSE IF s = T THEN f[First(T)] + tab(rest)[rest] ELSE tab(s)[s]]
<1>3. \A U \in SUBSET T : U # T => Folds(tab(U), f, U)
  BY <1>2
<1>4. ASSUME NEW s \in SUBSET T, s # {}
      PROVE  g[s] = f[First(s)] + g[s \ {First(s)}]
  <2> DEFINE r == s \ {First(s)}
  <2>1. First(s) \in s
    BY <1>4 DEF First
  <2>2. r \in SUBSET T /\ r # T /\ r \in SUBSET s
    BY <2>1
  <2>3. Folds(tab(r), f, r)
    BY <2>2, <1>3
  <2>4. g[r] = tab(r)[r]
    <3>1. CASE r = {}
      BY <2>2, <2>3, <3>1 DEF Folds
    <3>2. CASE r # {}
      BY <2>2, <3>2
    <3> QED BY <3>1, <3>2
  <2>5. CASE s = T
    BY <2>4, <2>5, <1>4
  <2>6. CASE s # T
    <3>1. Folds(tab(s), f, s)
      BY <2>6, <1>3
    <3>2. tab(s)[s] = f[First(s)] + tab(s)[r]
      BY <3>1, <1>4 DEF Folds
    <3>3. IsFiniteSet(s)
      BY FS_Subset
    <3>4. tab(s)[r] = tab(r)[r]
      BY <3>1, <3>3, <2>2, <2>3, FoldsAgree
    <3> QED BY <3>2, <3>4, <2>4, <2>6, <1>4
  <2> QED BY <2>5, <2>6
<1>5. Folds(g, f, T)
  <2>1. g = [s \in SUBSET T |->
               IF s = {} THEN 0 ELSE f[First(s)] + g[s \ {First(s)}]]
    <3>0. g[{}] = 0
      OBVIOUS
    <3> HIDE DEF g
    <3>1. \A s \in SUBSET T : g[s] = IF s = {} THEN 0 ELSE f[First(s)] + g[s \ {First(s)}]
      BY <1>4, <3>0
    <3>2. g = [s \in SUBSET T |-> g[s]]
      BY DEF g
    <3> QED BY <3>1, <3>2
  <2> HIDE DEF g
  <2> QED BY <2>1 DEF Folds
<1> QED BY <1>1, <1>5

(* Any table of sums holds the sums.                                       *)
LEMMA SumIsTabled ==
    ASSUME NEW f, NEW S, IsFiniteSet(S), NEW g, Folds(g, f, S)
    PROVE  \A T \in SUBSET S : SumOver(f, T) = g[T]
<1> SUFFICES ASSUME NEW T \in SUBSET S PROVE SumOver(f, T) = g[T]
  OBVIOUS
<1> DEFINE h == CHOOSE h : Folds(h, f, T)
<1>1. Folds(h, f, T)
  BY FS_Subset, FoldExists
<1>2. SumOver(f, T) = h[T]
  BY SumIsFold
<1>3. T \in SUBSET T
  OBVIOUS
<1> HIDE DEF h
<1> QED BY <1>1, <1>2, <1>3, FoldsAgree

(* Nothing adds up to zero.                                                *)
LEMMA SumOfNothing == ASSUME NEW f PROVE SumOver(f, {}) = 0
<1>1. IsFiniteSet({})
  BY FS_EmptySet
<1>2. PICK g : Folds(g, f, {})
  BY <1>1, FoldExists
<1>3. g[{}] = 0
  BY <1>2 DEF Folds
<1> QED BY <1>1, <1>2, <1>3, SumIsTabled

(* The fold takes its first index out, and goes on with the rest.          *)
LEMMA SumTakesFirst ==
    ASSUME NEW f, NEW S, IsFiniteSet(S), S # {}
    PROVE  SumOver(f, S) = f[First(S)] + SumOver(f, S \ {First(S)})
<1>1. PICK g : Folds(g, f, S)
  BY FoldExists
<1>2. First(S) \in S
  BY DEF First
<1>3. g[S] = f[First(S)] + g[S \ {First(S)}]
  BY <1>1 DEF Folds
<1>4. SumOver(f, S) = g[S] /\ SumOver(f, S \ {First(S)}) = g[S \ {First(S)}]
  BY <1>1, SumIsTabled
<1> QED BY <1>3, <1>4

(* A sum of natural numbers is one.                                        *)
LEMMA SumIsNat ==
    ASSUME NEW S, IsFiniteSet(S), NEW f, \A x \in S : f[x] \in Nat
    PROVE  SumOver(f, S) \in Nat
<1> DEFINE Bad == {T \in SUBSET S : SumOver(f, T) \notin Nat}
<1> SUFFICES ASSUME Bad # {} PROVE FALSE
  OBVIOUS
<1>1. PICK T \in Bad : \A U \in SUBSET T : U # T => U \notin Bad
  <2>1. Bad \in SUBSET (SUBSET S)
    OBVIOUS
  <2> HIDE DEF Bad
  <2> QED BY <2>1, MinimalSubset
<1>2. T # {}
  <2>1. SumOver(f, T) \notin Nat
    BY <1>1
  <2> QED BY <2>1, SumOfNothing
<1>3. First(T) \in T
  BY <1>2 DEF First
<1>4. SumOver(f, T) = f[First(T)] + SumOver(f, T \ {First(T)})
  BY <1>1, <1>2, FS_Subset, SumTakesFirst
<1>5. SumOver(f, T \ {First(T)}) \in Nat
  BY <1>1, <1>3
<1>6. f[First(T)] \in Nat
  BY <1>1, <1>3
<1> QED BY <1>1, <1>4, <1>5, <1>6

(* Any index may be taken out first.                                       *)
LEMMA SumTakes ==
    ASSUME NEW S, IsFiniteSet(S), NEW f, \A x \in S : f[x] \in Nat, NEW y \in S
    PROVE  SumOver(f, S) = f[y] + SumOver(f, S \ {y})
<1> DEFINE Differs(T, z) == SumOver(f, T) # f[z] + SumOver(f, T \ {z})
           Bad == {T \in SUBSET S : \E z \in T : Differs(T, z)}
<1> SUFFICES ASSUME Bad # {} PROVE FALSE
  <2>1. S \in SUBSET S
    OBVIOUS
  <2> QED BY <2>1
<1>1. PICK T \in Bad : \A U \in SUBSET T : U # T => U \notin Bad
  <2>1. Bad \in SUBSET (SUBSET S)
    OBVIOUS
  <2> HIDE DEF Bad
  <2> QED BY <2>1, MinimalSubset
<1>2. PICK z \in T : Differs(T, z)
  BY <1>1
<1> DEFINE x == First(T)
<1>3. T \in SUBSET S /\ x \in T
  BY <1>1, <1>2 DEF First
<1>4. SumOver(f, T) = f[x] + SumOver(f, T \ {x})
  BY <1>2, <1>3, FS_Subset, SumTakesFirst
<1>5. x # z
  BY <1>2, <1>4
<1>6. SumOver(f, T \ {x}) = f[z] + SumOver(f, (T \ {x}) \ {z})
  BY <1>1, <1>2, <1>3, <1>5
<1>7. SumOver(f, T \ {z}) = f[x] + SumOver(f, (T \ {z}) \ {x})
  BY <1>1, <1>2, <1>3, <1>5
<1>8. (T \ {x}) \ {z} = (T \ {z}) \ {x}
  OBVIOUS
<1>9. SumOver(f, (T \ {x}) \ {z}) \in Nat
  <2>1. (T \ {x}) \ {z} \in SUBSET S
    BY <1>3
  <2>2. IsFiniteSet((T \ {x}) \ {z})
    BY <2>1, FS_Subset
  <2> QED BY <2>1, <2>2, SumIsNat
<1>10. f[x] \in Nat /\ f[z] \in Nat
  BY <1>3
<1>11. SumOver(f, T) # f[z] + SumOver(f, T \ {z})
  BY <1>2
<1>12. PICK n \in Nat : n = SumOver(f, (T \ {x}) \ {z})
  BY <1>9
<1>13. PICK a \in Nat, b \in Nat : a = f[x] /\ b = f[z]
  BY <1>10
<1>14. SumOver(f, T) = a + (b + n) /\ SumOver(f, T \ {z}) = a + n
  BY <1>4, <1>6, <1>7, <1>8, <1>12, <1>13
<1>15. SumOver(f, T) # b + (a + n)
  BY <1>11, <1>13, <1>14
<1> QED BY <1>14, <1>15

(* The sum looks at f on its indices only.                                 *)
LEMMA SumAgrees ==
    ASSUME NEW S, IsFiniteSet(S), NEW f, NEW g, \A x \in S : f[x] = g[x]
    PROVE  SumOver(f, S) = SumOver(g, S)
<1> DEFINE Bad == {T \in SUBSET S : SumOver(f, T) # SumOver(g, T)}
<1> SUFFICES ASSUME Bad # {} PROVE FALSE
  <2>1. S \in SUBSET S
    OBVIOUS
  <2> QED BY <2>1
<1>1. PICK T \in Bad : \A U \in SUBSET T : U # T => U \notin Bad
  <2>1. Bad \in SUBSET (SUBSET S)
    OBVIOUS
  <2> HIDE DEF Bad
  <2> QED BY <2>1, MinimalSubset
<1>2. T \in SUBSET S /\ SumOver(f, T) # SumOver(g, T)
  BY <1>1
<1>3. T # {}
  BY <1>2, SumOfNothing
<1> DEFINE x == First(T)
<1>4. x \in T
  BY <1>3 DEF First
<1>5. IsFiniteSet(T)
  BY <1>2, FS_Subset
<1>6. /\ SumOver(f, T) = f[x] + SumOver(f, T \ {x})
      /\ SumOver(g, T) = g[x] + SumOver(g, T \ {x})
  BY <1>3, <1>5, SumTakesFirst
<1>7. SumOver(f, T \ {x}) = SumOver(g, T \ {x})
  BY <1>1, <1>2, <1>4
<1> QED BY <1>2, <1>4, <1>6, <1>7

(* A larger function has a larger sum.                                     *)
LEMMA SumIsMonotone ==
    ASSUME NEW S, IsFiniteSet(S), NEW f, NEW g,
           \A x \in S : f[x] \in Nat /\ g[x] \in Nat /\ f[x] <= g[x]
    PROVE  SumOver(f, S) <= SumOver(g, S)
<1> DEFINE Bad == {T \in SUBSET S : ~(SumOver(f, T) <= SumOver(g, T))}
<1> SUFFICES ASSUME Bad # {} PROVE FALSE
  <2>1. S \in SUBSET S
    OBVIOUS
  <2> QED BY <2>1
<1>1. PICK T \in Bad : \A U \in SUBSET T : U # T => U \notin Bad
  <2>1. Bad \in SUBSET (SUBSET S)
    OBVIOUS
  <2> HIDE DEF Bad
  <2> QED BY <2>1, MinimalSubset
<1>2. T \in SUBSET S /\ ~(SumOver(f, T) <= SumOver(g, T))
  BY <1>1
<1>3. T # {}
  BY <1>2, SumOfNothing
<1> DEFINE x == First(T)
<1>4. x \in T
  BY <1>3 DEF First
<1>5. IsFiniteSet(T) /\ IsFiniteSet(T \ {x})
  BY <1>2, FS_Subset
<1>6. /\ SumOver(f, T) = f[x] + SumOver(f, T \ {x})
      /\ SumOver(g, T) = g[x] + SumOver(g, T \ {x})
  BY <1>3, <1>5, SumTakesFirst
<1>7. SumOver(f, T \ {x}) <= SumOver(g, T \ {x})
  BY <1>1, <1>2, <1>4
<1>8. SumOver(f, T \ {x}) \in Nat /\ SumOver(g, T \ {x}) \in Nat
  BY <1>2, <1>5, SumIsNat
<1>9. f[x] \in Nat /\ g[x] \in Nat /\ f[x] <= g[x]
  BY <1>2, <1>4
<1> HIDE DEF x
<1> QED BY <1>2, <1>6, <1>7, <1>8, <1>9

(* One index changes: the sum changes by as much.                          *)
LEMMA SumChangesBy ==
    ASSUME NEW S, IsFiniteSet(S), NEW f, NEW g, NEW y \in S,
           \A x \in S : f[x] \in Nat /\ g[x] \in Nat,
           \A x \in S \ {y} : f[x] = g[x]
    PROVE  SumOver(g, S) + f[y] = SumOver(f, S) + g[y]
<1>1. SumOver(f, S) = f[y] + SumOver(f, S \ {y})
  BY SumTakes
<1>2. SumOver(g, S) = g[y] + SumOver(g, S \ {y})
  BY SumTakes
<1>3. IsFiniteSet(S \ {y})
  BY FS_Subset
<1>4. SumOver(f, S \ {y}) = SumOver(g, S \ {y})
  BY <1>3, SumAgrees
<1>5. SumOver(f, S \ {y}) \in Nat
  BY <1>3, SumIsNat
<1> QED BY <1>1, <1>2, <1>4, <1>5

(* No term exceeds the sum.                                                *)
LEMMA SumCovers ==
    ASSUME NEW S, IsFiniteSet(S), NEW f, \A x \in S : f[x] \in Nat, NEW y \in S
    PROVE  f[y] <= SumOver(f, S)
<1>1. SumOver(f, S) = f[y] + SumOver(f, S \ {y})
  BY SumTakes
<1>2. SumOver(f, S \ {y}) \in Nat
  BY FS_Subset, SumIsNat
<1> QED BY <1>1, <1>2

(* Nothing but zeros adds up to zero.                                      *)
LEMMA SumOfZeros ==
    ASSUME NEW S, IsFiniteSet(S), NEW f, \A x \in S : f[x] = 0
    PROVE  SumOver(f, S) = 0
<1> DEFINE Bad == {T \in SUBSET S : SumOver(f, T) # 0}
<1> SUFFICES ASSUME Bad # {} PROVE FALSE
  <2>1. S \in SUBSET S
    OBVIOUS
  <2> QED BY <2>1
<1>1. PICK T \in Bad : \A U \in SUBSET T : U # T => U \notin Bad
  <2>1. Bad \in SUBSET (SUBSET S)
    OBVIOUS
  <2> HIDE DEF Bad
  <2> QED BY <2>1, MinimalSubset
<1>2. T \in SUBSET S /\ SumOver(f, T) # 0
  BY <1>1
<1>3. T # {}
  BY <1>2, SumOfNothing
<1>4. First(T) \in T
  BY <1>3 DEF First
<1>5. SumOver(f, T) = f[First(T)] + SumOver(f, T \ {First(T)})
  BY <1>2, <1>3, FS_Subset, SumTakesFirst
<1>6. SumOver(f, T \ {First(T)}) = 0
  BY <1>1, <1>2, <1>4
<1> QED BY <1>2, <1>4, <1>5, <1>6

(* No two terms together exceed the sum.                                   *)
LEMMA SumCoversTwo ==
    ASSUME NEW S, IsFiniteSet(S), NEW f, \A x \in S : f[x] \in Nat,
           NEW y \in S, NEW z \in S, y # z
    PROVE  f[y] + f[z] <= SumOver(f, S)
<1>1. SumOver(f, S) = f[y] + SumOver(f, S \ {y})
  BY SumTakes
<1>2. IsFiniteSet(S \ {y})
  BY FS_Subset
<1>3. f[z] <= SumOver(f, S \ {y})
  BY <1>2, SumCovers
<1>4. SumOver(f, S \ {y}) \in Nat
  BY <1>2, SumIsNat
<1> QED BY <1>1, <1>3, <1>4

(* Indices whose term is zero may be left out.                             *)
LEMMA SumIgnoresZeros ==
    ASSUME NEW S, IsFiniteSet(S), NEW f, \A x \in S : f[x] \in Nat,
           NEW T \in SUBSET S, \A x \in S \ T : f[x] = 0
    PROVE  SumOver(f, S) = SumOver(f, T)
<1> DEFINE Bad == {U \in SUBSET S : SumOver(f, U) # SumOver(f, U \cap T)}
<1> SUFFICES ASSUME Bad # {} PROVE FALSE
  <2>1. S \in SUBSET S /\ S \cap T = T
    OBVIOUS
  <2> QED BY <2>1
<1>1. PICK U \in Bad : \A V \in SUBSET U : V # U => V \notin Bad
  <2>1. Bad \in SUBSET (SUBSET S)
    OBVIOUS
  <2> HIDE DEF Bad
  <2> QED BY <2>1, MinimalSubset
<1>2. U \in SUBSET S /\ SumOver(f, U) # SumOver(f, U \cap T)
  BY <1>1
<1>3. U \cap T # U
  BY <1>2
<1>4. PICK z \in U : z \notin T
  BY <1>3
<1>5. SumOver(f, U) = f[z] + SumOver(f, U \ {z})
  BY <1>2, FS_Subset, SumTakes
<1>6. SumOver(f, U \ {z}) = SumOver(f, (U \ {z}) \cap T)
  BY <1>1, <1>2
<1>7. (U \ {z}) \cap T = U \cap T
  BY <1>4
<1>8. f[z] = 0
  BY <1>2, <1>4
<1>9. SumOver(f, U \ {z}) \in Nat
  <2>1. U \ {z} \in SUBSET S
    BY <1>2
  <2> QED BY <2>1, FS_Subset, SumIsNat
<1>10. SumOver(f, U) = SumOver(f, U \ {z})
  BY <1>5, <1>8, <1>9
<1>11. SumOver(f, U \ {z}) = SumOver(f, U \cap T)
  BY <1>6, <1>7, Zenon
<1> QED BY <1>2, <1>10, <1>11, Zenon
=============================================================================
