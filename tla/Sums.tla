-------------------------------- MODULE Sums ---------------------------------
(***************************************************************************)
(* Facts about the sums of the community modules (SumFunctionOnSet and what  *)
(* is built on the same fold), for the proofs about balances. The fold is a    *)
(* recursive function on the subsets of a finite set; every fact about it is    *)
(* proved by looking at a smallest subset for which it fails.                  *)
(***************************************************************************)
EXTENDS Integers, FiniteSets, Functions, FiniteSetTheorems, TLAPS

Pick(s) == CHOOSE x \in s : TRUE

(* g is the fold of f over the subsets of S.                                   *)
IsFold(f, S, g) ==
  g = [s \in SUBSET S |-> IF s = {} THEN 0 ELSE f[Pick(s)] + g[s \ {Pick(s)}]]

Sum(f, S) == SumFunctionOnSet(f, S)
-----------------------------------------------------------------------------
(* A set of subsets of a finite set has a smallest element.                    *)
LEMMA SmallestSubset ==
  ASSUME NEW T, IsFiniteSet(T), NEW Bad, Bad \subseteq SUBSET T, Bad # {}
  PROVE  \E U \in Bad : IsFiniteSet(U) /\ \A V \in SUBSET U : V # U => V \notin Bad
  <1>1. Bad \subseteq FiniteSubsetsOf(T)
    BY FS_Subset DEF FiniteSubsetsOf
  <1>2. PICK U \in Bad : \A V \in Bad : ~ (<<V, U>> \in StrictSubsetOrdering(T))
    BY <1>1, FS_StrictSubsetOrderingWellFounded, WFMin
  <1>3. ASSUME NEW V \in SUBSET U, V # U, V \in Bad PROVE FALSE
    BY <1>2, <1>3 DEF StrictSubsetOrdering
  <1> QED
    BY <1>2, <1>3, FS_Subset

LEMMA SumIsFold ==
  ASSUME NEW f, NEW S
  PROVE  Sum(f, S) = (CHOOSE g : IsFold(f, S, g))[S]
  BY DEF Sum, SumFunctionOnSet, FoldFunctionOnSet, MapThenFoldSet, IsFold, Pick
-----------------------------------------------------------------------------
(* The fold is well defined                                                     *)

(* Two folds agree on every finite set that both know.                          *)
LEMMA FoldsAgree ==
  ASSUME NEW f, NEW A, NEW B, NEW g, NEW h, IsFold(f, A, g), IsFold(f, B, h),
         NEW T, T \subseteq A, T \subseteq B, IsFiniteSet(T)
  PROVE  g[T] = h[T]
  <1> DEFINE Bad == {U \in SUBSET T : g[U] # h[U]}
  <1>1. SUFFICES ASSUME Bad # {} PROVE FALSE
    BY <1>1
  <1>2. PICK U \in Bad : \A V \in SUBSET U : V # U => V \notin Bad
    <2>1. Bad \subseteq SUBSET T
      OBVIOUS
    <2> HIDE DEF Bad
    <2> QED
      BY <1>1, <2>1, SmallestSubset
  <1>3. /\ U \in SUBSET A /\ U \in SUBSET B
        /\ g[U] = IF U = {} THEN 0 ELSE f[Pick(U)] + g[U \ {Pick(U)}]
        /\ h[U] = IF U = {} THEN 0 ELSE f[Pick(U)] + h[U \ {Pick(U)}]
    BY DEF IsFold
  <1>4. U # {}
    BY <1>3
  <1>5. Pick(U) \in U
    BY <1>4 DEF Pick
  <1>6. g[U \ {Pick(U)}] = h[U \ {Pick(U)}]
    BY <1>2, <1>5
  <1> QED
    BY <1>3, <1>4, <1>6

LEMMA FoldExists ==
  ASSUME NEW f, NEW S, IsFiniteSet(S)
  PROVE  \E g : IsFold(f, S, g)
  <1> DEFINE Bad == {U \in SUBSET S : ~ \E g : IsFold(f, U, g)}
  <1>1. SUFFICES ASSUME Bad # {} PROVE FALSE
    BY <1>1
  <1>2. PICK T \in Bad : IsFiniteSet(T) /\ \A V \in SUBSET T : V # T => V \notin Bad
    <2>1. Bad \subseteq SUBSET S
      OBVIOUS
    <2> HIDE DEF Bad
    <2> QED
      BY <1>1, <2>1, SmallestSubset
  <1> DEFINE G(U) == CHOOSE g : IsFold(f, U, g)
             at == [s \in SUBSET T |-> IF s = T THEN IF T = {} THEN 0 ELSE f[Pick(T)] + G(T \ {Pick(T)})[T \ {Pick(T)}]
                                                ELSE G(s)[s]]
  <1>3. ASSUME NEW U \in SUBSET T, U # T PROVE IsFold(f, U, G(U)) /\ IsFiniteSet(U)
    <2>1. \E g : IsFold(f, U, g)
      BY <1>2, <1>3
    <2>2. IsFold(f, U, G(U))
      BY <2>1
    <2> QED
      BY <1>2, <2>2, FS_Subset
  <1> HIDE DEF G
  <1>4. ASSUME NEW s \in SUBSET T
        PROVE  at[s] = IF s = {} THEN 0 ELSE f[Pick(s)] + at[s \ {Pick(s)}]
    <2>1. CASE s = {}
      <3>1. CASE T = {}
        BY <2>1, <3>1
      <3>2. CASE T # {}
        <4>1. at[s] = G(s)[s]
          BY <2>1, <3>2
        <4>2. IsFold(f, s, G(s))
          BY <1>3, <2>1, <3>2
        <4>3. G(s)[s] = 0
          BY <2>1, <4>2 DEF IsFold
        <4> QED
          BY <2>1, <4>1, <4>3
      <3> QED
        BY <3>1, <3>2
    <2>2. CASE s # {}
      <3> DEFINE r == s \ {Pick(s)}
      <3>1. Pick(s) \in s
        BY <2>2 DEF Pick
      <3>2. r \in SUBSET T /\ r # T /\ r \subseteq s
        BY <3>1
      <3>3. at[r] = G(r)[r]
        BY <3>2
      <3>4. CASE s = T
        BY <2>2, <3>3, <3>4
      <3>5. CASE s # T
        <4>1. IsFold(f, s, G(s)) /\ IsFold(f, r, G(r)) /\ IsFiniteSet(r)
          BY <1>3, <3>2, <3>5
        <4>2. G(s)[s] = f[Pick(s)] + G(s)[r]
          BY <2>2, <4>1 DEF IsFold
        <4>3. G(s)[r] = G(r)[r]
          BY <3>2, <4>1, FoldsAgree
        <4>4. at[s] = G(s)[s]
          BY <3>5
        <4> QED
          BY <2>2, <3>3, <4>2, <4>3, <4>4
      <3> QED
        BY <3>4, <3>5
    <2> QED
      BY <2>1, <2>2
  <1>5. IsFold(f, T, at)
    <2>1. at = [s \in SUBSET T |-> at[s]]
      OBVIOUS
    <2> HIDE DEF at
    <2>2. [s \in SUBSET T |-> at[s]] = [s \in SUBSET T |-> IF s = {} THEN 0 ELSE f[Pick(s)] + at[s \ {Pick(s)}]]
      BY <1>4
    <2> QED
      BY <2>1, <2>2 DEF IsFold
  <1> QED
    BY <1>2, <1>5
-----------------------------------------------------------------------------
(* Sums                                                                          *)

LEMMA SumStep ==
  ASSUME NEW f, NEW S, IsFiniteSet(S)
  PROVE  Sum(f, S) = IF S = {} THEN 0 ELSE f[Pick(S)] + Sum(f, S \ {Pick(S)})
  <1> DEFINE G(U) == CHOOSE g : IsFold(f, U, g)
             r == S \ {Pick(S)}
  <1>1. IsFiniteSet(r)
    BY FS_Subset
  <1>2. IsFold(f, S, G(S)) /\ IsFold(f, r, G(r))
    BY <1>1, FoldExists
  <1>3. Sum(f, S) = G(S)[S] /\ Sum(f, r) = G(r)[r]
    BY SumIsFold
  <1> HIDE DEF G
  <1>4. G(S)[r] = G(r)[r]
    BY <1>1, <1>2, FoldsAgree
  <1>5. G(S)[S] = IF S = {} THEN 0 ELSE f[Pick(S)] + G(S)[r]
    BY <1>2 DEF IsFold
  <1> QED
    BY <1>3, <1>4, <1>5

LEMMA SumEmpty ==
  ASSUME NEW f
  PROVE  Sum(f, {}) = 0
  BY SumStep, FS_EmptySet

(* Integers add up to an integer, natural numbers to a natural number.             *)
LEMMA SumTyped ==
  ASSUME NEW f, NEW S, IsFiniteSet(S), NEW N, N \in {Int, Nat}, \A x \in S : f[x] \in N
  PROVE  Sum(f, S) \in N
  <1> DEFINE Bad == {U \in SUBSET S : Sum(f, U) \notin N}
  <1>1. SUFFICES ASSUME Bad # {} PROVE FALSE
    BY <1>1
  <1>2. PICK U \in Bad : IsFiniteSet(U) /\ \A V \in SUBSET U : V # U => V \notin Bad
    <2>1. Bad \subseteq SUBSET S
      OBVIOUS
    <2> HIDE DEF Bad
    <2> QED
      BY <1>1, <2>1, SmallestSubset
  <1>3. Sum(f, U) = IF U = {} THEN 0 ELSE f[Pick(U)] + Sum(f, U \ {Pick(U)})
    BY <1>2, SumStep
  <1>4. U # {}
    BY <1>3
  <1>5. Pick(U) \in U
    BY <1>4 DEF Pick
  <1>6. Sum(f, U \ {Pick(U)}) \in N
    BY <1>2, <1>5
  <1>7. f[Pick(U)] \in N
    BY <1>5
  <1>8. f[Pick(U)] + Sum(f, U \ {Pick(U)}) \in N
    BY <1>6, <1>7
  <1> QED
    BY <1>3, <1>4, <1>8

LEMMA SumEqual ==
  ASSUME NEW f, NEW g, NEW S, IsFiniteSet(S), \A x \in S : f[x] = g[x]
  PROVE  Sum(f, S) = Sum(g, S)
  <1> DEFINE Bad == {U \in SUBSET S : Sum(f, U) # Sum(g, U)}
  <1>1. SUFFICES ASSUME Bad # {} PROVE FALSE
    BY <1>1
  <1>2. PICK U \in Bad : IsFiniteSet(U) /\ \A V \in SUBSET U : V # U => V \notin Bad
    <2>1. Bad \subseteq SUBSET S
      OBVIOUS
    <2> HIDE DEF Bad
    <2> QED
      BY <1>1, <2>1, SmallestSubset
  <1>3. /\ Sum(f, U) = IF U = {} THEN 0 ELSE f[Pick(U)] + Sum(f, U \ {Pick(U)})
        /\ Sum(g, U) = IF U = {} THEN 0 ELSE g[Pick(U)] + Sum(g, U \ {Pick(U)})
    BY <1>2, SumStep
  <1>4. U # {}
    BY <1>3
  <1>5. Pick(U) \in U
    BY <1>4 DEF Pick
  <1>6. Sum(f, U \ {Pick(U)}) = Sum(g, U \ {Pick(U)})
    BY <1>2, <1>5
  <1> QED
    BY <1>3, <1>4, <1>5, <1>6

(* Any element can be taken out first.                                             *)
LEMMA SumRemove ==
  ASSUME NEW f, NEW S, IsFiniteSet(S), \A x \in S : f[x] \in Int, NEW a \in S
  PROVE  Sum(f, S) = f[a] + Sum(f, S \ {a})
  <1> DEFINE Bad == {U \in SUBSET S : \E x \in U : Sum(f, U) # f[x] + Sum(f, U \ {x})}
  <1>1. SUFFICES ASSUME Bad # {} PROVE FALSE
    BY <1>1
  <1>2. PICK U \in Bad : IsFiniteSet(U) /\ \A V \in SUBSET U : V # U => V \notin Bad
    <2>1. Bad \subseteq SUBSET S
      OBVIOUS
    <2> HIDE DEF Bad
    <2> QED
      BY <1>1, <2>1, SmallestSubset
  <1>3. PICK x \in U : Sum(f, U) # f[x] + Sum(f, U \ {x})
    BY <1>2
  <1> DEFINE y == Pick(U)
             W == U \ {x, y}
  <1>4. y \in U
    BY <1>3 DEF Pick
  <1>5. Sum(f, U) = f[y] + Sum(f, U \ {y})
    BY <1>2, <1>3, SumStep
  <1>6. x # y
    BY <1>3, <1>5
  <1> HIDE DEF y
  <1>7. U \ {y} \notin Bad /\ U \ {x} \notin Bad
    BY <1>2, <1>3, <1>4
  <1>8. Sum(f, U \ {y}) = f[x] + Sum(f, W)
    <2>1. x \in U \ {y} /\ (U \ {y}) \ {x} = W
      BY <1>6
    <2> QED
      BY <1>7, <2>1
  <1>9. Sum(f, U \ {x}) = f[y] + Sum(f, W)
    <2>1. y \in U \ {x} /\ (U \ {x}) \ {y} = W
      BY <1>4, <1>6
    <2> QED
      BY <1>7, <2>1
  <1>10. f[x] \in Int /\ f[y] \in Int
    BY <1>4
  <1>11. Sum(f, W) \in Int
    <2>1. IsFiniteSet(W) /\ \A z \in W : f[z] \in Int
      BY <1>2, FS_Subset
    <2> QED
      BY <2>1, SumTyped
  <1> HIDE DEF W
  <1> QED
    BY <1>3, <1>5, <1>8, <1>9, <1>10, <1>11

LEMMA SumAdd ==
  ASSUME NEW f, NEW S, IsFiniteSet(S), NEW a, a \notin S, \A x \in S \cup {a} : f[x] \in Int
  PROVE  Sum(f, S \cup {a}) = f[a] + Sum(f, S)
  <1>1. IsFiniteSet(S \cup {a}) /\ a \in S \cup {a} /\ (S \cup {a}) \ {a} = S
    BY FS_AddElement
  <1> QED
    BY <1>1, SumRemove

(* One value changes.                                                               *)
LEMMA SumUpdate ==
  ASSUME NEW f, NEW g, NEW S, IsFiniteSet(S), NEW a \in S, \A x \in S : f[x] \in Int /\ g[x] \in Int,
         \A x \in S \ {a} : g[x] = f[x]
  PROVE  Sum(g, S) = Sum(f, S) + (g[a] - f[a])
  <1>1. IsFiniteSet(S \ {a})
    BY FS_Subset
  <1>2. Sum(f, S) = f[a] + Sum(f, S \ {a}) /\ Sum(g, S) = g[a] + Sum(g, S \ {a})
    BY SumRemove
  <1>3. Sum(g, S \ {a}) = Sum(f, S \ {a})
    BY <1>1, SumEqual
  <1>4. Sum(f, S \ {a}) \in Int
    BY <1>1, SumTyped
  <1> QED
    BY <1>2, <1>3, <1>4
=============================================================================
