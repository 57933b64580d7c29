--------------------------- MODULE ContestProofs ---------------------------
(* Contests of every size.  The scores of every plan of every book: the two  *)
(* scorers agree, a late day is never free, the movement shown before an     *)
(* accept adds up, and a date that is missed outweighs the rest while the    *)
(* rest is small enough.  Then the contests themselves: the shards share the *)
(* candidates out, the winner is that of one process in whatever order the   *)
(* rows come, the sweep and the matrix choose as the cloud does, and the     *)
(* tuner keeps the peak in its bracket.  Sums over finite sets come first:   *)
(* what joins a set adds its own weight, whatever the order in which the     *)
(* fold of the community modules chooses the elements.                      *)
EXTENDS Contest, FiniteSetTheorems, WellFoundedInduction, TLAPS

-----------------------------------------------------------------------------
(* Sums over finite sets.                                                   *)

(* A set of numbers that is not empty has a least one. *)
LEMMA LeastNumber ==
  ASSUME NEW N \in SUBSET Nat, N # {}
  PROVE  \E n \in N : \A m \in N : n <= m
<1>1. PICK n \in N : \A m \in N : ~(<<m, n>> \in OpToRel(<, Nat))
  BY NatLessThanWellFounded, WFMin
<1>2. \A m \in N : ~(m < n)
  BY <1>1 DEF OpToRel
<1> QED BY <1>2

(* f is the fold of the weights w over the subsets of S, up to n elements or *)
(* all of them.                                                             *)
Pick(T) == CHOOSE x \in T : TRUE
UpTo(S, n) == {T \in SUBSET S : Cardinality(T) <= n}
FoldsUpTo(f, w, S, n) ==
    f = [T \in UpTo(S, n) |-> IF T = {} THEN 0 ELSE w[Pick(T)] + f[T \ {Pick(T)}]]
Folds(f, w, S) ==
    f = [T \in SUBSET S |-> IF T = {} THEN 0 ELSE w[Pick(T)] + f[T \ {Pick(T)}]]

(* Choosing an element of a set and taking it out. *)
LEMMA Picked ==
  ASSUME NEW S, IsFiniteSet(S), NEW T \in SUBSET S, T # {}
  PROVE  /\ Pick(T) \in T /\ T \ {Pick(T)} \in SUBSET S
         /\ Cardinality(T) \in Nat /\ Cardinality(T) # 0
         /\ Cardinality(T \ {Pick(T)}) = Cardinality(T) - 1
<1>1. Pick(T) \in T
  BY DEF Pick
<1>2. IsFiniteSet(T)
  BY FS_Subset
<1> QED BY <1>1, <1>2, FS_CardinalityType, FS_EmptySet, FS_RemoveElement

(* The fold exists for the sets of any size. *)
LEMMA FoldUpToExists ==
  ASSUME NEW S, IsFiniteSet(S), NEW w \in [S -> Nat]
  PROVE  \A n \in Nat : \E f \in [UpTo(S, n) -> Nat] : FoldsUpTo(f, w, S, n)
<1> DEFINE N == {n \in Nat : ~\E f \in [UpTo(S, n) -> Nat] : FoldsUpTo(f, w, S, n)}
<1>1. SUFFICES ASSUME N # {} PROVE FALSE
  OBVIOUS
<1>2. PICK n \in N : \A m \in N : n <= m
  BY <1>1, LeastNumber
<1>3. CASE n = 0
  <2> DEFINE f == [T \in UpTo(S, 0) |-> 0]
  <2>1. \A T \in UpTo(S, 0) : T = {}
    <3>1. ASSUME NEW T \in SUBSET S, T # {} PROVE ~(Cardinality(T) <= 0)
      <4>1. Cardinality(T) \in Nat /\ Cardinality(T) # 0
        BY <3>1, Picked
      <4> QED BY <4>1
    <3> QED BY <3>1 DEF UpTo
  <2>2. f \in [UpTo(S, 0) -> Nat] /\ FoldsUpTo(f, w, S, 0)
    BY <2>1 DEF FoldsUpTo
  <2> QED BY <1>3, <2>2
<1>4. CASE n # 0
  <2>1. n - 1 \in Nat /\ n - 1 \notin N
    BY <1>2, <1>4
  <2>2. PICK g \in [UpTo(S, n - 1) -> Nat] : FoldsUpTo(g, w, S, n - 1)
    BY <2>1
  <2> DEFINE next(T) == w[Pick(T)] + g[T \ {Pick(T)}]
             f == [T \in UpTo(S, n) |-> IF T = {} THEN 0 ELSE next(T)]
  <2>3. ASSUME NEW T \in UpTo(S, n), T # {}
        PROVE  T \ {Pick(T)} \in UpTo(S, n - 1) /\ next(T) \in Nat /\ T \ {Pick(T)} \in UpTo(S, n)
    <3>1. T \ {Pick(T)} \in UpTo(S, n - 1) /\ Pick(T) \in S
      BY <2>3, Picked DEF UpTo
    <3>2. T \ {Pick(T)} \in UpTo(S, n)
      BY <2>3, Picked DEF UpTo
    <3> QED BY <3>1, <3>2
  <2>4. f \in [UpTo(S, n) -> Nat]
    BY <2>3
  <2>5. \A T \in UpTo(S, n - 1) : f[T] = g[T]
    <3> SUFFICES ASSUME NEW T \in UpTo(S, n - 1) PROVE f[T] = g[T]
      OBVIOUS
    <3>1. T \in UpTo(S, n)
      BY <2>1, FS_CardinalityType, FS_Subset DEF UpTo
    <3>2. g[T] = IF T = {} THEN 0 ELSE next(T)
      BY <2>2 DEF FoldsUpTo
    <3> QED BY <3>1, <3>2
  <2>6. FoldsUpTo(f, w, S, n)
    <3>1. \A T \in UpTo(S, n) : T # {} => next(T) = w[Pick(T)] + f[T \ {Pick(T)}]
      BY <2>3, <2>5
    <3>2. f = [T \in UpTo(S, n) |-> IF T = {} THEN 0 ELSE w[Pick(T)] + f[T \ {Pick(T)}]]
      BY <3>1
    <3> QED BY <3>2 DEF FoldsUpTo
  <2> QED BY <2>4, <2>6
<1> QED BY <1>3, <1>4

(* So it exists for all the subsets of a finite set. *)
LEMMA FoldExists ==
  ASSUME NEW S, IsFiniteSet(S), NEW w \in [S -> Nat]
  PROVE  \E f \in [SUBSET S -> Nat] : Folds(f, w, S)
<1>1. Cardinality(S) \in Nat
  BY FS_CardinalityType
<1>2. PICK f \in [UpTo(S, Cardinality(S)) -> Nat] : FoldsUpTo(f, w, S, Cardinality(S))
  BY <1>1, FoldUpToExists
<1>3. UpTo(S, Cardinality(S)) = SUBSET S
  BY FS_Subset DEF UpTo
<1> QED BY <1>2, <1>3 DEF FoldsUpTo, Folds

(* The fold of nothing. *)
LEMMA FoldOfNothing ==
  ASSUME NEW S, NEW w, NEW f, Folds(f, w, S)
  PROVE  f[{}] = 0
  BY DEF Folds

(* A step of the fold. *)
LEMMA FoldStep ==
  ASSUME NEW S, IsFiniteSet(S), NEW w \in [S -> Nat], NEW f, Folds(f, w, S), NEW T \in SUBSET S
  PROVE  /\ T = {} => f[T] = 0
         /\ T # {} => f[T] = w[Pick(T)] + f[T \ {Pick(T)}]
  BY DEF Folds

(* Whichever element is taken out first, the rest weighs the same. *)
AnyOrder(f, w, S) == \A T \in SUBSET S : \A x \in T : f[T] = w[x] + f[T \ {x}]
LEMMA FoldAnyOrder ==
  ASSUME NEW S, IsFiniteSet(S), NEW w \in [S -> Nat], NEW f \in [SUBSET S -> Nat], Folds(f, w, S)
  PROVE  AnyOrder(f, w, S)
<1> DEFINE Bad(T) == \E x \in T : f[T] # w[x] + f[T \ {x}]
           N == {n \in Nat : \E T \in SUBSET S : Cardinality(T) = n /\ Bad(T)}
<1>1. SUFFICES ASSUME N # {} PROVE FALSE
  <2>1. \A T \in SUBSET S : Cardinality(T) \in Nat
    BY FS_CardinalityType, FS_Subset
  <2>2. N = {} => \A T \in SUBSET S : ~Bad(T)
    BY <2>1
  <2> QED BY <2>2 DEF AnyOrder
<1>2. PICK n \in N : \A m \in N : n <= m
  BY <1>1, LeastNumber
<1>3. PICK T \in SUBSET S : Cardinality(T) = n /\ Bad(T)
  BY <1>2
<1>3a. PICK x \in T : f[T] # w[x] + f[T \ {x}]
  BY <1>3
<1> DEFINE first == Pick(T)
<1>4. /\ first \in T /\ f[T] = w[first] + f[T \ {first}] /\ x # first /\ x \in S /\ first \in S
      /\ Cardinality(T \ {first}) = n - 1 /\ n - 1 \in Nat /\ n \in Nat
  <2>1. T # {} /\ n \in Nat
    BY <1>3a
  <2> QED BY <1>3, <1>3a, <2>1, Picked, FoldStep
<1>5. Cardinality(T \ {x}) = n - 1
  <2>1. IsFiniteSet(T)
    BY FS_Subset
  <2> QED BY <1>3, <1>3a, <2>1, FS_RemoveElement
<1>6. \A U \in SUBSET S : Cardinality(U) = n - 1 => ~Bad(U)
  BY <1>2, <1>4
<1>7. f[T \ {first}] = w[x] + f[(T \ {first}) \ {x}]
  BY <1>4, <1>6
<1>8. f[T \ {x}] = w[first] + f[(T \ {x}) \ {first}]
  BY <1>4, <1>5, <1>6
<1>9. (T \ {first}) \ {x} = (T \ {x}) \ {first} /\ (T \ {first}) \ {x} \in SUBSET S
  OBVIOUS
<1>10. f[(T \ {first}) \ {x}] \in Nat /\ w[x] \in Nat /\ w[first] \in Nat
  BY <1>4, <1>9
<1>11. \A i, j, k \in Nat : i + (j + k) = j + (i + k)
  OBVIOUS
<1>12. f[T] = w[first] + (w[x] + f[(T \ {first}) \ {x}])
  BY <1>4, <1>7
<1>13. w[x] + f[T \ {x}] = w[x] + (w[first] + f[(T \ {first}) \ {x}])
  BY <1>8, <1>9
<1> HIDE DEF first
<1>14. f[T] = w[x] + f[T \ {x}]
  BY <1>10, <1>11, <1>12, <1>13
<1> QED BY <1>3a, <1>14

(* There is one of which that is true. *)
LEMMA AnyOrderFoldExists ==
  ASSUME NEW S, IsFiniteSet(S), NEW w \in [S -> Nat]
  PROVE  \E f \in [SUBSET S -> Nat] : Folds(f, w, S) /\ AnyOrder(f, w, S)
<1>1. PICK f \in [SUBSET S -> Nat] : Folds(f, w, S)
  BY FoldExists
<1>2. AnyOrder(f, w, S)
  BY <1>1, FoldAnyOrder
<1> QED BY <1>1, <1>2

(* The fold over a part agrees with the fold over the whole. *)
LEMMA FoldOfPart ==
  ASSUME NEW S, IsFiniteSet(S), NEW w \in [S -> Nat], NEW f, Folds(f, w, S),
         NEW R \in SUBSET S, NEW v \in [R -> Nat], \A x \in R : v[x] = w[x], NEW g, Folds(g, v, R)
  PROVE  \A T \in SUBSET R : g[T] = f[T]
<1> DEFINE N == {n \in Nat : \E T \in SUBSET R : Cardinality(T) = n /\ g[T] # f[T]}
<1>0. IsFiniteSet(R)
  BY FS_Subset
<1>1. SUFFICES ASSUME N # {} PROVE FALSE
  <2>1. \A T \in SUBSET R : Cardinality(T) \in Nat
    BY <1>0, FS_CardinalityType, FS_Subset
  <2>2. N = {} => \A T \in SUBSET R : g[T] = f[T]
    BY <2>1
  <2> QED BY <2>2
<1>2. PICK n \in N : \A m \in N : n <= m
  BY <1>1, LeastNumber
<1>3. PICK T \in SUBSET R : Cardinality(T) = n /\ g[T] # f[T]
  BY <1>2
<1>4. T # {}
  <2>1. T = {} => g[T] = 0
    BY DEF Folds
  <2>2. T = {} => f[T] = 0
    BY DEF Folds
  <2> QED BY <1>3, <2>1, <2>2
<1>5. /\ Pick(T) \in T /\ T \ {Pick(T)} \in SUBSET R /\ n - 1 \in Nat
      /\ Cardinality(T \ {Pick(T)}) = n - 1
  BY <1>0, <1>3, <1>4, Picked
<1>5a. v[Pick(T)] = w[Pick(T)]
  BY <1>5
<1>6. g[T \ {Pick(T)}] = f[T \ {Pick(T)}]
  BY <1>2, <1>5
<1>7. g[T] = v[Pick(T)] + g[T \ {Pick(T)}]
  BY <1>4 DEF Folds
<1>8. f[T] = w[Pick(T)] + f[T \ {Pick(T)}]
  BY <1>4 DEF Folds
<1> QED BY <1>3, <1>5a, <1>6, <1>7, <1>8

-----------------------------------------------------------------------------
(* The sum of the weights of a finite set. *)
SumOver(w, S) == (CHOOSE f : Folds(f, w, S))[S]

(* Any fold of the weights gives it. *)
LEMMA FoldIsTotal ==
  ASSUME NEW S, IsFiniteSet(S), NEW w \in [S -> Nat], NEW f, Folds(f, w, S)
  PROVE  f[S] = SumOver(w, S)
<1> DEFINE t == CHOOSE h : Folds(h, w, S)
<1>1. Folds(t, w, S)
  BY FoldExists
<1>2. f[S] = t[S]
  BY <1>1, FoldOfPart
<1> QED BY <1>2 DEF SumOver

(* It is a number, and 0 of nothing. *)
LEMMA TotalType ==
  ASSUME NEW S, IsFiniteSet(S), NEW w \in [S -> Nat]
  PROVE  SumOver(w, S) \in Nat /\ (S = {} => SumOver(w, S) = 0)
<1>1. PICK f \in [SUBSET S -> Nat] : Folds(f, w, S)
  BY FoldExists
<1>2. S = {} => f[S] = 0
  BY <1>1 DEF Folds
<1>3. SumOver(w, S) = f[S]
  BY <1>1, FoldIsTotal
<1> QED BY <1>2, <1>3

(* What joins a set adds its own weight. *)
LEMMA TotalAdds ==
  ASSUME NEW S, IsFiniteSet(S), NEW w \in [S -> Nat], NEW x \in S,
         NEW v \in [S \ {x} -> Nat], \A y \in S \ {x} : v[y] = w[y]
  PROVE  SumOver(w, S) = w[x] + SumOver(v, S \ {x})
<1> DEFINE R == S \ {x}
<1>0. IsFiniteSet(R)
  BY FS_RemoveElement
<1>1. PICK f \in [SUBSET S -> Nat] : Folds(f, w, S)
  BY FoldExists
<1>2. PICK g \in [SUBSET R -> Nat] : Folds(g, v, R)
  BY <1>0, FoldExists
<1>3. f[S] = w[x] + f[R]
  <2>1. AnyOrder(f, w, S)
    BY <1>1, FoldAnyOrder
  <2> QED BY <2>1 DEF AnyOrder
<1>4. g[R] = f[R]
  BY <1>1, <1>2, FoldOfPart
<1>5. SumOver(w, S) = f[S] /\ SumOver(v, R) = g[R]
  BY <1>0, <1>1, <1>2, FoldIsTotal
<1> QED BY <1>3, <1>4, <1>5

(* What holds of nothing, and of a set as soon as it holds of the rest of it, *)
(* holds of every part of a finite set.                                     *)
LEMMA PartByPart ==
  ASSUME NEW S, IsFiniteSet(S), NEW G \in SUBSET (SUBSET S), {} \in G,
         \A T \in SUBSET S : T # {} /\ T \ {Pick(T)} \in G => T \in G
  PROVE  \A T \in SUBSET S : T \in G
<1> DEFINE N == {n \in Nat : \E T \in SUBSET S : Cardinality(T) = n /\ T \notin G}
<1>1. SUFFICES ASSUME N # {} PROVE FALSE
  <2>1. \A T \in SUBSET S : Cardinality(T) \in Nat
    BY FS_CardinalityType, FS_Subset
  <2> QED BY <2>1
<1>2. PICK n \in N : \A m \in N : n <= m
  BY <1>1, LeastNumber
<1>3. PICK T \in SUBSET S : Cardinality(T) = n /\ T \notin G
  BY <1>2
<1>4. T # {}
  BY <1>3
<1>5. T \ {Pick(T)} \in SUBSET S /\ n - 1 \in Nat /\ Cardinality(T \ {Pick(T)}) = n - 1
  BY <1>3, <1>4, Picked
<1>6. T \ {Pick(T)} \in G
  BY <1>2, <1>5
<1> QED BY <1>3, <1>4, <1>6

(* SumFunction of the community modules is this sum. *)
LEMMA FunctionSum ==
  ASSUME NEW S, IsFiniteSet(S), NEW w \in [S -> Nat]
  PROVE  SumFunction(w) = SumOver(w, S)
<1> DEFINE P(h) == h = [s \in SUBSET S |-> IF s = {} THEN 0 ELSE w[Pick(s)] + h[s \ {Pick(s)}]]
           m == CHOOSE h : P(h)
<1>1. \A h : P(h) <=> Folds(h, w, S)
  BY DEF Folds
<1>2. \E h : P(h)
  <2> HIDE DEF P
  <2> QED BY <1>1, FoldExists
<1>3. Folds(m, w, S)
  BY <1>1, <1>2
<1>4. m[S] = SumOver(w, S)
  BY <1>3, FoldIsTotal
<1>5. SumFunction(w) = m[S]
  BY DEF SumFunction, SumFunctionOnSet, FoldFunctionOnSet, MapThenFoldSet, Pick
<1> QED BY <1>4, <1>5

(* Weights that are nowhere larger have no larger sum. *)
LEMMA SumMonotone ==
  ASSUME NEW S, IsFiniteSet(S), NEW w \in [S -> Nat], NEW v \in [S -> Nat],
         \A x \in S : w[x] <= v[x]
  PROVE  SumOver(w, S) <= SumOver(v, S)
<1>1. PICK f \in [SUBSET S -> Nat] : Folds(f, w, S)
  BY FoldExists
<1>2. PICK g \in [SUBSET S -> Nat] : Folds(g, v, S)
  BY FoldExists
<1> DEFINE G == {T \in SUBSET S : f[T] <= g[T]}
<1>3. {} \in G
  <2>1. f[{}] = 0 /\ g[{}] = 0
    BY <1>1, <1>2, FoldOfNothing
  <2> QED BY <2>1
<1>4. ASSUME NEW T \in SUBSET S, T # {}, T \ {Pick(T)} \in G PROVE T \in G
  <2>1. f[T] = w[Pick(T)] + f[T \ {Pick(T)}] /\ g[T] = v[Pick(T)] + g[T \ {Pick(T)}]
    BY <1>1, <1>2, <1>4, FoldStep
  <2>2. Pick(T) \in S
    BY <1>4, Picked
  <2> QED BY <1>1, <1>2, <1>4, <2>1, <2>2
<1>5. S \in G
  <2> HIDE DEF G
  <2>1. \A T \in SUBSET S : T # {} /\ T \ {Pick(T)} \in G => T \in G
    BY <1>4
  <2>2. G \in SUBSET (SUBSET S)
    BY DEF G
  <2> QED BY <1>3, <2>1, <2>2, PartByPart
<1> QED BY <1>1, <1>2, <1>5, FoldIsTotal

(* The sum of sums. *)
LEMMA SumPlus ==
  ASSUME NEW S, IsFiniteSet(S), NEW w \in [S -> Nat], NEW v \in [S -> Nat],
         NEW u \in [S -> Nat], \A x \in S : u[x] = w[x] + v[x]
  PROVE  SumOver(u, S) = SumOver(w, S) + SumOver(v, S)
<1>1. PICK f \in [SUBSET S -> Nat] : Folds(f, w, S)
  BY FoldExists
<1>2. PICK g \in [SUBSET S -> Nat] : Folds(g, v, S)
  BY FoldExists
<1>3. PICK h \in [SUBSET S -> Nat] : Folds(h, u, S)
  BY FoldExists
<1> DEFINE G == {T \in SUBSET S : h[T] = f[T] + g[T]}
<1>4. {} \in G
  <2>1. f[{}] = 0 /\ g[{}] = 0 /\ h[{}] = 0
    BY <1>1, <1>2, <1>3, FoldOfNothing
  <2> QED BY <2>1
<1>5. ASSUME NEW T \in SUBSET S, T # {}, T \ {Pick(T)} \in G PROVE T \in G
  <2>1. /\ f[T] = w[Pick(T)] + f[T \ {Pick(T)}] /\ g[T] = v[Pick(T)] + g[T \ {Pick(T)}]
        /\ h[T] = u[Pick(T)] + h[T \ {Pick(T)}]
    BY <1>1, <1>2, <1>3, <1>5, FoldStep, SMTT(40)
  <2>2. Pick(T) \in S /\ T \ {Pick(T)} \in SUBSET S
    BY <1>5, Picked
  <2> QED BY <1>1, <1>2, <1>3, <1>5, <2>1, <2>2
<1>6. S \in G
  <2> HIDE DEF G
  <2>1. \A T \in SUBSET S : T # {} /\ T \ {Pick(T)} \in G => T \in G
    BY <1>5
  <2>2. G \in SUBSET (SUBSET S)
    BY DEF G
  <2> QED BY <1>4, <2>1, <2>2, PartByPart
<1> QED BY <1>1, <1>2, <1>3, <1>6, FoldIsTotal

(* What weighs nothing may be left out. *)
LEMMA SumOfPart ==
  ASSUME NEW S, IsFiniteSet(S), NEW w \in [S -> Nat], NEW R \in SUBSET S, NEW v \in [R -> Nat],
         \A x \in R : v[x] = w[x], \A x \in S \ R : w[x] = 0
  PROVE  SumOver(w, S) = SumOver(v, R)
<1>0. IsFiniteSet(R)
  BY FS_Subset
<1>1. PICK f \in [SUBSET S -> Nat] : Folds(f, w, S)
  BY FoldExists
<1>2. PICK g \in [SUBSET R -> Nat] :
        Folds(g, v, R) /\ AnyOrder(g, v, R)
  BY <1>0, AnyOrderFoldExists
<1> DEFINE G == {T \in SUBSET S : f[T] = g[T \cap R]}
<1>3. {} \in G
  <2>1. f[{}] = 0 /\ g[{}] = 0
    BY <1>1, <1>2, FoldOfNothing
  <2> QED BY <2>1
<1>4. ASSUME NEW T \in SUBSET S, T # {}, T \ {Pick(T)} \in G PROVE T \in G
  <2> DEFINE p == Pick(T)
  <2>1. f[T] = w[p] + f[T \ {p}]
    BY <1>1, <1>4, FoldStep
  <2>1a. p \in T
    BY <1>4, Picked
  <2>2. f[T \ {p}] = g[(T \ {p}) \cap R]
    BY <1>4
  <2> HIDE DEF p
  <2>3. CASE p \in R
    <3>1. g[T \cap R] = v[p] + g[(T \cap R) \ {p}]
      <4>1. p \in T \cap R /\ T \cap R \in SUBSET R
        BY <2>1a, <2>3
      <4> QED BY <1>2, <4>1 DEF AnyOrder
    <3>2. (T \cap R) \ {p} = (T \ {p}) \cap R
      OBVIOUS
    <3> QED BY <2>1, <2>2, <2>3, <3>1, <3>2
  <2>4. CASE p \notin R
    <3>1. T \cap R = (T \ {p}) \cap R /\ w[p] = 0
      BY <2>1a, <2>4
    <3>2. f[T \ {p}] \in Nat
      BY <1>1
    <3>3. f[T] = f[T \ {p}]
      BY <2>1, <3>1, <3>2
    <3>4. f[T] = g[T \cap R]
      BY <2>2, <3>1, <3>3
    <3> QED BY <3>4
  <2> QED BY <2>3, <2>4
<1>5. S \in G
  <2> HIDE DEF G
  <2>1. \A T \in SUBSET S : T # {} /\ T \ {Pick(T)} \in G => T \in G
    BY <1>4
  <2>2. G \in SUBSET (SUBSET S)
    BY DEF G
  <2> QED BY <1>3, <2>1, <2>2, PartByPart
<1>6. S \cap R = R
  OBVIOUS
<1>7. f[S] = SumOver(w, S) /\ g[R] = SumOver(v, R)
  BY <1>0, <1>1, <1>2, FoldIsTotal
<1> QED BY <1>5, <1>6, <1>7

(* A sum of bounded weights. *)
LEMMA SumBounded ==
  ASSUME NEW S, IsFiniteSet(S), NEW most \in Nat, NEW w \in [S -> Nat], \A x \in S : w[x] <= most
  PROVE  SumOver(w, S) <= Cardinality(S) * most
<1>1. PICK f \in [SUBSET S -> Nat] : Folds(f, w, S)
  BY FoldExists
<1> DEFINE G == {T \in SUBSET S : f[T] <= Cardinality(T) * most}
<1>2. {} \in G
  <2>1. f[{}] = 0
    BY <1>1, FoldOfNothing
  <2>2. Cardinality({}) = 0
    BY FS_EmptySet
  <2> QED BY <2>1, <2>2
<1>3. ASSUME NEW T \in SUBSET S, T # {}, T \ {Pick(T)} \in G PROVE T \in G
  <2>1. f[T] = w[Pick(T)] + f[T \ {Pick(T)}]
    BY <1>1, <1>3, FoldStep
  <2>2. /\ Pick(T) \in S /\ T \ {Pick(T)} \in SUBSET S
        /\ Cardinality(T) \in Nat /\ Cardinality(T \ {Pick(T)}) = Cardinality(T) - 1
    BY <1>3, Picked
  <2>3. \A n \in Nat : (n - 1) * most + most = n * most
    OBVIOUS
  <2>4. f[T \ {Pick(T)}] <= (Cardinality(T) - 1) * most
    BY <1>3, <2>2
  <2>5. (Cardinality(T) - 1) * most + most = Cardinality(T) * most
    BY <2>2, <2>3
  <2>6. (Cardinality(T) - 1) * most \in Int /\ w[Pick(T)] <= most /\ w[Pick(T)] \in Nat
        /\ f[T \ {Pick(T)}] \in Nat /\ Cardinality(T) * most \in Int
    BY <1>1, <2>2
  <2>7. f[T] <= Cardinality(T) * most
    BY <2>1, <2>4, <2>5, <2>6
  <2> QED BY <2>7
<1>4. S \in G
  <2> HIDE DEF G
  <2>1. \A T \in SUBSET S : T # {} /\ T \ {Pick(T)} \in G => T \in G
    BY <1>3
  <2>2. G \in SUBSET (SUBSET S)
    BY DEF G
  <2> QED BY <1>2, <2>1, <2>2, PartByPart
<1> QED BY <1>1, <1>4, FoldIsTotal

-----------------------------------------------------------------------------
(* Arithmetic of the weights.                                               *)

(* A square is no negative number, and grows with its root. *)
LEMMA Squares ==
  /\ \A n \in Int : Square(n) \in Nat /\ Square(-n) = Square(n)
  /\ \A m, n \in Nat : m <= n => Square(m) <= Square(n)
<1>1. \A n \in Int : n * n \in Nat /\ (-n) * (-n) = n * n
  OBVIOUS
<1>2. ASSUME NEW m \in Nat, NEW n \in Nat, m <= n PROVE m * m <= n * n
  <2>1. m * m <= m * n
    BY <1>2
  <2>2. m * n <= n * n
    BY <1>2
  <2> QED BY <2>1, <2>2
<1> QED BY <1>1, <1>2 DEF Square

(* The smaller of two numbers. *)
LEMMA MinOfTwo ==
  ASSUME NEW x \in Int, NEW y \in Int
  PROVE  Min({x, y}) = IF x <= y THEN x ELSE y
<1>1. \E z \in {x, y} : \A w \in {x, y} : z <= w
  OBVIOUS
<1>2. Min({x, y}) \in {x, y} /\ \A w \in {x, y} : Min({x, y}) <= w
  BY <1>1 DEF Min
<1> QED BY <1>2

(* The largest of the values of a function on a finite set. *)
LEMMA MaxOfValues ==
  ASSUME NEW S, IsFiniteSet(S), S # {}, NEW f \in [S -> Nat]
  PROVE  /\ Max({f[k] : k \in S}) \in {f[k] : k \in S}
         /\ \A k \in S : f[k] <= Max({f[k2] : k2 \in S})
<1> DEFINE G == {T \in SUBSET S : T = {} \/ \E m \in T : \A k \in T : f[k] <= f[m]}
<1>1. {} \in G
  OBVIOUS
<1>2. ASSUME NEW T \in SUBSET S, T # {}, T \ {Pick(T)} \in G PROVE T \in G
  <2> DEFINE p == Pick(T)
             R == T \ {p}
  <2>1. p \in T /\ p \in S
    BY <1>2, Picked
  <2> HIDE DEF p
  <2>2. CASE R = {}
    <3>1. \A k \in T : f[k] <= f[p]
      BY <2>1, <2>2
    <3> QED BY <2>1, <3>1
  <2>3. CASE R # {}
    <3>1. PICK m \in R : \A k \in R : f[k] <= f[m]
      BY <1>2, <2>3 DEF p
    <3>2. f[m] \in Nat /\ f[p] \in Nat /\ \A k \in T : f[k] \in Nat
      BY <2>1
    <3>3. CASE f[m] <= f[p]
      <4>1. \A k \in T : f[k] <= f[p]
        BY <3>1, <3>2, <3>3
      <4> QED BY <2>1, <4>1
    <3>4. CASE f[p] <= f[m]
      <4>1. \A k \in T : f[k] <= f[m]
        BY <3>1, <3>2, <3>4
      <4> QED BY <3>1, <4>1
    <3> QED BY <3>2, <3>3, <3>4
  <2> QED BY <2>2, <2>3
<1>3. S \in G
  <2> HIDE DEF G
  <2>1. \A T \in SUBSET S : T # {} /\ T \ {Pick(T)} \in G => T \in G
    BY <1>2
  <2>2. G \in SUBSET (SUBSET S)
    BY DEF G
  <2> QED BY <1>1, <2>1, <2>2, PartByPart
<1>4. PICK m \in S : \A k \in S : f[k] <= f[m]
  BY <1>3
<1> DEFINE V == {f[k] : k \in S}
<1>5. f[m] \in V /\ \A v \in V : f[m] >= v
  BY <1>4
<1>6. Max(V) \in V /\ \A v \in V : Max(V) >= v
  <2> HIDE DEF V
  <2> QED BY <1>5 DEF Max
<1> QED BY <1>6

(* Parts of a day grow with the minutes. *)
LEMMA RoundedGrows ==
  ASSUME NEW x \in Nat, NEW y \in Nat, x <= y
  PROVE  /\ Rounded(100, x) \in Nat /\ Rounded(100, x) <= Rounded(100, y)
         /\ Rounded(100, x) <= 100 * (x \div Minutes) + 100
  BY DEF Rounded, Minutes

(* A later day is a later minute. *)
LEMMA LaterDay ==
  ASSUME NEW x \in Nat, NEW y \in Nat
  PROVE  /\ x \div Minutes \in Nat
         /\ x \div Minutes > y \div Minutes => x > y
  BY DEF Minutes

(* Counted from midnight in hundredths, or from the plan's start in ten-     *)
(* thousandths, a makespan is the same but for the rounding.                *)
LEMMA MakespansAgree ==
  ASSUME NEW x \in Nat, NEW s \in Nat
  PROVE  100 * Rounded(100, x) - Rounded(10000, x - s) - (10000 * s) \div Minutes \in -52..52
  BY DEF Rounded, Minutes

-----------------------------------------------------------------------------
(* A book, a plan of it, and the weights of its orders.                     *)

IsBook(lines) == IsFiniteSet(DOMAIN lines) /\ DOMAIN lines # {} /\ lines \in [DOMAIN lines -> OrderLine]

(* The days an order is late or early, and what that costs. *)
LateCost(g) ==
    LET capped == Min({IF g > 0 THEN 4 * g ELSE -g, 4 * OntimeCap})
    IN  Square(capped) + 16 * LateLinear * Positive(g)

(* A later day never costs less once the order is late, and costs more by    *)
(* the rate of a day at least; within the cap and the days it is late it    *)
(* costs no more than this.                                                 *)
LEMMA LateCosts ==
  /\ \A g \in Int : LateCost(g) \in Nat
  /\ \A g, h \in Int : 0 <= g /\ g < h => LateCost(g) + 160 <= LateCost(h)
  /\ \A g \in Int, n \in Nat : g <= n => LateCost(g) <= 57600 + 160 * n
<1> DEFINE root(g) == IF g > 0 THEN IF 4 * g <= 240 THEN 4 * g ELSE 240
                      ELSE IF -g <= 240 THEN -g ELSE 240
<1>1. ASSUME NEW g \in Int
      PROVE  /\ root(g) \in Nat /\ root(g) <= 240
             /\ LateCost(g) = Square(root(g)) + 160 * Positive(g)
             /\ Square(root(g)) \in Nat /\ Square(root(g)) <= 57600 /\ Positive(g) \in Nat
  <2>1. root(g) \in Nat /\ root(g) <= 240
    OBVIOUS
  <2>2. Min({IF g > 0 THEN 4 * g ELSE -g, 4 * OntimeCap}) = root(g)
    BY MinOfTwo DEF OntimeCap
  <2>3. Square(240) = 57600
    BY DEF Square
  <2> HIDE DEF root
  <2>4. Square(root(g)) \in Nat /\ Square(root(g)) <= Square(240)
    BY <2>1, Squares
  <2>5. LateCost(g) = Square(root(g)) + 160 * Positive(g)
    BY <2>2 DEF LateCost, LateLinear
  <2> QED BY <2>1, <2>3, <2>4, <2>5 DEF Positive
<1>2. ASSUME NEW g \in Int, NEW h \in Int, 0 <= g, g < h
      PROVE  LateCost(g) + 160 <= LateCost(h)
  <2>1. root(g) <= root(h)
    BY <1>2
  <2> HIDE DEF root
  <2>2. Square(root(g)) <= Square(root(h))
    BY <1>1, <2>1, Squares
  <2>3. Positive(g) + 1 <= Positive(h)
    BY <1>2 DEF Positive
  <2> QED BY <1>1, <2>2, <2>3
<1> HIDE DEF root
<1>3. ASSUME NEW g \in Int, NEW n \in Nat, g <= n
      PROVE  LateCost(g) <= 57600 + 160 * n
  <2>1. Positive(g) <= n
    BY <1>3 DEF Positive
  <2> QED BY <1>1, <2>1
<1>4. \A g \in Int : LateCost(g) \in Nat
  BY <1>1
<1> QED BY <1>2, <1>3, <1>4

(* The days of the orders of a plan. *)
LEMMA PlanDays ==
  ASSUME NEW lines, IsBook(lines), NEW plan \in [DOMAIN lines -> Nat]
  PROVE  /\ DOMAIN plan = DOMAIN lines /\ DOMAIN Expected(plan) = DOMAIN lines
         /\ \A k \in DOMAIN lines :
              /\ Expected(plan)[k] = plan[k] \div Minutes /\ Expected(plan)[k] \in Nat
              /\ Gap(lines, plan, k) = Expected(plan)[k] - lines[k].due
              /\ Gap(lines, plan, k) \in Int
              /\ lines[k] \in OrderLine
<1>1. DOMAIN plan = DOMAIN lines /\ DOMAIN Expected(plan) = DOMAIN lines
  BY DEF Expected
<1>2. ASSUME NEW k \in DOMAIN lines
      PROVE  /\ Expected(plan)[k] = plan[k] \div Minutes /\ Expected(plan)[k] \in Nat
             /\ Gap(lines, plan, k) = Expected(plan)[k] - lines[k].due
             /\ Gap(lines, plan, k) \in Int /\ lines[k] \in OrderLine
  <2>1. Expected(plan)[k] = plan[k] \div Minutes
    BY <1>1 DEF Expected
  <2>2. plan[k] \div Minutes \in Nat
    BY LaterDay
  <2>3. lines[k] \in OrderLine
    BY DEF IsBook
  <2> QED BY <2>1, <2>2, <2>3 DEF Gap, OrderLine
<1> QED BY <1>1, <1>2

(* The weights of the orders. *)
OntimeW(lines, plan) == [k \in DOMAIN lines |-> LateCost(Gap(lines, plan, k))]
CeilingW(lines, plan, ceiling) ==
    [k \in DOMAIN lines |-> Square(Positive(Gap(lines, plan, k) - ceiling))]
Promised(lines) == {k \in DOMAIN lines : lines[k].committed /\ lines[k].promised # NoDay}
PromiseW(lines, plan) ==
    [k \in Promised(lines) |-> Square(Positive(Expected(plan)[k] - lines[k].promised - Slack))]
TargetW(lines, plan) ==
    [k \in DOMAIN lines |-> IF lines[k].target = NoDay THEN 0
                            ELSE Positive(Expected(plan)[k] - lines[k].target)]

(* What is above a bound weighs no less than nothing. *)
LEMMA Above ==
  ASSUME NEW x \in Int
  PROVE  Positive(x) \in Nat /\ Square(Positive(x)) \in Nat
<1>1. Positive(x) \in Nat
  BY DEF Positive
<1> QED BY <1>1, Squares

(* The breaches of the contest are their sums. *)
LEMMA Breaches ==
  ASSUME NEW lines, IsBook(lines), NEW plan \in [DOMAIN lines -> Nat],
         NEW ceiling \in Nat \cup {NoDay}
  PROVE  /\ OntimeW(lines, plan) \in [DOMAIN lines -> Nat]
         /\ OntimeBreach(lines, plan) = SumOver(OntimeW(lines, plan), DOMAIN lines)
         /\ CeilingW(lines, plan, ceiling) \in [DOMAIN lines -> Nat]
         /\ CeilingBreach(lines, plan, ceiling) =
              IF ceiling = NoDay THEN 0 ELSE SumOver(CeilingW(lines, plan, ceiling), DOMAIN lines)
         /\ Committed(lines, plan) = Promised(lines)
         /\ PromiseW(lines, plan) \in [Promised(lines) -> Nat]
         /\ PromiseBreach(lines, plan) = SumOver(PromiseW(lines, plan), Promised(lines))
         /\ TargetW(lines, plan) \in [DOMAIN lines -> Nat]
         /\ TargetBreach(lines, plan) = SumOver(TargetW(lines, plan), DOMAIN lines)
<1> DEFINE S == DOMAIN lines
<1>0. /\ IsFiniteSet(S) /\ DOMAIN plan = S /\ ceiling \in Int
      /\ Promised(lines) \in SUBSET S /\ IsFiniteSet(Promised(lines))
  <2>1. Promised(lines) \in SUBSET S
    BY DEF Promised
  <2> QED BY <2>1, FS_Subset DEF IsBook, NoDay
<1>1. OntimeW(lines, plan) \in [S -> Nat]
  BY PlanDays, LateCosts DEF OntimeW
<1>2. OntimeBreach(lines, plan) = SumOver(OntimeW(lines, plan), S)
  <2>1. OntimeBreach(lines, plan) = SumFunction(OntimeW(lines, plan))
    BY <1>0 DEF OntimeBreach, OntimeW, LateCost
  <2> QED BY <1>0, <1>1, <2>1, FunctionSum
<1>3. CeilingW(lines, plan, ceiling) \in [S -> Nat]
  <2>1. ASSUME NEW k \in S PROVE Square(Positive(Gap(lines, plan, k) - ceiling)) \in Nat
    <3>1. Gap(lines, plan, k) - ceiling \in Int
      BY <1>0, PlanDays
    <3> QED BY <3>1, Above
  <2> QED BY <2>1 DEF CeilingW
<1>4. CeilingBreach(lines, plan, ceiling) =
        IF ceiling = NoDay THEN 0 ELSE SumOver(CeilingW(lines, plan, ceiling), S)
  <2>1. CeilingBreach(lines, plan, ceiling) =
          IF ceiling = NoDay THEN 0 ELSE SumFunction(CeilingW(lines, plan, ceiling))
    BY <1>0 DEF CeilingBreach, CeilingW
  <2> QED BY <1>0, <1>3, <2>1, FunctionSum
<1>5. Committed(lines, plan) = Promised(lines)
  BY <1>0 DEF Committed, Promised
<1>6. PromiseW(lines, plan) \in [Promised(lines) -> Nat]
  <2>1. ASSUME NEW k \in Promised(lines)
        PROVE  Square(Positive(Expected(plan)[k] - lines[k].promised - Slack)) \in Nat
    <3>1. Expected(plan)[k] \in Nat /\ lines[k] \in OrderLine
      BY <1>0, PlanDays
    <3>2. Expected(plan)[k] - lines[k].promised - Slack \in Int
      BY <3>1, BooksAssumption DEF OrderLine
    <3> QED BY <3>2, Above
  <2> QED BY <2>1 DEF PromiseW
<1>7. PromiseBreach(lines, plan) = SumOver(PromiseW(lines, plan), Promised(lines))
  <2>1. PromiseBreach(lines, plan) = SumFunction(PromiseW(lines, plan))
    BY <1>5 DEF PromiseBreach, PromiseW
  <2> QED BY <1>0, <1>6, <2>1, FunctionSum
<1>8. TargetW(lines, plan) \in [S -> Nat]
  <2>1. ASSUME NEW k \in S PROVE Positive(Expected(plan)[k] - lines[k].target) \in Nat
    <3>1. Expected(plan)[k] - lines[k].target \in Int
      BY PlanDays DEF OrderLine
    <3> QED BY <3>1, Above
  <2> QED BY <2>1 DEF TargetW
<1>9. TargetBreach(lines, plan) = SumOver(TargetW(lines, plan), S)
  <2>1. TargetBreach(lines, plan) = SumFunction(TargetW(lines, plan))
    BY <1>0 DEF TargetBreach, TargetW
  <2> QED BY <1>0, <1>8, <2>1, FunctionSum
<1> QED BY <1>1, <1>2, <1>3, <1>4, <1>5, <1>6, <1>7, <1>8, <1>9

-----------------------------------------------------------------------------
(* The two scorers.                                                         *)

(* The search weighs what is late as the contest does. *)
LEMMA SameLateness ==
  ASSUME NEW lines, IsBook(lines), NEW plan \in [DOMAIN lines -> Nat],
         NEW ceiling \in Nat \cup {NoDay}
  PROVE  LET o == Objective(ComputeMetrics(lines, plan), ceiling)
         IN  OntimeBreach(lines, plan) = o.ontime /\ CeilingBreach(lines, plan, ceiling) = o.ceiling
<1> DEFINE S == DOMAIN lines
           late == [k \in S |-> Gap(lines, plan, k)]
           o == Objective(ComputeMetrics(lines, plan), ceiling)
<1>0. DOMAIN plan = S /\ late \in [S -> Int] /\ ceiling \in Int
  BY PlanDays DEF NoDay
<1>1. ComputeMetrics(lines, plan).lateness = late
  BY <1>0, PlanDays DEF ComputeMetrics, LatenessDays
<1>2. o.ontime = OntimeTerm(late)
      /\ o.ceiling = IF ceiling = NoDay THEN 0 ELSE SquaresAbove(late, ceiling)
  <2> HIDE DEF late
  <2> QED BY <1>1 DEF Objective
<1>3. OntimeTerm(late) = OntimeBreach(lines, plan)
  <2> DEFINE miss(k) == IF late[k] > 0 THEN 4 * late[k] ELSE -late[k]
             term(k) == (IF miss(k) > 4 * OntimeCap THEN Square(4 * OntimeCap) ELSE Square(miss(k)))
                        + IF late[k] > 0 THEN 16 * LateLinear * late[k] ELSE 0
             cost(k) == LET g == Gap(lines, plan, k)
                            capped == Min({IF g > 0 THEN 4 * g ELSE -g, 4 * OntimeCap})
                        IN  Square(capped) + 16 * LateLinear * Positive(g)
  <2>1. ASSUME NEW k \in S PROVE term(k) = cost(k)
    <3> DEFINE g == Gap(lines, plan, k)
    <3>1. late[k] = g /\ g \in Int
      BY <1>0
    <3> HIDE DEF late, g
    <3>2. Min({IF g > 0 THEN 4 * g ELSE -g, 4 * OntimeCap}) =
            IF (IF g > 0 THEN 4 * g ELSE -g) <= 4 * OntimeCap
            THEN IF g > 0 THEN 4 * g ELSE -g ELSE 4 * OntimeCap
      BY <3>1, MinOfTwo DEF OntimeCap
    <3>3. cost(k) = Square(IF (IF g > 0 THEN 4 * g ELSE -g) <= 4 * OntimeCap
                           THEN IF g > 0 THEN 4 * g ELSE -g ELSE 4 * OntimeCap)
                    + 16 * LateLinear * Positive(g)
      BY <3>2 DEF g
    <3>4. miss(k) > 4 * OntimeCap <=> ~((IF g > 0 THEN 4 * g ELSE -g) <= 4 * OntimeCap)
      BY <3>1 DEF OntimeCap
    <3>5. (IF late[k] > 0 THEN 16 * LateLinear * late[k] ELSE 0) = 16 * LateLinear * Positive(g)
      BY <3>1 DEF LateLinear, Positive
    <3>6. (IF miss(k) > 4 * OntimeCap THEN Square(4 * OntimeCap) ELSE Square(miss(k)))
            = Square(IF (IF g > 0 THEN 4 * g ELSE -g) <= 4 * OntimeCap
                     THEN IF g > 0 THEN 4 * g ELSE -g ELSE 4 * OntimeCap)
      BY <3>1, <3>4
    <3> QED BY <3>3, <3>5, <3>6
  <2>2. [k \in S |-> term(k)] = [k \in S |-> cost(k)]
    BY <2>1
  <2>3. OntimeTerm(late) = SumFunction([k \in S |-> term(k)])
    BY DEF OntimeTerm
  <2>4. OntimeBreach(lines, plan) = SumFunction([k \in S |-> cost(k)])
    BY <1>0 DEF OntimeBreach
  <2> QED BY <2>2, <2>3, <2>4
<1>4. ceiling # NoDay => SquaresAbove(late, ceiling) = CeilingBreach(lines, plan, ceiling)
  <2>1. ASSUME NEW k \in S
        PROVE  (IF late[k] > ceiling THEN Square(late[k] - ceiling) ELSE 0)
                 = Square(Positive(Gap(lines, plan, k) - ceiling))
    <3>1. late[k] = Gap(lines, plan, k) /\ late[k] \in Int
      BY <1>0
    <3> HIDE DEF late
    <3>2. Square(0) = 0
      BY DEF Square
    <3> QED BY <1>0, <3>1, <3>2 DEF Positive
  <2>2. [k \in S |-> IF late[k] > ceiling THEN Square(late[k] - ceiling) ELSE 0]
          = [k \in S |-> Square(Positive(Gap(lines, plan, k) - ceiling))]
    BY <2>1
  <2> QED BY <1>0, <2>2 DEF SquaresAbove, CeilingBreach
<1>5. ceiling = NoDay => CeilingBreach(lines, plan, ceiling) = 0
  BY DEF CeilingBreach
<1> QED BY <1>2, <1>3, <1>4, <1>5

(* So it does the dates promised and the must-finish dates; an order without *)
(* one weighs nothing.                                                      *)
LEMMA SameDates ==
  ASSUME NEW lines, IsBook(lines), NEW plan \in [DOMAIN lines -> Nat],
         NEW ceiling \in Nat \cup {NoDay}
  PROVE  LET o == Objective(ComputeMetrics(lines, plan), ceiling)
         IN  PromiseBreach(lines, plan) = o.promise /\ TargetBreach(lines, plan) = o.target
<1> DEFINE S == DOMAIN lines
           o == Objective(ComputeMetrics(lines, plan), ceiling)
           has == {k \in S : lines[k].target # NoDay}
           slip == [k \in Promised(lines) |-> Expected(plan)[k] - lines[k].promised]
           over == [k \in has |-> Expected(plan)[k] - lines[k].target]
           m == ComputeMetrics(lines, plan)
<1>0. DOMAIN plan = S /\ has \in SUBSET S /\ IsFiniteSet(S) /\ IsFiniteSet(has)
      /\ Promised(lines) \in SUBSET S
  BY FS_Subset DEF IsBook, Promised
<1>1. m.promiseSlip = slip
  <2> DEFINE p == [k \in S |-> IF lines[k].committed THEN lines[k].promised ELSE NoDay]
  <2>1. {k \in S : p[k] # NoDay} = Promised(lines)
    BY DEF Promised
  <2>2. \A k \in Promised(lines) : p[k] = lines[k].promised
    BY DEF Promised
  <2>3. m.promiseSlip = [k \in {k2 \in S : p[k2] # NoDay} |-> LatenessDays(plan[k], p[k])]
    BY <1>0 DEF ComputeMetrics
  <2>4. \A k \in Promised(lines) : LatenessDays(plan[k], p[k]) = slip[k]
    BY <1>0, <2>2, PlanDays, ZenonT(60) DEF LatenessDays
  <2> HIDE DEF p
  <2> QED BY <2>1, <2>3, <2>4
<1>2. m.targetSlip = over
  <2> DEFINE p == [k \in S |-> lines[k].target]
  <2>1. {k \in S : p[k] # NoDay} = has
    OBVIOUS
  <2>2. m.targetSlip = [k \in {k2 \in S : p[k2] # NoDay} |-> LatenessDays(plan[k], p[k])]
    BY <1>0 DEF ComputeMetrics
  <2>3. \A k \in has : LatenessDays(plan[k], p[k]) = over[k]
    BY <1>0, PlanDays DEF LatenessDays
  <2> HIDE DEF p
  <2> QED BY <2>1, <2>2, <2>3
<1> HIDE DEF m
<1>3. o.promise = SquaresAbove(slip, Slack)
      /\ o.target = SumFunction([k \in has |-> Positive(over[k])])
  <2>1. o.promise = SquaresAbove(m.promiseSlip, Slack)
        /\ o.target = SumFunction([k \in DOMAIN m.targetSlip |-> Positive(m.targetSlip[k])])
    BY DEF Objective, m
  <2> QED BY <1>1, <1>2, <2>1
<1>4. SquaresAbove(slip, Slack) = PromiseBreach(lines, plan)
  <2>1. ASSUME NEW k \in Promised(lines)
        PROVE  (IF slip[k] > Slack THEN Square(slip[k] - Slack) ELSE 0)
                 = Square(Positive(Expected(plan)[k] - lines[k].promised - Slack))
    <3>1. slip[k] = Expected(plan)[k] - lines[k].promised /\ slip[k] \in Int
      BY <1>0, PlanDays DEF OrderLine
    <3> HIDE DEF slip
    <3>2. Square(0) = 0
      BY DEF Square
    <3> QED BY <3>1, <3>2, BooksAssumption DEF Positive
  <2>2. [k \in Promised(lines) |-> IF slip[k] > Slack THEN Square(slip[k] - Slack) ELSE 0]
          = PromiseW(lines, plan)
    BY <2>1 DEF PromiseW
  <2>3. SquaresAbove(slip, Slack) = SumFunction(PromiseW(lines, plan))
    BY <2>2 DEF SquaresAbove
  <2>4. Committed(lines, plan) = Promised(lines)
    BY Breaches
  <2> QED BY <2>3, <2>4 DEF PromiseBreach, PromiseW
<1>5. SumFunction([k \in has |-> Positive(over[k])]) = TargetBreach(lines, plan)
  <2> DEFINE v == [k \in has |-> Positive(over[k])]
  <2>1. v \in [has -> Nat]
    <3>1. ASSUME NEW k \in has PROVE Positive(over[k]) \in Nat
      <4>1. over[k] \in Int
        BY PlanDays DEF OrderLine
      <4> QED BY <4>1, Above
    <3> QED BY <3>1
  <2>2. /\ \A k \in has : v[k] = TargetW(lines, plan)[k]
        /\ \A k \in S \ has : TargetW(lines, plan)[k] = 0
    BY DEF TargetW
  <2> HIDE DEF v
  <2>3. SumOver(TargetW(lines, plan), S) = SumOver(v, has)
    <3>1. TargetW(lines, plan) \in [S -> Nat]
      BY Breaches
    <3> HIDE DEF has, S
    <3> QED BY <1>0, <2>1, <2>2, <3>1, SumOfPart
  <2>4. SumFunction(v) = SumOver(v, has)
    BY <1>0, <2>1, FunctionSum
  <2>5. SumFunction(v) = TargetBreach(lines, plan)
    BY <2>3, <2>4, Breaches
  <2> QED BY <2>5 DEF v
<1> QED BY <1>3, <1>4, <1>5

-----------------------------------------------------------------------------
(* A late day is never free.                                                *)

(* The longest order of a plan. *)
LEMMA Makespan ==
  ASSUME NEW lines, IsBook(lines), NEW plan \in [DOMAIN lines -> Nat]
  PROVE  /\ Max({plan[k] : k \in DOMAIN plan}) \in {plan[k] : k \in DOMAIN lines}
         /\ \A k \in DOMAIN lines : plan[k] <= Max({plan[k2] : k2 \in DOMAIN plan})
<1>1. DOMAIN plan = DOMAIN lines /\ IsFiniteSet(DOMAIN lines) /\ DOMAIN lines # {}
  BY DEF IsBook
<1>2. {plan[k] : k \in DOMAIN plan} = {plan[k] : k \in DOMAIN lines}
  BY <1>1
<1>3. /\ Max({plan[k] : k \in DOMAIN lines}) \in {plan[k] : k \in DOMAIN lines}
      /\ \A k \in DOMAIN lines : plan[k] <= Max({plan[k2] : k2 \in DOMAIN lines})
  BY <1>1, MaxOfValues
<1> QED BY <1>2, <1>3

(* Orders that end no earlier make the plan no shorter. *)
LEMMA MakespanGrows ==
  ASSUME NEW lines, IsBook(lines), NEW plan \in [DOMAIN lines -> Nat],
         NEW other \in [DOMAIN lines -> Nat], \A k \in DOMAIN lines : plan[k] <= other[k]
  PROVE  MakespanDays(plan) <= MakespanDays(other) /\ MakespanDays(plan) \in Nat
         /\ MakespanDays(other) \in Nat
<1> DEFINE x == Max({plan[k] : k \in DOMAIN plan})
           y == Max({other[k] : k \in DOMAIN other})
<1>1. x \in {plan[k] : k \in DOMAIN lines} /\ y \in {other[k] : k \in DOMAIN lines}
      /\ \A k \in DOMAIN lines : other[k] <= y
  BY Makespan
<1> HIDE DEF x, y
<1>2. PICK k \in DOMAIN lines : x = plan[k]
  BY <1>1
<1>3. x \in Nat /\ y \in Nat /\ x <= y
  <2>1. plan[k] \in Nat /\ other[k] \in Nat /\ plan[k] <= other[k] /\ other[k] <= y
    BY <1>1
  <2>2. y \in Nat
    BY <1>1
  <2> QED BY <1>2, <2>1, <2>2
<1>4. MakespanDays(plan) = Rounded(100, x) /\ MakespanDays(other) = Rounded(100, y)
  BY DEF MakespanDays, x, y
<1>5. y <= y
  BY <1>3
<1> QED BY <1>3, <1>4, <1>5, RoundedGrows

(* What a metric that is no larger in anything, and smaller in its days on    *)
(* time by a day's rate, scores.                                            *)
LEMMA Better ==
  ASSUME NEW m \in [ontime : Nat, ceiling : Nat, promise : Nat, target : Nat, makespan : Nat],
         NEW n \in [ontime : Nat, ceiling : Nat, promise : Nat, target : Nat, makespan : Nat],
         m.ontime + 160 <= n.ontime, m.ceiling <= n.ceiling, m.promise <= n.promise,
         m.target <= n.target, m.makespan <= n.makespan
  PROVE  Beats(m, n)
<1>1. (1000 * (m.ontime - n.ontime) + 16 * (m.makespan - n.makespan)) \div 16000 < 0
  OBVIOUS
<1>2. Difference(m, n) < 0
  BY <1>1 DEF Difference, CeilingWeight, PromiseWeight
<1>3. Difference(m, n) \in Int
  BY DEF Difference, CeilingWeight, PromiseWeight
<1> QED BY <1>2, <1>3 DEF Beats, TargetWeight

(* The metrics of a plan are numbers. *)
LEMMA MetricsType ==
  ASSUME NEW lines, IsBook(lines), NEW plan \in [DOMAIN lines -> Nat],
         NEW ceiling \in Nat \cup {NoDay}
  PROVE  PlanMetrics(lines, plan, ceiling) \in
           [ontime : Nat, ceiling : Nat, promise : Nat, target : Nat, makespan : Nat]
<1>1. IsFiniteSet(DOMAIN lines) /\ IsFiniteSet(Promised(lines))
  BY FS_Subset DEF IsBook, Promised
<1>2. OntimeBreach(lines, plan) \in Nat
  BY <1>1, Breaches, TotalType
<1>3. CeilingBreach(lines, plan, ceiling) \in Nat
  BY <1>1, Breaches, TotalType
<1>4. PromiseBreach(lines, plan) \in Nat
  BY <1>1, Breaches, TotalType
<1>5. TargetBreach(lines, plan) \in Nat
  BY <1>1, Breaches, TotalType
<1>6. MakespanDays(plan) \in Nat
  BY MakespanGrows
<1> QED BY <1>2, <1>3, <1>4, <1>5, <1>6 DEF PlanMetrics

(* Orders that end no earlier weigh no less. *)
LEMMA BreachesGrow ==
  ASSUME NEW lines, IsBook(lines), NEW plan \in [DOMAIN lines -> Nat],
         NEW other \in [DOMAIN lines -> Nat], NEW ceiling \in Nat \cup {NoDay},
         \A k \in DOMAIN lines : plan[k] \div Minutes <= other[k] \div Minutes
  PROVE  /\ CeilingBreach(lines, plan, ceiling) <= CeilingBreach(lines, other, ceiling)
         /\ PromiseBreach(lines, plan) <= PromiseBreach(lines, other)
         /\ TargetBreach(lines, plan) <= TargetBreach(lines, other)
<1> DEFINE S == DOMAIN lines
<1>0. IsFiniteSet(S) /\ IsFiniteSet(Promised(lines)) /\ Promised(lines) \in SUBSET S
      /\ ceiling \in Int
  BY FS_Subset DEF IsBook, Promised, NoDay
<1>1. ASSUME NEW k \in S
      PROVE  /\ Expected(plan)[k] \in Nat /\ Expected(other)[k] \in Nat
             /\ Expected(plan)[k] <= Expected(other)[k]
             /\ Gap(lines, plan, k) \in Int /\ Gap(lines, other, k) \in Int
             /\ Gap(lines, plan, k) <= Gap(lines, other, k)
             /\ lines[k].target \in Int /\ lines[k].promised \in Int
  <2>1. /\ Expected(plan)[k] \in Nat /\ Expected(other)[k] \in Nat
        /\ Expected(plan)[k] = plan[k] \div Minutes /\ Expected(other)[k] = other[k] \div Minutes
        /\ Gap(lines, plan, k) = Expected(plan)[k] - lines[k].due
        /\ Gap(lines, other, k) = Expected(other)[k] - lines[k].due
        /\ lines[k] \in OrderLine
    BY PlanDays
  <2>2. plan[k] \div Minutes <= other[k] \div Minutes
    OBVIOUS
  <2>3. lines[k].due \in Int /\ lines[k].target \in Int /\ lines[k].promised \in Int
    BY <2>1 DEF OrderLine
  <2> QED BY <2>1, <2>2, <2>3
<1>2. ASSUME NEW x \in Int, NEW y \in Int, x <= y
      PROVE  Positive(x) <= Positive(y) /\ Square(Positive(x)) <= Square(Positive(y))
  <2>1. Positive(x) \in Nat /\ Positive(y) \in Nat /\ Positive(x) <= Positive(y)
    BY <1>2 DEF Positive
  <2> QED BY <2>1, Squares
<1>3. SumOver(CeilingW(lines, plan, ceiling), S) <= SumOver(CeilingW(lines, other, ceiling), S)
  <2>1. ASSUME NEW k \in S
        PROVE  CeilingW(lines, plan, ceiling)[k] <= CeilingW(lines, other, ceiling)[k]
    <3>1. /\ Gap(lines, plan, k) - ceiling \in Int /\ Gap(lines, other, k) - ceiling \in Int
          /\ Gap(lines, plan, k) - ceiling <= Gap(lines, other, k) - ceiling
      BY <1>0, <1>1
    <3> QED BY <1>2, <3>1 DEF CeilingW
  <2> QED BY <1>0, <2>1, Breaches, SumMonotone
<1>4. SumOver(PromiseW(lines, plan), Promised(lines)) <= SumOver(PromiseW(lines, other), Promised(lines))
  <2>1. ASSUME NEW k \in Promised(lines)
        PROVE  PromiseW(lines, plan)[k] <= PromiseW(lines, other)[k]
    <3> DEFINE x == Expected(plan)[k] - lines[k].promised - Slack
               y == Expected(other)[k] - lines[k].promised - Slack
    <3>1. x \in Int /\ y \in Int /\ x <= y
      BY <1>0, <1>1, BooksAssumption
    <3>2. Square(Positive(x)) <= Square(Positive(y))
      <4> HIDE DEF x, y
      <4> QED BY <1>2, <3>1
    <3> QED BY <3>2 DEF PromiseW
  <2> QED BY <1>0, <2>1, Breaches, SumMonotone
<1>5. SumOver(TargetW(lines, plan), S) <= SumOver(TargetW(lines, other), S)
  <2>1. ASSUME NEW k \in S
        PROVE  TargetW(lines, plan)[k] <= TargetW(lines, other)[k]
    <3> DEFINE x == Expected(plan)[k] - lines[k].target
               y == Expected(other)[k] - lines[k].target
    <3>1. x \in Int /\ y \in Int /\ x <= y
      BY <1>1
    <3>2. Positive(x) <= Positive(y)
      <4> HIDE DEF x, y
      <4> QED BY <1>2, <3>1
    <3> QED BY <3>2 DEF TargetW
  <2> QED BY <1>0, <2>1, Breaches, SumMonotone
<1> QED BY <1>3, <1>4, <1>5, Breaches

(* One order later, all others where they were: the plan scores worse. *)
LEMMA LaterIsWorse ==
  ASSUME NEW lines, IsBook(lines), NEW plan \in [DOMAIN lines -> Nat],
         NEW other \in [DOMAIN lines -> Nat], NEW ceiling \in Nat \cup {NoDay},
         NEW k \in DOMAIN lines, Gap(lines, plan, k) >= 0,
         Gap(lines, other, k) > Gap(lines, plan, k),
         \A j \in DOMAIN lines \ {k} : plan[j] = other[j]
  PROVE  Beats(PlanMetrics(lines, plan, ceiling), PlanMetrics(lines, other, ceiling))
<1> DEFINE S == DOMAIN lines
           R == S \ {k}
           w == OntimeW(lines, plan)
           v == OntimeW(lines, other)
           rest == [j \in R |-> w[j]]
<1>0. IsFiniteSet(S) /\ IsFiniteSet(R)
  BY FS_RemoveElement DEF IsBook
<1>1. /\ Expected(plan)[k] = plan[k] \div Minutes /\ Expected(other)[k] = other[k] \div Minutes
      /\ Expected(plan)[k] \in Nat /\ Expected(other)[k] \in Nat
      /\ Gap(lines, plan, k) = Expected(plan)[k] - lines[k].due
      /\ Gap(lines, other, k) = Expected(other)[k] - lines[k].due
      /\ Gap(lines, plan, k) \in Int /\ Gap(lines, other, k) \in Int /\ lines[k] \in OrderLine
  BY PlanDays
<1>2. plan[k] \div Minutes < other[k] \div Minutes /\ plan[k] < other[k]
  <2>1. lines[k].due \in Int
    BY <1>1 DEF OrderLine
  <2>2. Expected(plan)[k] < Expected(other)[k]
    BY <1>1, <2>1
  <2> QED BY <1>1, <2>2, LaterDay
<1>3. \A j \in S : plan[j] <= other[j] /\ plan[j] \div Minutes <= other[j] \div Minutes
  <2>1. ASSUME NEW j \in S PROVE plan[j] <= other[j] /\ plan[j] \div Minutes <= other[j] \div Minutes
    <3>1. plan[j] \div Minutes \in Nat /\ other[j] \div Minutes \in Nat
      BY LaterDay
    <3>2. CASE j = k
      BY <1>2, <3>1, <3>2
    <3>3. CASE j # k
      <4>1. plan[j] = other[j]
        BY <3>3
      <4> QED BY <3>1, <4>1
    <3> QED BY <3>2, <3>3
  <2> QED BY <2>1
<1>4. w \in [S -> Nat] /\ v \in [S -> Nat]
  BY Breaches
<1>5. w[k] + 160 <= v[k]
  BY <1>1, LateCosts DEF OntimeW
<1>6. \A j \in R : w[j] = v[j]
  <2>1. ASSUME NEW j \in R PROVE Gap(lines, plan, j) = Gap(lines, other, j)
    <3>1. plan[j] = other[j]
      OBVIOUS
    <3> QED BY <3>1, PlanDays
  <2> QED BY <2>1 DEF OntimeW
<1> HIDE DEF w, v
<1>7. rest \in [R -> Nat] /\ (\A j \in R : rest[j] = w[j]) /\ (\A j \in R : rest[j] = v[j])
  BY <1>4, <1>6
<1>8. SumOver(w, S) = w[k] + SumOver(rest, R) /\ SumOver(v, S) = v[k] + SumOver(rest, R)
  <2> HIDE DEF rest
  <2> QED BY <1>0, <1>4, <1>7, TotalAdds
<1>9. SumOver(rest, R) \in Nat /\ w[k] \in Nat /\ v[k] \in Nat
  <2>1. SumOver(rest, R) \in Nat
    BY <1>0, <1>7, TotalType
  <2> QED BY <1>4, <2>1
<1>10. SumOver(w, S) + 160 <= SumOver(v, S)
  <2> HIDE DEF rest
  <2> QED BY <1>5, <1>8, <1>9
<1>11. OntimeBreach(lines, plan) + 160 <= OntimeBreach(lines, other)
  BY <1>10, Breaches DEF w, v
<1>12. /\ CeilingBreach(lines, plan, ceiling) <= CeilingBreach(lines, other, ceiling)
       /\ PromiseBreach(lines, plan) <= PromiseBreach(lines, other)
       /\ TargetBreach(lines, plan) <= TargetBreach(lines, other)
  BY <1>3, BreachesGrow
<1>13. MakespanDays(plan) <= MakespanDays(other)
  BY <1>3, MakespanGrows
<1>14. /\ PlanMetrics(lines, plan, ceiling) \in
            [ontime : Nat, ceiling : Nat, promise : Nat, target : Nat, makespan : Nat]
       /\ PlanMetrics(lines, other, ceiling) \in
            [ontime : Nat, ceiling : Nat, promise : Nat, target : Nat, makespan : Nat]
  BY MetricsType
<1> DEFINE m == PlanMetrics(lines, plan, ceiling)
           n == PlanMetrics(lines, other, ceiling)
<1>15. m.ontime + 160 <= n.ontime /\ m.ceiling <= n.ceiling /\ m.promise <= n.promise
       /\ m.target <= n.target /\ m.makespan <= n.makespan
  BY <1>11, <1>12, <1>13 DEF PlanMetrics
<1> HIDE DEF m, n
<1> QED BY <1>14, <1>15, Better DEF m, n

-----------------------------------------------------------------------------
(* A missed date outweighs the rest.                                        *)

(* No book has more than these orders and committed orders, no plan ends or  *)
(* makes an order later than these days, and all that weighs less than a    *)
(* missed date: so it is with a hundred orders, ten of them committed, all    *)
(* of them two months late.                                                 *)
Outweighed(orders, committed, days) ==
    /\ \A book \in Books :
        /\ Cardinality(DOMAIN book) <= orders /\ Cardinality(Promised(book)) <= committed
        /\ \A k \in DOMAIN book, e \in Ends :
            /\ e \div Minutes <= days /\ e \div Minutes - book[k].due <= days
            /\ k \in Promised(book) => e \div Minutes - book[k].promised <= days
    /\ CeilingWeight * (orders * Square(days)) + PromiseWeight * (committed * Square(days))
         + orders * (3600 + 10 * days) + days + 1 <= TargetWeight

(* What the rest of a plan can weigh. *)
LEMMA BreachesBounded ==
  ASSUME NEW lines \in Books, NEW plan \in [DOMAIN lines -> Ends], NEW ceiling \in Nat \cup {NoDay},
         NEW orders \in Nat, NEW committed \in Nat, NEW days \in Nat,
         Outweighed(orders, committed, days)
  PROVE  /\ CeilingBreach(lines, plan, ceiling) <= orders * Square(days)
         /\ PromiseBreach(lines, plan) <= committed * Square(days)
         /\ OntimeBreach(lines, plan) <= orders * (57600 + 160 * days)
         /\ MakespanDays(plan) <= 100 * days + 100
<1> DEFINE S == DOMAIN lines
           P == Promised(lines)
<1>0. /\ IsBook(lines) /\ plan \in [S -> Nat] /\ IsFiniteSet(S) /\ IsFiniteSet(P) /\ P \in SUBSET S
      /\ Cardinality(S) \in Nat /\ Cardinality(P) \in Nat
      /\ Cardinality(S) <= orders /\ Cardinality(P) <= committed /\ ceiling \in Int
  <2>1. IsBook(lines) /\ Ends \subseteq Nat
    BY BooksAssumption DEF IsBook
  <2>2. P \in SUBSET S
    BY DEF Promised
  <2>3. IsFiniteSet(S) /\ IsFiniteSet(P)
    BY <2>1, <2>2, FS_Subset DEF IsBook
  <2>4. Cardinality(S) <= orders /\ Cardinality(P) <= committed
    BY DEF Outweighed
  <2>5. Cardinality(S) \in Nat /\ Cardinality(P) \in Nat
    BY <2>3, FS_CardinalityType
  <2>6. plan \in [S -> Nat]
    BY <2>1
  <2>7. ceiling \in Int
    BY DEF NoDay
  <2> QED BY <2>1, <2>2, <2>3, <2>4, <2>5, <2>6, <2>7
<1>1. ASSUME NEW k \in S
      PROVE  /\ Expected(plan)[k] \in Nat /\ Expected(plan)[k] <= days
             /\ Gap(lines, plan, k) \in Int /\ Gap(lines, plan, k) <= days
             /\ k \in P => Expected(plan)[k] - lines[k].promised <= days
             /\ lines[k].promised \in Int /\ plan[k] \div Minutes <= days
  <2>1. /\ Expected(plan)[k] = plan[k] \div Minutes /\ Expected(plan)[k] \in Nat
        /\ Gap(lines, plan, k) = Expected(plan)[k] - lines[k].due
        /\ Gap(lines, plan, k) \in Int /\ lines[k] \in OrderLine
    BY <1>0, PlanDays
  <2>2. /\ plan[k] \div Minutes <= days /\ plan[k] \div Minutes - lines[k].due <= days
        /\ k \in P => plan[k] \div Minutes - lines[k].promised <= days
    BY DEF Outweighed
  <2> QED BY <2>1, <2>2 DEF OrderLine
<1>2. ASSUME NEW x \in Int, x <= days PROVE Square(Positive(x)) <= Square(days)
  <2>1. Positive(x) \in Nat /\ Positive(x) <= days
    BY <1>2 DEF Positive
  <2> QED BY <2>1, Squares
<1>3. Square(days) \in Nat
  BY Squares
<1>4. ASSUME NEW n \in Nat, NEW most \in Nat, NEW bound \in Nat, n <= bound
      PROVE  n * most <= bound * most
  BY <1>4
<1>5. CeilingBreach(lines, plan, ceiling) <= orders * Square(days)
  <2>1. CASE ceiling = NoDay
    <3>1. orders * Square(days) \in Nat
      BY <1>3
    <3> QED BY <2>1, <3>1 DEF CeilingBreach
  <2>2. CASE ceiling # NoDay
    <3>1. ASSUME NEW k \in S PROVE CeilingW(lines, plan, ceiling)[k] <= Square(days)
      <4>1. Gap(lines, plan, k) - ceiling \in Int /\ Gap(lines, plan, k) - ceiling <= days
        BY <1>0, <1>1, <2>2
      <4> QED BY <1>2, <4>1 DEF CeilingW
    <3>2. CeilingW(lines, plan, ceiling) \in [S -> Nat]
      BY <1>0, Breaches
    <3>3. SumOver(CeilingW(lines, plan, ceiling), S) <= Cardinality(S) * Square(days)
      BY <1>0, <1>3, <3>1, <3>2, SumBounded
    <3>4. SumOver(CeilingW(lines, plan, ceiling), S) \in Nat
      BY <1>0, <3>2, TotalType
    <3>5. Cardinality(S) * Square(days) <= orders * Square(days)
      BY <1>0, <1>3, <1>4
    <3>6. CeilingBreach(lines, plan, ceiling) = SumOver(CeilingW(lines, plan, ceiling), S)
      BY <1>0, <2>2, Breaches
    <3>7. Cardinality(S) * Square(days) \in Nat /\ orders * Square(days) \in Nat
      BY <1>0, <1>3
    <3> QED BY <3>3, <3>4, <3>5, <3>6, <3>7
  <2> QED BY <2>1, <2>2
<1>6. PromiseBreach(lines, plan) <= committed * Square(days)
  <2>1. ASSUME NEW k \in P PROVE PromiseW(lines, plan)[k] <= Square(days)
    <3>1. /\ Expected(plan)[k] - lines[k].promised - Slack \in Int
          /\ Expected(plan)[k] - lines[k].promised - Slack <= days
      BY <1>0, <1>1, BooksAssumption
    <3> QED BY <1>2, <3>1 DEF PromiseW
  <2>2. PromiseW(lines, plan) \in [P -> Nat]
    BY <1>0, Breaches
  <2>3. SumOver(PromiseW(lines, plan), P) <= Cardinality(P) * Square(days)
    BY <1>0, <1>3, <2>1, <2>2, SumBounded
  <2>4. SumOver(PromiseW(lines, plan), P) \in Nat
    BY <1>0, <2>2, TotalType
  <2>5. Cardinality(P) * Square(days) <= committed * Square(days)
    BY <1>0, <1>3, <1>4
  <2>6. PromiseBreach(lines, plan) = SumOver(PromiseW(lines, plan), P)
    BY <1>0, Breaches
  <2>7. Cardinality(P) * Square(days) \in Nat /\ committed * Square(days) \in Nat
    BY <1>0, <1>3
  <2> QED BY <2>3, <2>4, <2>5, <2>6, <2>7
<1>7. OntimeBreach(lines, plan) <= orders * (57600 + 160 * days)
  <2> DEFINE most == 57600 + 160 * days
  <2>0. most \in Nat
    OBVIOUS
  <2>1. ASSUME NEW k \in S PROVE OntimeW(lines, plan)[k] <= most
    BY <1>1, LateCosts DEF OntimeW
  <2> HIDE DEF most
  <2>2. OntimeW(lines, plan) \in [S -> Nat]
    BY <1>0, Breaches
  <2>3. SumOver(OntimeW(lines, plan), S) <= Cardinality(S) * most
    BY <1>0, <2>0, <2>1, <2>2, SumBounded
  <2>4. SumOver(OntimeW(lines, plan), S) \in Nat
    BY <1>0, <2>2, TotalType
  <2>5. Cardinality(S) * most <= orders * most
    BY <1>0, <1>4, <2>0
  <2>6. OntimeBreach(lines, plan) = SumOver(OntimeW(lines, plan), S)
    BY <1>0, Breaches
  <2>7. Cardinality(S) * most \in Nat /\ orders * most \in Nat
    BY <1>0, <2>0
  <2>8. OntimeBreach(lines, plan) <= orders * most
    BY <2>3, <2>4, <2>5, <2>6, <2>7
  <2> QED BY <2>8 DEF most
<1>8. MakespanDays(plan) <= 100 * days + 100
  <2> DEFINE x == Max({plan[k] : k \in DOMAIN plan})
  <2>1. x \in {plan[k] : k \in S}
    BY <1>0, Makespan
  <2>2. MakespanDays(plan) = Rounded(100, x)
    BY DEF MakespanDays
  <2> HIDE DEF x
  <2>3. PICK k \in S : x = plan[k]
    BY <2>1
  <2>4. x \in Nat /\ x \div Minutes <= days /\ x \div Minutes \in Nat
    BY <1>0, <1>1, <2>3, LaterDay
  <2>5. Rounded(100, x) \in Nat /\ Rounded(100, x) <= 100 * (x \div Minutes) + 100
    BY <2>4, RoundedGrows
  <2> QED BY <2>2, <2>4, <2>5
<1> QED BY <1>5, <1>6, <1>7, <1>8

(* While the rest is small enough, a plan that meets every must-finish date  *)
(* beats one that does not.                                                 *)
LEMMA MeetingBeatsMissing ==
  ASSUME NEW lines \in Books, NEW plan \in [DOMAIN lines -> Ends], NEW other \in [DOMAIN lines -> Ends],
         NEW ceiling \in Ceilings, NEW orders \in Nat, NEW committed \in Nat, NEW days \in Nat,
         Outweighed(orders, committed, days),
         TargetBreach(lines, plan) = 0, TargetBreach(lines, other) > 0
  PROVE  Beats(PlanMetrics(lines, plan, ceiling), PlanMetrics(lines, other, ceiling))
<1> DEFINE m == PlanMetrics(lines, plan, ceiling)
           n == PlanMetrics(lines, other, ceiling)
           sq == Square(days)
           few == orders * sq
           fewer == committed * sq
           rate == orders * (3600 + 10 * days)
<1>0. /\ IsBook(lines) /\ plan \in [DOMAIN lines -> Nat] /\ other \in [DOMAIN lines -> Nat]
      /\ ceiling \in Nat \cup {NoDay}
  BY BooksAssumption DEF IsBook
<1>1. /\ m \in [ontime : Nat, ceiling : Nat, promise : Nat, target : Nat, makespan : Nat]
      /\ n \in [ontime : Nat, ceiling : Nat, promise : Nat, target : Nat, makespan : Nat]
  BY <1>0, MetricsType
<1>2. m.ceiling <= few /\ m.promise <= fewer /\ m.makespan <= 100 * days + 100
      /\ m.ontime <= orders * (57600 + 160 * days)
  BY <1>0, BreachesBounded DEF PlanMetrics
<1>3. m.target = 0 /\ n.target > 0
  BY DEF PlanMetrics
<1>4. few \in Nat /\ fewer \in Nat /\ rate \in Nat
  <2>1. sq \in Nat
    BY Squares
  <2> HIDE DEF sq
  <2> QED BY <2>1
<1>5. orders * (57600 + 160 * days) = 16 * rate
  OBVIOUS
<1>6. CeilingWeight * few + PromiseWeight * fewer + rate + days + 1 <= TargetWeight
  BY DEF Outweighed
<1> HIDE DEF m, n, few, fewer, rate
<1>7. (1000 * (m.ontime - n.ontime) + 16 * (m.makespan - n.makespan)) \div 16000 < rate + days + 1
  <2>1. 1000 * (m.ontime - n.ontime) + 16 * (m.makespan - n.makespan)
          <= 16000 * rate + 1600 * (days + 1)
    BY <1>1, <1>2, <1>4, <1>5
  <2>2. 1000 * (m.ontime - n.ontime) + 16 * (m.makespan - n.makespan) \in Int
    BY <1>1
  <2>3. ASSUME NEW x \in Int, x <= 16000 * rate + 1600 * (days + 1)
        PROVE  x \div 16000 < rate + days + 1
    BY <1>4, <2>3
  <2> QED BY <2>1, <2>2, <2>3
<1>8. Difference(m, n) < TargetWeight
  <2>1. /\ CeilingWeight * (m.ceiling - n.ceiling) <= CeilingWeight * few
        /\ PromiseWeight * (m.promise - n.promise) <= PromiseWeight * fewer
    BY <1>1, <1>2, <1>4 DEF CeilingWeight, PromiseWeight
  <2>2. (1000 * (m.ontime - n.ontime) + 16 * (m.makespan - n.makespan)) \div 16000 \in Int
    BY <1>1
  <2> QED BY <1>1, <1>4, <1>6, <1>7, <2>1, <2>2 DEF Difference, CeilingWeight, PromiseWeight, TargetWeight
<1>9. Beats(m, n)
  BY <1>1, <1>3, <1>8 DEF Beats
<1> QED BY <1>9 DEF m, n

-----------------------------------------------------------------------------
(* The movement shown before an accept.                                     *)

(* The plan in force knows nothing of the drafts. *)
Without(plan) == [k \in DOMAIN plan \ Drafts |-> plan[k]]

(* The late days the plan adds are no more than the days it moves orders by. *)
LEMMA MovementAdds ==
  ASSUME NEW lines, IsBook(lines), NEW now \in [DOMAIN lines -> Nat],
         NEW found \in [DOMAIN lines -> Nat]
  PROVE  LET before == Without(now)
             shown  == QuoteMovement(lines, before, found)
             days   == [k \in shown.moved |-> Expected(found)[k] - Expected(before)[k]]
         IN  shown.after - shown.before <= SumFunction(days)
<1> DEFINE before == Without(now)
           C == DOMAIN lines \ Drafts
           M == {k \in C : Expected(found)[k] > Expected(before)[k]}
           shown == QuoteMovement(lines, before, found)
           days == [k \in M |-> Expected(found)[k] - Expected(before)[k]]
           old == [k \in C |-> Positive(Gap(lines, before, k))]
           new == [k \in C |-> Positive(Gap(lines, found, k))]
           late == [k \in C |-> IF k \in M THEN Expected(found)[k] - Expected(before)[k] ELSE 0]
           most == [k \in C |-> old[k] + late[k]]
<1>0. /\ IsFiniteSet(C) /\ M \in SUBSET C /\ IsFiniteSet(M)
      /\ DOMAIN now = DOMAIN lines /\ DOMAIN found = DOMAIN lines /\ DOMAIN before = C
      /\ Common(before, found) = C /\ Movers(before, found) = M
  <2>1. DOMAIN now = DOMAIN lines /\ DOMAIN found = DOMAIN lines /\ DOMAIN before = C
    BY DEF Without
  <2>2. Common(before, found) = C
    BY <2>1 DEF Common
  <2>3. IsFiniteSet(C) /\ M \in SUBSET C /\ IsFiniteSet(M)
    BY FS_Subset DEF IsBook
  <2> QED BY <2>1, <2>2, <2>3 DEF Movers
<1>1. ASSUME NEW k \in C
      PROVE  /\ Expected(found)[k] \in Nat /\ Expected(before)[k] \in Nat
             /\ Gap(lines, found, k) = Expected(found)[k] - lines[k].due
             /\ Gap(lines, before, k) = Expected(before)[k] - lines[k].due
             /\ lines[k].due \in Int
  <2>1. Expected(found)[k] \in Nat /\ Gap(lines, found, k) = Expected(found)[k] - lines[k].due
    BY PlanDays
  <2>2. Expected(before)[k] = now[k] \div Minutes
    BY <1>0 DEF Expected, Without
  <2>3. now[k] \div Minutes \in Nat
    BY LaterDay
  <2>4. lines[k].due \in Int
    BY DEF IsBook, OrderLine
  <2> QED BY <2>1, <2>2, <2>3, <2>4 DEF Gap
<1> HIDE DEF before
<1>2. shown.moved = M /\ shown.before = SumFunction(old) /\ shown.after = SumFunction(new)
  BY <1>0 DEF QuoteMovement, LateDays
<1>3. /\ old \in [C -> Nat] /\ new \in [C -> Nat] /\ late \in [C -> Nat] /\ most \in [C -> Nat]
      /\ days \in [M -> Nat]
  <2>1. ASSUME NEW k \in C
        PROVE  /\ Positive(Gap(lines, before, k)) \in Nat /\ Positive(Gap(lines, found, k)) \in Nat
               /\ k \in M => Expected(found)[k] - Expected(before)[k] \in Nat
    BY <1>1 DEF Positive
  <2> QED BY <2>1
<1>4. ASSUME NEW k \in C PROVE new[k] <= most[k]
  <2>1. Positive(Gap(lines, found, k)) <= Positive(Gap(lines, before, k))
           + IF k \in M THEN Expected(found)[k] - Expected(before)[k] ELSE 0
    BY <1>1 DEF Positive
  <2> QED BY <2>1
<1>5. (\A k \in M : days[k] = late[k]) /\ (\A k \in C \ M : late[k] = 0)
      /\ \A k \in C : most[k] = old[k] + late[k]
  BY <1>0
<1> HIDE DEF C, M, old, new, late, most, days, shown
<1>6. SumOver(new, C) <= SumOver(most, C)
  BY <1>0, <1>3, <1>4, SumMonotone
<1>7. SumOver(most, C) = SumOver(old, C) + SumOver(late, C)
  BY <1>0, <1>3, <1>5, SumPlus
<1>8. SumOver(late, C) = SumOver(days, M)
  BY <1>0, <1>3, <1>5, SumOfPart
<1>9. SumFunction(old) = SumOver(old, C) /\ SumFunction(new) = SumOver(new, C)
      /\ SumFunction(days) = SumOver(days, M)
  BY <1>0, <1>3, FunctionSum
<1>10. SumOver(old, C) \in Nat /\ SumOver(new, C) \in Nat /\ SumOver(days, M) \in Nat
  BY <1>0, <1>3, TotalType
<1>11. shown.after - shown.before <= SumFunction(days)
  BY <1>2, <1>6, <1>7, <1>8, <1>9, <1>10
<1>12. days = [k \in shown.moved |-> Expected(found)[k] - Expected(before)[k]]
  BY <1>2 DEF days
<1> QED BY <1>11, <1>12 DEF shown, before

-----------------------------------------------------------------------------
(* The least by a key.                                                      *)

(* A set of numbers up to n has a greatest one. *)
LEMMA GreatestNumber ==
  ASSUME NEW n \in Nat, NEW N \in SUBSET (0..n), N # {}
  PROVE  \E g \in N : \A m \in N : m <= g
<1> DEFINE M == {n - m : m \in N}
<1>1. M \in SUBSET Nat /\ M # {}
  <2>1. \A m \in N : n - m \in Nat
    OBVIOUS
  <2> QED BY <2>1
<1>2. PICK h \in M : \A m \in M : h <= m
  <2> HIDE DEF M
  <2> QED BY <1>1, LeastNumber
<1>3. PICK g \in N : h = n - g
  BY <1>2
<1>4. ASSUME NEW m \in N PROVE m <= g
  <2>1. n - m \in M
    OBVIOUS
  <2>2. n - g <= n - m
    BY <1>2, <1>3, <2>1
  <2> QED BY <2>2
<1> QED BY <1>4

(* The least of the values of a function. *)
LEMMA LeastValue ==
  ASSUME NEW S, S # {}, NEW f \in [S -> Nat]
  PROVE  \E x \in S : \A y \in S : f[x] <= f[y]
<1> DEFINE N == {f[x] : x \in S}
<1>1. N \in SUBSET Nat /\ N # {}
  OBVIOUS
<1>2. PICK n \in N : \A m \in N : n <= m
  BY <1>1, LeastNumber
<1>3. PICK x \in S : n = f[x]
  BY <1>2
<1> QED BY <1>2, <1>3

(* Members with keys of their own: one comes before all the others. *)
Keys(S, n, K) == K \in [S -> [1..n -> Nat]] /\ \A x, y \in S : K[x] = K[y] => x = y
First(S, K, x) == x \in S /\ \A y \in S \ {x} : Lex(K[x], K[y])

LEMMA FirstExists ==
  ASSUME NEW S, S # {}, NEW n \in Nat, NEW K, Keys(S, n, K)
  PROVE  \E x \in S : First(S, K, x)
<1> DEFINE Ahead(m, T) == /\ T # {}
                          /\ \A x, y \in T : \A j \in 1..m : K[x][j] = K[y][j]
                          /\ \A x \in T, y \in S \ T : Lex(K[x], K[y])
           M == {m \in 0..n : \E T \in SUBSET S : Ahead(m, T)}
<1>1. 0 \in M
  <2>1. Ahead(0, S)
    OBVIOUS
  <2> QED BY <2>1
<1>2. PICK m \in M : \A k \in M : k <= m
  <2>1. M \in SUBSET (0..n)
    OBVIOUS
  <2> HIDE DEF M
  <2> QED BY <1>1, <2>1, GreatestNumber
<1>3. PICK T \in SUBSET S : Ahead(m, T)
  BY <1>2
<1>4. CASE m = n
  <2>1. PICK x \in T : TRUE
    BY <1>3
  <2>2. ASSUME NEW y \in T PROVE y = x
    <3>1. K[x] \in [1..n -> Nat] /\ K[y] \in [1..n -> Nat]
      BY <2>1, <2>2 DEF Keys
    <3>2. \A j \in 1..n : K[x][j] = K[y][j]
      BY <1>3, <1>4, <2>1, <2>2
    <3>3. K[x] = K[y]
      BY <3>1, <3>2
    <3> QED BY <3>3, <2>1, <2>2 DEF Keys
  <2>3. \A y \in S \ {x} : Lex(K[x], K[y])
    BY <1>3, <2>1, <2>2
  <2> QED BY <2>1, <2>3 DEF First
<1>5. CASE m # n
  <2>1. m \in 0..n /\ m + 1 \in 0..n /\ m + 1 \in 1..n
    BY <1>5
  <2> DEFINE f == [x \in T |-> K[x][m + 1]]
             U == {x \in T : \A y \in T : f[x] <= f[y]}
  <2>2. f \in [T -> Nat]
    BY <2>1 DEF Keys
  <2>3. U # {}
    <3> HIDE DEF f
    <3>1. \E x \in T : \A y \in T : f[x] <= f[y]
      BY <1>3, <2>2, LeastValue
    <3> QED BY <3>1
  <2>4. \A x, y \in U : f[x] = f[y]
    <3> HIDE DEF f
    <3>1. \A x, y \in U : f[x] <= f[y] /\ f[y] <= f[x] /\ f[x] \in Nat /\ f[y] \in Nat
      BY <2>2
    <3> QED BY <3>1
  <2>5. ASSUME NEW x \in U, NEW y \in U, NEW j \in 1..(m + 1) PROVE K[x][j] = K[y][j]
    <3>1. CASE j = m + 1
      BY <2>4, <3>1
    <3>2. CASE j # m + 1
      <4>1. j \in 1..m
        BY <2>1, <3>2
      <4> QED BY <1>3, <4>1
    <3> QED BY <3>1, <3>2
  <2>6. ASSUME NEW x \in U, NEW y \in T \ U PROVE Lex(K[x], K[y])
    <3>1. PICK z \in T : ~(f[y] <= f[z])
      BY <2>6
    <3>2. f[x] < f[y]
      <4> HIDE DEF f
      <4>1. f[x] <= f[z] /\ f[x] \in Nat /\ f[y] \in Nat /\ f[z] \in Nat
        BY <2>2
      <4> QED BY <3>1, <4>1
    <3>3. K[x][m + 1] < K[y][m + 1]
      BY <3>2
    <3>4. \A j \in 1..m : K[x][j] = K[y][j]
      BY <1>3
    <3>5. m + 1 \in DOMAIN K[x] /\ (m + 1) - 1 = m
      <4>1. K[x] \in [1..n -> Nat]
        BY DEF Keys
      <4> QED BY <2>1, <4>1
    <3> QED BY <3>3, <3>4, <3>5 DEF Lex
  <2>7. \A x \in U, y \in S \ U : Lex(K[x], K[y])
    BY <1>3, <2>6
  <2>8. U \in SUBSET S
    OBVIOUS
  <2> HIDE DEF U
  <2>9. Ahead(m + 1, U)
    BY <2>3, <2>5, <2>7
  <2>10. m + 1 \in M
    BY <2>1, <2>8, <2>9
  <2> QED BY <1>2, <2>1, <2>10
<1> QED BY <1>4, <1>5

(* Of two keys one comes first at most. *)
LEMMA LexOneWay ==
  ASSUME NEW n \in Nat, NEW s \in [1..n -> Nat], NEW t \in [1..n -> Nat], Lex(s, t)
  PROVE  ~Lex(t, s)
<1>1. PICK i \in 1..n : s[i] < t[i] /\ \A j \in 1..(i - 1) : s[j] = t[j]
  BY DEF Lex
<1>2. ASSUME NEW k \in 1..n, t[k] < s[k], \A j \in 1..(k - 1) : t[j] = s[j] PROVE FALSE
  <2>1. s[i] \in Nat /\ t[i] \in Nat /\ s[k] \in Nat /\ t[k] \in Nat
    OBVIOUS
  <2>2. CASE k = i
    BY <1>1, <1>2, <2>1, <2>2
  <2>3. CASE k < i
    <3>1. k \in 1..(i - 1)
      BY <2>3
    <3> QED BY <1>1, <1>2, <2>1, <3>1
  <2>4. CASE i < k
    <3>1. i \in 1..(k - 1)
      BY <2>4
    <3> QED BY <1>1, <1>2, <2>1, <3>1
  <2> QED BY <2>2, <2>3, <2>4
<1> QED BY <1>2 DEF Lex

LEMMA FirstIsOne ==
  ASSUME NEW S, NEW n \in Nat, NEW K, Keys(S, n, K), NEW x, NEW y, First(S, K, x), First(S, K, y)
  PROVE  x = y
<1> SUFFICES ASSUME x # y PROVE FALSE
  OBVIOUS
<1>1. x \in S /\ y \in S /\ Lex(K[x], K[y]) /\ Lex(K[y], K[x])
  BY DEF First
<1> QED BY <1>1, LexOneWay DEF Keys

(* Keys, number by number. *)
LEMMA LexTwo ==
  ASSUME NEW s \in [1..2 -> Nat], NEW t \in [1..2 -> Nat], Lex(s, t)
  PROVE  s[1] < t[1] \/ (s[1] = t[1] /\ s[2] < t[2])
<1>1. PICK i \in 1..2 : s[i] < t[i] /\ \A j \in 1..(i - 1) : s[j] = t[j]
  BY DEF Lex
<1>2. CASE i = 1
  BY <1>1, <1>2
<1>3. CASE i = 2
  <2>1. 1 \in 1..(i - 1)
    BY <1>3
  <2> QED BY <1>1, <1>3, <2>1
<1> QED BY <1>1, <1>2, <1>3

LEMMA LexThree ==
  ASSUME NEW s \in [1..3 -> Nat], NEW t \in [1..3 -> Nat], Lex(s, t)
  PROVE  s[1] < t[1] \/ (s[1] = t[1] /\ (s[2] < t[2] \/ (s[2] = t[2] /\ s[3] < t[3])))
<1>1. PICK i \in 1..3 : s[i] < t[i] /\ \A j \in 1..(i - 1) : s[j] = t[j]
  BY DEF Lex
<1>2. CASE i = 1
  BY <1>1, <1>2
<1>3. CASE i = 2
  <2>1. 1 \in 1..(i - 1)
    BY <1>3
  <2> QED BY <1>1, <1>3, <2>1
<1>4. CASE i = 3
  <2>1. 1 \in 1..(i - 1) /\ 2 \in 1..(i - 1)
    BY <1>4
  <2> QED BY <1>1, <1>4, <2>1
<1> QED BY <1>1, <1>2, <1>3, <1>4

LEMMA LexFour ==
  ASSUME NEW s \in [1..4 -> Nat], NEW t \in [1..4 -> Nat], Lex(s, t)
  PROVE  s[1] < t[1] \/ (s[1] = t[1] /\ (s[2] < t[2] \/ (s[2] = t[2] /\ (s[3] < t[3] \/ (s[3] = t[3] /\ s[4] < t[4])))))
<1>1. PICK i \in 1..4 : s[i] < t[i] /\ \A j \in 1..(i - 1) : s[j] = t[j]
  BY DEF Lex
<1>2. CASE i = 1
  BY <1>1, <1>2
<1>3. CASE i = 2
  <2>1. 1 \in 1..(i - 1)
    BY <1>3
  <2> QED BY <1>1, <1>3, <2>1
<1>4. CASE i = 3
  <2>1. 1 \in 1..(i - 1) /\ 2 \in 1..(i - 1)
    BY <1>4
  <2> QED BY <1>1, <1>4, <2>1
<1>5. CASE i = 4
  <2>1. 1 \in 1..(i - 1) /\ 2 \in 1..(i - 1) /\ 3 \in 1..(i - 1)
    BY <1>5
  <2> QED BY <1>1, <1>5, <2>1
<1> QED BY <1>1, <1>2, <1>3, <1>4, <1>5

-----------------------------------------------------------------------------
(* The candidates and how the shards share them.                            *)

(* The numbers of a finite set can be put in rising order. *)
LEMMA RisingIs ==
  ASSUME NEW S, IsFiniteSet(S), S \subseteq Nat
  PROVE  /\ Cardinality(S) \in Nat /\ Rising(S) \in [1..Cardinality(S) -> S]
         /\ \A i, j \in 1..Cardinality(S) : i < j => Rising(S)[i] < Rising(S)[j]
         /\ \A x \in S : \E i \in 1..Cardinality(S) : Rising(S)[i] = x
<1> DEFINE n == Cardinality(S)
           below == [x \in S |-> {y \in S : y < x}]
           rank == [x \in S |-> Cardinality(below[x])]
<1>1. n \in Nat /\ \A x \in S : x \in Nat
  BY FS_CardinalityType
<1>2. ASSUME NEW x \in S
      PROVE  rank[x] \in 0..(n - 1) /\ IsFiniteSet(below[x])
  <2>1. below[x] \in SUBSET S /\ x \notin below[x]
    OBVIOUS
  <2>2. IsFiniteSet(below[x]) /\ Cardinality(below[x]) <= n /\ Cardinality(below[x]) # n
    BY <2>1, FS_Subset
  <2> QED BY <1>1, <2>2, FS_CardinalityType
<1>3. ASSUME NEW x \in S, NEW y \in S, x < y
      PROVE  rank[x] < rank[y]
  <2>0. \A z \in S : z < x => z < y
    BY <1>1, <1>3
  <2>1. below[x] \in SUBSET below[y] /\ x \in below[y] /\ x \notin below[x]
    <3>1. ~(x < x)
      BY <1>1
    <3> QED BY <1>3, <2>0, <3>1
  <2>2. Cardinality(below[x]) <= Cardinality(below[y]) /\ Cardinality(below[x]) # Cardinality(below[y])
    BY <1>2, <2>1, FS_Subset
  <2> QED BY <1>2, <2>2
<1>4. rank \in Injection(S, 0..(n - 1))
  <2>1. rank \in [S -> 0..(n - 1)]
    BY <1>2
  <2>2. ASSUME NEW x \in S, NEW y \in S, x # y PROVE rank[x] # rank[y]
    <3>1. x < y \/ y < x
      BY <1>1, <2>2
    <3>2. rank[x] < rank[y] \/ rank[y] < rank[x]
      BY <1>3, <3>1
    <3>3. rank[x] \in Int /\ rank[y] \in Int
      BY <1>1, <1>2
    <3> HIDE DEF rank
    <3> QED BY <3>2, <3>3
  <2> QED BY <2>1, <2>2 DEF Injection, IsInjective
<1>5. rank \in Surjection(S, 0..(n - 1))
  <2>1. IsFiniteSet(0..(n - 1)) /\ Cardinality(0..(n - 1)) = n
    <3>1. n - 1 \in Int /\ 0 \in Int
      BY <1>1
    <3> HIDE DEF n
    <3>2. IsFiniteSet(0..(n - 1)) /\ Cardinality(0..(n - 1)) = IF 0 > n - 1 THEN 0 ELSE (n - 1) - 0 + 1
      BY <3>1, FS_Interval
    <3> QED BY <1>1, <3>2
  <2> QED BY <1>4, <2>1, FS_Injection
<1> HIDE DEF rank
<1> DEFINE s == [i \in 1..n |-> CHOOSE x \in S : rank[x] = i - 1]
<1>6. ASSUME NEW i \in 1..n
      PROVE  s[i] \in S /\ rank[s[i]] = i - 1
  <2>1. i - 1 \in 0..(n - 1)
    BY <1>1
  <2>2. \E x \in S : rank[x] = i - 1
    BY <1>5, <2>1 DEF Surjection
  <2> QED BY <2>2
<1>7. s \in [1..n -> S]
  BY <1>6
<1> HIDE DEF s
<1>8. ASSUME NEW i \in 1..n, NEW j \in 1..n, i < j
      PROVE  s[i] < s[j]
  <2>1. rank[s[i]] = i - 1 /\ rank[s[j]] = j - 1 /\ s[i] \in S /\ s[j] \in S
    BY <1>6
  <2>2. s[j] < s[i] => rank[s[j]] < rank[s[i]]
    BY <1>3, <2>1
  <2>3. i - 1 < j - 1 /\ i - 1 \in Int /\ j - 1 \in Int
    BY <1>1, <1>8
  <2>4. s[i] # s[j] /\ ~(s[j] < s[i])
    BY <2>1, <2>2, <2>3
  <2>5. s[i] \in Nat /\ s[j] \in Nat
    BY <1>1, <2>1
  <2> QED BY <2>4, <2>5
<1>9. s \in SetToSeqs(S) /\ \A i, j \in DOMAIN s : i < j => s[i] < s[j]
  <2>1. ASSUME NEW i \in 1..n, NEW j \in 1..n, i # j PROVE s[i] # s[j]
    <3>0. s[i] \in S /\ s[j] \in S
      BY <1>6
    <3>0a. s[i] \in Nat /\ s[j] \in Nat
      BY <1>1, <3>0
    <3>0b. i \in Int /\ j \in Int
      BY <1>1
    <3>1. i < j \/ j < i
      BY <2>1, <3>0b
    <3>2. s[i] < s[j] \/ s[j] < s[i]
      BY <1>8, <3>1
    <3> QED BY <3>0a, <3>2
  <2> QED BY <1>7, <1>8, <2>1 DEF SetToSeqs
<1>10. Rising(S) \in SetToSeqs(S) /\ \A i, j \in DOMAIN Rising(S) : i < j => Rising(S)[i] < Rising(S)[j]
  <2> DEFINE Fits(t) == t \in SetToSeqs(S) /\ \A i, j \in DOMAIN t : i < j => t[i] < t[j]
  <2>1. Fits(s)
    BY <1>9
  <2>2. Rising(S) = CHOOSE t : Fits(t)
    BY DEF Rising
  <2> HIDE DEF Fits
  <2>3. Fits(Rising(S))
    BY <2>1, <2>2
  <2> QED BY <2>3 DEF Fits
<1>11. Rising(S) \in [1..n -> S] /\ \A i, j \in 1..n : i # j => Rising(S)[i] # Rising(S)[j]
  BY <1>10 DEF SetToSeqs
<1>12. Rising(S) \in Surjection(1..n, S)
  <2>1. Rising(S) \in Injection(1..n, S)
    BY <1>11 DEF Injection, IsInjective
  <2>2. Cardinality(1..n) = n /\ IsFiniteSet(1..n)
    BY <1>1, FS_Interval
  <2> QED BY <2>1, <2>2, FS_Injection
<1> QED BY <1>1, <1>10, <1>11, <1>12 DEF Surjection

(* The settings a contest can be about. *)
Setting == (0..100) \X BOOLEAN

(* The setting in force comes first, then the others in rising order, once. *)
Others == Cardinality(Candidates \ {current[1]}) + 1
LEMMA ContendersAre ==
  ASSUME current \in Setting
  PROVE  /\ Others \in Nat \ {0}
         /\ SweepContenders \in [1..Others -> 0..100] /\ Len(SweepContenders) = Others
         /\ SweepContenders[1] = current[1]
         /\ \A i \in 2..Others : SweepContenders[i] # current[1]
         /\ \A i, j \in 2..Others : i < j => SweepContenders[i] < SweepContenders[j]
         /\ \A i, j \in 1..Others : i # j => SweepContenders[i] # SweepContenders[j]
         /\ \A i \in 1..Others : SweepContenders[i] \in Candidates \cup {current[1]}
         /\ \A x \in Candidates \cup {current[1]} : \E i \in 1..Others : SweepContenders[i] = x
<1> DEFINE S == Candidates \ {current[1]}
           n == Cardinality(S)
           r == Rising(S)
<1>1. IsFiniteSet(S) /\ S \subseteq Nat /\ S \subseteq 0..100 /\ current[1] \in 0..100
  <2>1. S \subseteq Candidates /\ IsFiniteSet(Candidates) /\ Candidates \subseteq 0..100
    BY ContestAssumption
  <2>2. IsFiniteSet(S)
    BY <2>1, FS_Subset
  <2>3. current[1] \in 0..100
    BY DEF Setting
  <2>4. \A x \in 0..100 : x \in Nat
    OBVIOUS
  <2> QED BY <2>1, <2>2, <2>3, <2>4
<1>2. /\ n \in Nat /\ r \in [1..n -> S]
      /\ \A i, j \in 1..n : i < j => r[i] < r[j]
      /\ \A x \in S : \E i \in 1..n : r[i] = x
  <2> HIDE DEF S
  <2> QED BY <1>1, RisingIs
<1>3. current[1] \notin S /\ S \cup {current[1]} = Candidates \cup {current[1]}
  OBVIOUS
<1>4. Others = n + 1 /\ SweepContenders = <<current[1]>> \o r
  BY DEF Others, SweepContenders
<1> HIDE DEF S, n, r
<1>5. r \in Seq(0..100) /\ Len(r) = n
  <2>1. r \in [1..n -> 0..100]
    BY <1>1, <1>2
  <2> QED BY <1>2, <2>1
<1>6. <<current[1]>> \in Seq(0..100) /\ Len(<<current[1]>>) = 1
  BY <1>1
<1>7. /\ SweepContenders \in [1..Others -> 0..100] /\ Len(SweepContenders) = Others
      /\ SweepContenders[1] = current[1]
      /\ \A i \in 2..Others : i - 1 \in 1..n /\ SweepContenders[i] = r[i - 1]
  <2>1. DOMAIN SweepContenders = 1..(n + 1) /\ Len(SweepContenders) = n + 1
    BY <1>2, <1>4, <1>5, <1>6
  <2>2. SweepContenders[1] = current[1]
    BY <1>2, <1>4, <1>5, <1>6
  <2>3. ASSUME NEW i \in 2..(n + 1) PROVE i - 1 \in 1..n /\ SweepContenders[i] = r[i - 1]
    BY <1>2, <1>4, <1>5, <1>6
  <2>4. SweepContenders \in [1..Others -> 0..100] /\ Len(SweepContenders) = Others
    <3>1. \A i \in 1..(n + 1) : i = 1 \/ i \in 2..(n + 1)
      BY <1>2
    <3>2. \A i \in 2..(n + 1) : SweepContenders[i] \in 0..100
      BY <1>1, <1>2, <2>3
    <3>3. \A i \in 1..(n + 1) : SweepContenders[i] \in 0..100
      BY <1>1, <2>2, <3>1, <3>2
    <3>4. SweepContenders = [i \in 1..(n + 1) |-> SweepContenders[i]]
      BY <1>4, <2>1
    <3> QED BY <1>4, <2>1, <3>3, <3>4
  <2> QED BY <1>4, <2>2, <2>3, <2>4
<1>8. ASSUME NEW i \in 2..Others, NEW j \in 2..Others, i < j
      PROVE  SweepContenders[i] < SweepContenders[j]
  <2>1. i - 1 < j - 1
    BY <1>8
  <2> QED BY <1>2, <1>7, <2>1
<1>9. \A i \in 2..Others : SweepContenders[i] \in S
  BY <1>2, <1>7
<1>10. ASSUME NEW i \in 1..Others, NEW j \in 1..Others, i # j
       PROVE  SweepContenders[i] # SweepContenders[j]
  <2>1. Others \in Nat
    BY <1>2, <1>4
  <2>2. (i = 1 \/ i \in 2..Others) /\ (j = 1 \/ j \in 2..Others) /\ (i < j \/ j < i)
    BY <1>10, <2>1
  <2>3. SweepContenders[i] \in 0..100 /\ SweepContenders[j] \in 0..100
    BY <1>7
  <2>4. i = 1 => j \in 2..Others
    BY <1>10, <2>2
  <2>5. j = 1 => i \in 2..Others
    BY <1>10, <2>2
  <2>6. CASE i = 1 \/ j = 1
    BY <1>3, <1>7, <1>9, <2>4, <2>5, <2>6
  <2>7. CASE i \in 2..Others /\ j \in 2..Others
    <3>1. SweepContenders[i] < SweepContenders[j] \/ SweepContenders[j] < SweepContenders[i]
      BY <1>8, <2>2, <2>7
    <3> QED BY <2>3, <3>1
  <2> QED BY <2>2, <2>6, <2>7
<1>11. ASSUME NEW x \in S PROVE \E i \in 1..Others : SweepContenders[i] = x
  <2>1. PICK i \in 1..n : r[i] = x
    BY <1>2
  <2>2. i + 1 \in 2..Others /\ i + 1 \in 1..Others /\ (i + 1) - 1 = i
    BY <1>2, <1>4
  <2> QED BY <1>7, <2>1, <2>2
<1>12. Others \in Nat \ {0} /\ 1 \in 1..Others /\ \A i \in 1..Others : i = 1 \/ i \in 2..Others
  BY <1>2, <1>4
<1> QED BY <1>3, <1>7, <1>8, <1>9, <1>10, <1>11, <1>12

(* Every overlap with every machine set, once. *)
LEMMA JobsAre ==
  ASSUME current \in Setting
  PROVE  /\ Len(ContestJobs) = 2 * Others /\ ContestJobs \in [1..(2 * Others) -> Jobs]
         /\ \A p, q \in 1..(2 * Others) : ContestJobs[p] = ContestJobs[q] => p = q
         /\ \A j \in Jobs : \E p \in 1..(2 * Others) : ContestJobs[p] = j
<1> DEFINE n == Others
           off == [i \in 1..n |-> <<SweepContenders[i], FALSE>>]
           on == [i \in 1..n |-> <<SweepContenders[i], TRUE>>]
<1>1. n \in Nat /\ DOMAIN SweepContenders = 1..n
  BY ContendersAre
<1>2. ContestJobs = off \o on
  BY <1>1 DEF ContestJobs
<1>3. off \in [1..n -> Jobs] /\ on \in [1..n -> Jobs]
  BY ContendersAre DEF Jobs
<1> HIDE DEF n
<1>3a. /\ \A i \in 1..n : off[i] = <<SweepContenders[i], FALSE>>
       /\ \A i \in 1..n : on[i] = <<SweepContenders[i], TRUE>>
  OBVIOUS
<1> HIDE DEF off, on
<1>4. off \in Seq(Jobs) /\ on \in Seq(Jobs) /\ Len(off) = n /\ Len(on) = n
  BY <1>1, <1>3
<1>5. /\ Len(ContestJobs) = 2 * n /\ ContestJobs \in [1..(2 * n) -> Jobs]
      /\ \A p \in 1..n : ContestJobs[p] = off[p]
      /\ \A p \in (n + 1)..(2 * n) : p - n \in 1..n /\ ContestJobs[p] = on[p - n]
  <2>1. off \o on \in Seq(Jobs) /\ Len(off \o on) = n + n
    BY <1>4
  <2>2. \A p \in 1..n : (off \o on)[p] = off[p]
    BY <1>1, <1>4
  <2>3. \A p \in (n + 1)..(n + n) : p - n \in 1..n /\ (off \o on)[p] = on[p - n]
    BY <1>1, <1>4
  <2>4. n + n = 2 * n
    BY <1>1
  <2>5. ContestJobs \in Seq(Jobs) /\ Len(ContestJobs) = 2 * n
    BY <1>2, <2>1, <2>4
  <2>6. ContestJobs \in [1..(2 * n) -> Jobs]
    BY <1>1, <2>5
  <2>7. \A p \in (n + 1)..(2 * n) : p - n \in 1..n /\ ContestJobs[p] = on[p - n]
    BY <1>2, <2>3, <2>4
  <2> QED BY <1>2, <2>2, <2>5, <2>6, <2>7
<1>5a. /\ \A p \in 1..n : ContestJobs[p] = <<SweepContenders[p], FALSE>>
       /\ \A p \in (n + 1)..(2 * n) : p - n \in 1..n /\ ContestJobs[p] = <<SweepContenders[p - n], TRUE>>
  BY <1>3a, <1>5
<1>6. ASSUME NEW p \in 1..(2 * n), NEW q \in 1..(2 * n), ContestJobs[p] = ContestJobs[q] PROVE p = q
  <2>0. \A i, j \in 1..n : SweepContenders[i] = SweepContenders[j] => i = j
    BY ContendersAre DEF n
  <2>1. /\ p \in 1..n \/ p \in (n + 1)..(2 * n)
        /\ q \in 1..n \/ q \in (n + 1)..(2 * n)
    BY <1>1
  <2>2. CASE p \in 1..n /\ q \in 1..n
    <3>1. <<SweepContenders[p], FALSE>> = <<SweepContenders[q], FALSE>>
      BY <1>5a, <1>6, <2>2
    <3> QED BY <2>0, <2>2, <3>1
  <2>3. CASE p \in (n + 1)..(2 * n) /\ q \in (n + 1)..(2 * n)
    <3>1. /\ p - n \in 1..n /\ q - n \in 1..n
          /\ <<SweepContenders[p - n], TRUE>> = <<SweepContenders[q - n], TRUE>>
      BY <1>5a, <1>6, <2>3
    <3>2. p - n = q - n
      BY <2>0, <3>1
    <3> QED BY <1>1, <3>2
  <2>4. CASE p \in 1..n /\ q \in (n + 1)..(2 * n)
    <3>1. <<SweepContenders[p], FALSE>> = <<SweepContenders[q - n], TRUE>>
      BY <1>5a, <1>6, <2>4
    <3> QED BY <3>1
  <2>5. CASE q \in 1..n /\ p \in (n + 1)..(2 * n)
    <3>1. <<SweepContenders[p - n], TRUE>> = <<SweepContenders[q], FALSE>>
      BY <1>5a, <1>6, <2>5
    <3> QED BY <3>1
  <2> QED BY <2>1, <2>2, <2>3, <2>4, <2>5
<1>7. ASSUME NEW j \in Jobs PROVE \E p \in 1..(2 * n) : ContestJobs[p] = j
  <2>1. PICK x \in Candidates \cup {current[1]}, f \in BOOLEAN : j = <<x, f>>
    BY DEF Jobs
  <2>2. PICK i \in 1..n : SweepContenders[i] = x
    BY ContendersAre DEF n
  <2>3. CASE f = FALSE
    <3>1. i \in 1..(2 * n)
      BY <1>1
    <3> QED BY <1>5a, <2>1, <2>2, <2>3, <3>1
  <2>4. CASE f = TRUE
    <3>1. i + n \in 1..(2 * n) /\ i + n \in (n + 1)..(2 * n) /\ (i + n) - n = i
      BY <1>1
    <3> QED BY <1>5a, <2>1, <2>2, <2>4, <3>1
  <2> QED BY <2>3, <2>4
<1> QED BY <1>5, <1>6, <1>7 DEF n

(* The quotient is the largest number whose multiple fits. *)
LEMMA Quotient ==
  ASSUME NEW x \in Nat, NEW y \in Nat \ {0}, NEW m \in Nat
  PROVE  /\ x \div y \in Nat /\ m <= x \div y <=> m * y <= x
         /\ x = y * (x \div y) + (x % y) /\ x % y \in 0..(y - 1)
<1>1. x \div y \in Nat /\ x = y * (x \div y) + (x % y) /\ x % y \in 0..(y - 1)
  OBVIOUS
<1> DEFINE q == x \div y
           r == x % y
<1>2. ASSUME NEW k \in Nat, NEW l \in Nat, k <= l PROVE k * y <= l * y
  BY <1>2
<1> HIDE DEF q, r
<1>3. m <= q => m * y <= x
  <2>1. m <= q => m * y <= q * y
    BY <1>1, <1>2 DEF q
  <2>2. m * y \in Nat /\ q * y \in Nat /\ q * y = y * q
    BY <1>1 DEF q
  <2> QED BY <1>1, <2>1, <2>2 DEF q, r
<1>4. ~(m <= q) => ~(m * y <= x)
  <2>1. ~(m <= q) => (q + 1) * y <= m * y
    BY <1>1, <1>2 DEF q
  <2>2. m * y \in Nat /\ (q + 1) * y = y * q + y /\ y * q \in Nat
    BY <1>1 DEF q
  <2> QED BY <1>1, <2>1, <2>2 DEF q, r
<1> QED BY <1>1, <1>3, <1>4 DEF q

(* Where the i-th candidate of shard k is among all. *)
Place(k, i) == k + (i - 1) * Shards

LEMMA SliceIs ==
  ASSUME current \in Setting, NEW k \in 1..Shards
  PROVE  /\ Slice(k) \in Seq(Jobs)
         /\ \A i \in Nat \ {0} : i \in 1..Len(Slice(k)) <=> Place(k, i) <= 2 * Others
         /\ \A i \in 1..Len(Slice(k)) : Place(k, i) \in 1..(2 * Others) /\ Slice(k)[i] = ContestJobs[Place(k, i)]
<1> DEFINE n == 2 * Others
           x == n - k + Shards
           q == x \div Shards
<1>1. n \in Nat /\ Len(ContestJobs) = n /\ ContestJobs \in [1..n -> Jobs]
  BY ContendersAre, JobsAre
<1>2. Shards \in Nat \ {0} /\ x \in Nat
  BY <1>1, ContestAssumption
<1>3. q \in Nat
  BY <1>2, Quotient
<1>4. ASSUME NEW i \in Nat \ {0} PROVE i \in 1..q <=> Place(k, i) <= n
  <2>1. i <= q <=> i * Shards <= x
    <3> HIDE DEF x
    <3>1. i \in Nat
      OBVIOUS
    <3> QED BY <1>2, <3>1, Quotient
  <2>2. (i - 1) * Shards = i * Shards - Shards /\ i * Shards \in Nat
    BY <1>2
  <2>3. i * Shards <= x <=> k + (i - 1) * Shards <= n
    BY <1>1, <1>2, <2>2
  <2> HIDE DEF x, q, n
  <2> QED BY <1>3, <2>1, <2>3 DEF Place
<1>5. Slice(k) = [i \in 1..q |-> ContestJobs[Place(k, i)]]
  BY <1>1 DEF Slice, Place
<1> HIDE DEF x, q
<1>6. ASSUME NEW i \in 1..q PROVE Place(k, i) \in 1..n
  <2>1. i \in Nat \ {0} /\ (i - 1) * Shards \in Nat
    BY <1>2, <1>3
  <2>2. Place(k, i) <= n
    BY <1>4, <2>1
  <2> QED BY <1>1, <1>2, <2>1, <2>2 DEF Place
<1> HIDE DEF n
<1>7. Slice(k) \in [1..q -> Jobs]
  BY <1>1, <1>5, <1>6
<1>8. Slice(k) \in Seq(Jobs) /\ Len(Slice(k)) = q
  BY <1>3, <1>7
<1> QED BY <1>4, <1>5, <1>6, <1>8 DEF n

(* The shards share the candidates out: none twice, none left. *)
LEMMA SlicesShare ==
  ASSUME current \in Setting
  PROVE  /\ \A k, l \in 1..Shards : \A i \in 1..Len(Slice(k)) : \A j \in 1..Len(Slice(l)) :
              Slice(k)[i] = Slice(l)[j] => k = l /\ i = j
         /\ \A x \in Jobs : \E k \in 1..Shards : \E i \in 1..Len(Slice(k)) : Slice(k)[i] = x
<1>1. Others \in Nat /\ 2 * Others \in Nat
  BY ContendersAre
<1>2. ASSUME NEW k \in 1..Shards, NEW l \in 1..Shards, NEW i \in 1..Len(Slice(k)), NEW j \in 1..Len(Slice(l)),
             Slice(k)[i] = Slice(l)[j]
      PROVE  k = l /\ i = j
  <2>1. Place(k, i) = Place(l, j)
    <3>1. /\ Place(k, i) \in 1..(2 * Others) /\ Slice(k)[i] = ContestJobs[Place(k, i)]
          /\ Place(l, j) \in 1..(2 * Others) /\ Slice(l)[j] = ContestJobs[Place(l, j)]
      BY SliceIs
    <3> QED BY <1>2, <3>1, JobsAre
  <2>2. i - 1 \in Nat /\ j - 1 \in Nat
    BY SliceIs
  <2>3. (k - 1) + (i - 1) * Shards = (l - 1) + (j - 1) * Shards
    <3>1. (i - 1) * Shards \in Nat /\ (j - 1) * Shards \in Nat
      BY <2>2, ContestAssumption
    <3> QED BY <2>1, <3>1 DEF Place
  <2>4. k - 1 \in Nat /\ l - 1 \in Nat /\ k - 1 < Shards /\ l - 1 < Shards /\ Shards \in Nat \ {0}
    BY ContestAssumption
  <2>5. ASSUME NEW u \in Nat, NEW v \in Nat, NEW x \in Nat, NEW y \in Nat, NEW z \in Nat \ {0},
               u < z, v < z, u + x * z = v + y * z
        PROVE  x = y
    BY <2>5
  <2>6. i - 1 = j - 1
    BY <2>2, <2>3, <2>4, <2>5
  <2>7. i = j /\ k = l
    <3>1. (i - 1) * Shards \in Nat
      BY <2>2, <2>4
    <3> QED BY <2>2, <2>3, <2>4, <2>6, <3>1
  <2> QED BY <2>7
<1>3. ASSUME NEW x \in Jobs PROVE \E k \in 1..Shards : \E i \in 1..Len(Slice(k)) : Slice(k)[i] = x
  <2>1. PICK p \in 1..(2 * Others) : ContestJobs[p] = x
    BY JobsAre
  <2> DEFINE q == (p - 1) \div Shards
             r == (p - 1) % Shards
  <2>2. q \in Nat /\ p - 1 = Shards * q + r /\ r \in 0..(Shards - 1)
    <3> DEFINE o == p - 1
    <3>1. o \in Nat /\ Shards \in Nat \ {0}
      BY <1>1, ContestAssumption
    <3> HIDE DEF o
    <3>2. o \div Shards \in Nat /\ o = Shards * (o \div Shards) + (o % Shards) /\ o % Shards \in 0..(Shards - 1)
      BY <3>1
    <3> QED BY <3>2 DEF o
  <2> HIDE DEF q, r
  <2>3. r + 1 \in 1..Shards /\ q + 1 \in Nat \ {0} /\ Place(r + 1, q + 1) = p
    <3>1. (q + 1) - 1 = q /\ q * Shards = Shards * q /\ Shards * q \in Nat
      BY <2>2, ContestAssumption
    <3>2. r + 1 \in 1..Shards
      BY <2>2, ContestAssumption
    <3>3. (r + 1) + q * Shards = p
      BY <1>1, <2>2, <3>1
    <3> QED BY <2>2, <3>1, <3>2, <3>3 DEF Place
  <2>4. q + 1 \in 1..Len(Slice(r + 1))
    BY <1>1, <2>3, SliceIs
  <2>5. Slice(r + 1)[q + 1] = x
    BY <2>1, <2>3, <2>4, SliceIs
  <2> QED BY <2>3, <2>4, <2>5
<1> QED BY <1>2, <1>3

-----------------------------------------------------------------------------
(* Rows that are joined, and the winner of some rows.                       *)

(* F has what the first m of the sequences have, and nothing twice if they   *)
(* have nothing twice.                                                      *)
Apart(seqs, m) ==
    \A i, k \in 1..m : \A j \in 1..Len(seqs[i]) : \A l \in 1..Len(seqs[k]) :
        seqs[i][j][1] = seqs[k][l][1] => i = k /\ j = l
Joined(F, seqs, m) ==
    /\ \A p \in 1..Len(F) : \E i \in 1..m : \E j \in 1..Len(seqs[i]) : F[p] = seqs[i][j]
    /\ \A i \in 1..m : \A j \in 1..Len(seqs[i]) : \E p \in 1..Len(F) : F[p] = seqs[i][j]
    /\ Apart(seqs, m) => \A p, q \in 1..Len(F) : F[p][1] = F[q][1] => p = q

LEMMA JoinOne ==
  ASSUME NEW R, NEW n \in Nat, NEW seqs \in [1..n -> Seq(R)], 1 <= n
  PROVE  Joined(seqs[1], seqs, 1)
  BY DEF Joined, Apart

LEMMA JoinNext ==
  ASSUME NEW R, NEW n \in Nat, NEW seqs \in [1..n -> Seq(R)], NEW m \in 1..n, m + 1 <= n,
         NEW F \in Seq(R), Joined(F, seqs, m)
  PROVE  F \o seqs[m + 1] \in Seq(R) /\ Joined(F \o seqs[m + 1], seqs, m + 1)
<1> DEFINE G == seqs[m + 1]
           H == F \o G
           x == Len(F)
<1>1. G \in Seq(R) /\ H \in Seq(R) /\ m + 1 \in 1..n /\ x \in Nat /\ Len(G) \in Nat /\ Len(H) = x + Len(G)
  OBVIOUS
<1>2. /\ \A p \in 1..x : p \in 1..Len(H) /\ H[p] = F[p]
      /\ \A j \in 1..Len(G) : x + j \in 1..Len(H) /\ H[x + j] = G[j]
  <2>1. G \in Seq(R) /\ F \in Seq(R)
    BY <1>1
  <2> HIDE DEF G
  <2> QED BY <2>1
<1> HIDE DEF H, G, x
<1>3. ASSUME NEW p \in 1..Len(H) PROVE p \in 1..x \/ \E j \in 1..Len(G) : p = x + j
  <2>1. p \in 1..x \/ (p - x \in 1..Len(G) /\ p = x + (p - x))
    BY <1>1
  <2> QED BY <2>1
<1>4. \A i \in 1..(m + 1) : i \in 1..m \/ i = m + 1
  OBVIOUS
<1>5. 1..m \subseteq 1..(m + 1) /\ m + 1 \in 1..(m + 1) /\ m + 1 \notin 1..m
  OBVIOUS
<1>6. ASSUME NEW p \in 1..Len(H) PROVE \E i \in 1..(m + 1) : \E j \in 1..Len(seqs[i]) : H[p] = seqs[i][j]
  <2>1. CASE p \in 1..x
    <3>1. H[p] = F[p]
      BY <1>2, <2>1
    <3>2. \E i \in 1..m : \E j \in 1..Len(seqs[i]) : F[p] = seqs[i][j]
      BY <2>1 DEF Joined, x
    <3> QED BY <1>5, <3>1, <3>2
  <2>2. CASE \E j \in 1..Len(G) : p = x + j
    BY <1>2, <1>5, <2>2 DEF G
  <2> QED BY <1>3, <2>1, <2>2
<1>7. ASSUME NEW i \in 1..(m + 1), NEW j \in 1..Len(seqs[i]) PROVE \E p \in 1..Len(H) : H[p] = seqs[i][j]
  <2>1. CASE i \in 1..m
    <3>1. \E p \in 1..x : F[p] = seqs[i][j]
      BY <2>1 DEF Joined, x
    <3> QED BY <1>2, <3>1
  <2>2. CASE i = m + 1
    BY <1>2, <2>2 DEF G
  <2> QED BY <1>4, <2>1, <2>2
<1>8. ASSUME Apart(seqs, m + 1), NEW p \in 1..Len(H), NEW q \in 1..Len(H), H[p][1] = H[q][1] PROVE p = q
  <2>1. Apart(seqs, m)
    BY <1>5, <1>8 DEF Apart
  <2>2. CASE p \in 1..x /\ q \in 1..x
    BY <1>2, <1>8, <2>1, <2>2 DEF Joined, x
  <2>3. ASSUME NEW u \in 1..x, NEW j \in 1..Len(G), F[u][1] = G[j][1] PROVE FALSE
    <3>1. PICK i \in 1..m : \E k \in 1..Len(seqs[i]) : F[u] = seqs[i][k]
      BY DEF Joined, x
    <3>2. PICK k \in 1..Len(seqs[i]) : F[u] = seqs[i][k]
      BY <3>1
    <3>3. i = m + 1
      BY <1>5, <1>8, <2>3, <3>2 DEF Apart, G
    <3> QED BY <1>5, <3>3
  <2>4. CASE p \in 1..x /\ \E j \in 1..Len(G) : q = x + j
    BY <1>2, <1>8, <2>3, <2>4
  <2>5. CASE q \in 1..x /\ \E j \in 1..Len(G) : p = x + j
    BY <1>2, <1>8, <2>3, <2>5
  <2>6. CASE (\E j \in 1..Len(G) : p = x + j) /\ \E j \in 1..Len(G) : q = x + j
    <3>1. PICK j \in 1..Len(G), k \in 1..Len(G) : p = x + j /\ q = x + k
      BY <2>6
    <3>2. G[j][1] = G[k][1]
      BY <1>2, <1>8, <3>1
    <3>3. j = k
      BY <1>5, <1>8, <3>2 DEF Apart, G
    <3> QED BY <3>1, <3>3
  <2> QED BY <1>3, <2>2, <2>4, <2>5, <2>6
<1>9. Joined(H, seqs, m + 1)
  BY <1>6, <1>7, <1>8 DEF Joined
<1> QED BY <1>1, <1>9 DEF H, G

(* The join exists, of the first sequence, the first two and so on. *)
Joins(f, seqs, m) == f = [i \in 1..m |-> IF i = 1 THEN seqs[i] ELSE f[i - 1] \o seqs[i]]
LEMMA JoinsExist ==
  ASSUME NEW R, NEW n \in Nat, NEW seqs \in [1..n -> Seq(R)]
  PROVE  \A m \in 0..n : \E f \in [1..m -> Seq(R)] :
            Joins(f, seqs, m) /\ \A i \in 1..m : Joined(f[i], seqs, i)
<1> DEFINE Good(m) == \E f \in [1..m -> Seq(R)] : Joins(f, seqs, m) /\ \A i \in 1..m : Joined(f[i], seqs, i)
           Bad == {m \in 0..n : ~Good(m)}
<1>1. SUFFICES ASSUME Bad # {} PROVE FALSE
  OBVIOUS
<1>2. PICK m \in Bad : \A k \in Bad : m <= k
  <2>1. Bad \in SUBSET Nat
    OBVIOUS
  <2> HIDE DEF Bad
  <2> QED BY <1>1, <2>1, LeastNumber
<1>3. m # 0
  <2> DEFINE f == [i \in 1..0 |-> seqs[i]]
  <2>1. f \in [1..0 -> Seq(R)] /\ \A i \in 1..0 : Joined(f[i], seqs, i)
    OBVIOUS
  <2>2. Joins(f, seqs, 0)
    BY DEF Joins
  <2> HIDE DEF f
  <2>3. Good(0)
    BY <2>1, <2>2
  <2> QED BY <2>3
<1>4. m - 1 \in 0..n /\ m \in 1..n /\ m - 1 \notin Bad /\ m \in Nat
  <2>1. m \in 0..n
    OBVIOUS
  <2>2. m - 1 \in 0..n /\ m \in 1..n /\ m \in Nat /\ ~(m <= m - 1)
    BY <1>3, <2>1
  <2> HIDE DEF Bad
  <2> QED BY <1>2, <2>2
<1>5. PICK g \in [1..(m - 1) -> Seq(R)] : Joins(g, seqs, m - 1) /\ \A i \in 1..(m - 1) : Joined(g[i], seqs, i)
  BY <1>4
<1> DEFINE last == IF m = 1 THEN seqs[1] ELSE g[m - 1] \o seqs[m]
           f == [i \in 1..m |-> IF i = m THEN last ELSE g[i]]
<1>6. last \in Seq(R) /\ Joined(last, seqs, m)
  <2>1. CASE m = 1
    BY <1>4, <2>1, JoinOne
  <2>2. CASE m # 1
    <3>1. m - 1 \in 1..n /\ m - 1 \in 1..(m - 1) /\ (m - 1) + 1 = m /\ (m - 1) + 1 <= n
      BY <1>4, <2>2
    <3>2. g[m - 1] \in Seq(R) /\ Joined(g[m - 1], seqs, m - 1)
      BY <1>5, <3>1
    <3>3. g[m - 1] \o seqs[(m - 1) + 1] \in Seq(R) /\ Joined(g[m - 1] \o seqs[(m - 1) + 1], seqs, (m - 1) + 1)
      BY <3>1, <3>2, JoinNext
    <3> QED BY <2>2, <3>1, <3>3
  <2> QED BY <2>1, <2>2
<1>7. \A i \in 1..m : i = m \/ i \in 1..(m - 1)
  BY <1>4
<1>8. /\ \A i \in 1..(m - 1) : i \in 1..m /\ i # m
      /\ m \in 1..m
  BY <1>4
<1> HIDE DEF last
<1>9. f[m] = last /\ \A i \in 1..(m - 1) : f[i] = g[i]
  BY <1>8
<1>10. f \in [1..m -> Seq(R)] /\ \A i \in 1..m : Joined(f[i], seqs, i)
  <2>1. ASSUME NEW i \in 1..m PROVE f[i] \in Seq(R) /\ Joined(f[i], seqs, i)
    BY <1>5, <1>6, <1>7, <1>9
  <2> QED BY <2>1
<1>11. ASSUME NEW i \in 1..m PROVE f[i] = IF i = 1 THEN seqs[i] ELSE f[i - 1] \o seqs[i]
  <2>1. CASE i = m
    <3>1. m # 1 => m - 1 \in 1..(m - 1)
      BY <1>4
    <3> HIDE DEF f
    <3> QED BY <1>9, <2>1, <3>1 DEF last
  <2>2. CASE i # m
    <3>1. i \in 1..(m - 1)
      BY <1>7, <2>2
    <3>2. g[i] = IF i = 1 THEN seqs[i] ELSE g[i - 1] \o seqs[i]
      BY <1>5, <3>1 DEF Joins
    <3>3. i # 1 => i - 1 \in 1..(m - 1)
      BY <1>4, <3>1
    <3> HIDE DEF f
    <3> QED BY <1>9, <3>1, <3>2, <3>3
  <2> QED BY <2>1, <2>2
<1>12. Joins(f, seqs, m)
  <2>1. f = [i \in 1..m |-> f[i]]
    OBVIOUS
  <2> HIDE DEF f
  <2>2. [i \in 1..m |-> f[i]] = [i \in 1..m |-> IF i = 1 THEN seqs[i] ELSE f[i - 1] \o seqs[i]]
    BY <1>11
  <2> QED BY <2>1, <2>2 DEF Joins
<1> HIDE DEF f
<1>13. Good(m)
  BY <1>10, <1>12
<1> QED BY <1>2, <1>13

(* The joined rows are the rows of the sequences. *)
LEMMA FlattenIs ==
  ASSUME NEW R, NEW n \in Nat, NEW seqs \in [1..n -> Seq(R)]
  PROVE  FlattenSeq(seqs) \in Seq(R) /\ Joined(FlattenSeq(seqs), seqs, n)
<1>1. Len(seqs) = n
  OBVIOUS
<1>2. CASE n = 0
  <2>1. FlattenSeq(seqs) = seqs
    BY <1>1, <1>2 DEF FlattenSeq
  <2>2. seqs = <<>>
    BY <1>2
  <2>3. seqs \in Seq(R) /\ Len(seqs) = 0
    BY <2>2
  <2>4. 1..0 = {}
    OBVIOUS
  <2> QED BY <1>2, <2>1, <2>3, <2>4 DEF Joined
<1>3. CASE n # 0
  <2> DEFINE w == CHOOSE f : f = [i \in 1..Len(seqs) |-> IF i = 1 THEN seqs[i] ELSE f[i - 1] \o seqs[i]]
  <2>1. FlattenSeq(seqs) = w[Len(seqs)]
    BY <1>1, <1>3 DEF FlattenSeq
  <2>2. PICK f \in [1..n -> Seq(R)] : Joins(f, seqs, n) /\ \A i \in 1..n : Joined(f[i], seqs, i)
    <3>1. n \in 0..n
      OBVIOUS
    <3> QED BY <3>1, JoinsExist
  <2>3. w = [i \in 1..n |-> IF i = 1 THEN seqs[i] ELSE w[i - 1] \o seqs[i]]
    <3> DEFINE P(h) == h = [i \in 1..n |-> IF i = 1 THEN seqs[i] ELSE h[i - 1] \o seqs[i]]
    <3>1. P(f)
      BY <2>2 DEF Joins
    <3>2. w = CHOOSE h : P(h)
      BY <1>1
    <3> HIDE DEF w, P
    <3>3. P(w)
      BY <3>1, <3>2
    <3> QED BY <3>3 DEF P
  <2> HIDE DEF w
  <2> DEFINE Differ == {i \in 1..n : w[i] # f[i]}
  <2>4. Differ = {}
    <3>1. SUFFICES ASSUME Differ # {} PROVE FALSE
      OBVIOUS
    <3>2. PICK i \in Differ : \A j \in Differ : i <= j
      <4>1. Differ \in SUBSET Nat
        OBVIOUS
      <4> HIDE DEF Differ
      <4> QED BY <3>1, <4>1, LeastNumber
    <3>3. i \in 1..n /\ w[i] # f[i]
      BY <3>2
    <3>4. i # 1 => i - 1 \in 1..n /\ w[i - 1] = f[i - 1]
      <4>1. i # 1 => i - 1 \in 1..n /\ ~(i <= i - 1)
        BY <3>3
      <4> QED BY <3>2, <4>1
    <3>5. /\ w[i] = IF i = 1 THEN seqs[i] ELSE w[i - 1] \o seqs[i]
          /\ f[i] = IF i = 1 THEN seqs[i] ELSE f[i - 1] \o seqs[i]
      BY <2>2, <2>3, <3>3 DEF Joins
    <3> QED BY <3>3, <3>4, <3>5
  <2>5. n \in 1..n
    BY <1>3
  <2>6. w[n] = f[n]
    BY <2>4, <2>5
  <2> QED BY <1>1, <2>1, <2>2, <2>5, <2>6
<1> QED BY <1>2, <1>3

(* The first by a key of four numbers. *)
KeyOf(S, f1, f2, f3, f4) == [x \in S |-> <<f1[x], f2[x], f3[x], f4[x]>>]
LEMMA FourKeys ==
  ASSUME NEW S, NEW f1 \in [S -> Nat], NEW f2 \in [S -> Nat], NEW f3 \in [S -> Nat], NEW f4 \in [S -> Nat],
         \A x, y \in S : f4[x] = f4[y] => x = y
  PROVE  Keys(S, 4, KeyOf(S, f1, f2, f3, f4))
<1> DEFINE K == [x \in S |-> <<f1[x], f2[x], f3[x], f4[x]>>]
<1>1. ASSUME NEW x \in S PROVE K[x] \in [1..4 -> Nat] /\ K[x][4] = f4[x]
  <2>1. f1[x] \in Nat /\ f2[x] \in Nat /\ f3[x] \in Nat /\ f4[x] \in Nat
    OBVIOUS
  <2>2. <<f1[x], f2[x], f3[x], f4[x]>> \in [1..4 -> Nat]
    BY <2>1
  <2> QED BY <2>2
<1>2. K \in [S -> [1..4 -> Nat]]
  BY <1>1
<1>3. ASSUME NEW x \in S, NEW y \in S, K[x] = K[y] PROVE x = y
  <2> HIDE DEF K
  <2>1. f4[x] = f4[y]
    BY <1>1, <1>3
  <2> QED BY <2>1
<1> HIDE DEF K
<1>4. Keys(S, 4, K)
  BY <1>2, <1>3 DEF Keys
<1> QED BY <1>4 DEF K, KeyOf

(* A key of four numbers that comes first, number by number. *)
LEMMA LexOfFour ==
  ASSUME NEW s1 \in Nat, NEW s2 \in Nat, NEW s3 \in Nat, NEW s4 \in Nat,
         NEW t1 \in Nat, NEW t2 \in Nat, NEW t3 \in Nat, NEW t4 \in Nat,
         s1 < t1 \/ (s1 = t1 /\ (s2 < t2 \/ (s2 = t2 /\ (s3 < t3 \/ (s3 = t3 /\ s4 < t4)))))
  PROVE  Lex(<<s1, s2, s3, s4>>, <<t1, t2, t3, t4>>)
<1> DEFINE s == <<s1, s2, s3, s4>>
           t == <<t1, t2, t3, t4>>
<1>1. /\ DOMAIN s = 1..4 /\ s[1] = s1 /\ s[2] = s2 /\ s[3] = s3 /\ s[4] = s4
      /\ t[1] = t1 /\ t[2] = t2 /\ t[3] = t3 /\ t[4] = t4
  OBVIOUS
<1> HIDE DEF s, t
<1>2. \E i \in 1..4 : s[i] < t[i] /\ \A j \in 1..(i - 1) : s[j] = t[j]
  <2>1. CASE s1 < t1
    <3>1. \A j \in 1..(1 - 1) : s[j] = t[j]
      OBVIOUS
    <3> QED BY <1>1, <2>1, <3>1
  <2>2. CASE s1 = t1 /\ s2 < t2
    <3>1. \A j \in 1..(2 - 1) : j = 1
      OBVIOUS
    <3> QED BY <1>1, <2>2, <3>1
  <2>3. CASE s1 = t1 /\ s2 = t2 /\ s3 < t3
    <3>1. \A j \in 1..(3 - 1) : j = 1 \/ j = 2
      OBVIOUS
    <3> QED BY <1>1, <2>3, <3>1
  <2>4. CASE s1 = t1 /\ s2 = t2 /\ s3 = t3 /\ s4 < t4
    <3>1. \A j \in 1..(4 - 1) : j = 1 \/ j = 2 \/ j = 3
      OBVIOUS
    <3> QED BY <1>1, <2>4, <3>1
  <2> QED BY <2>1, <2>2, <2>3, <2>4
<1>3. Lex(s, t)
  BY <1>1, <1>2 DEF Lex
<1> QED BY <1>3 DEF s, t

(* Of two rows the one that wins: by its score, then the setting in force,    *)
(* then the smaller overlap.                                                *)
Rank(r) == IF r[1] = current THEN 0 ELSE 1
Ahead(r, q, i, j) ==
    r[2] < q[2] \/ (r[2] = q[2] /\ (Rank(r) < Rank(q)
        \/ (Rank(r) = Rank(q) /\ (r[1][1] < q[1][1] \/ (r[1][1] = q[1][1] /\ i < j)))))
Whole(rs) == {i \in DOMAIN rs : rs[i][2] # NoPlan}

(* The winner comes ahead of all the others, and who does so is the winner.   *)
LEMMA WinnerIs ==
  ASSUME NEW n \in Nat, NEW rs, DOMAIN rs = 1..n, \A i \in 1..n : rs[i][2] \in Nat /\ rs[i][1][1] \in Nat
  PROVE  /\ Whole(rs) = {} => PickWinner(rs) = None
         /\ Whole(rs) # {} => \E i \in Whole(rs) : /\ PickWinner(rs) = rs[i]
                                                   /\ \A j \in Whole(rs) \ {i} : Ahead(rs[i], rs[j], i, j)
         /\ \A i \in Whole(rs) : (\A j \in Whole(rs) \ {i} : Ahead(rs[i], rs[j], i, j)) => PickWinner(rs) = rs[i]
<1> DEFINE S == Whole(rs)
           f1 == [i \in S |-> rs[i][2]]
           f2 == [i \in S |-> Rank(rs[i])]
           f3 == [i \in S |-> rs[i][1][1]]
           f4 == [i \in S |-> i]
           K == [i \in S |-> <<f1[i], f2[i], f3[i], f4[i]>>]
           w == CHOOSE i \in S : \A j \in S \ {i} : Lex(K[i], K[j])
<1>1. S \subseteq 1..n
  BY DEF Whole
<1>2. \A i \in S : f1[i] \in Nat /\ f2[i] \in Nat /\ f3[i] \in Nat /\ f4[i] \in Nat
  BY <1>1 DEF Rank
<1>3. f1 \in [S -> Nat] /\ f2 \in [S -> Nat] /\ f3 \in [S -> Nat] /\ f4 \in [S -> Nat]
  BY <1>2
<1>4. Keys(S, 4, K)
  <2>1. \A x, y \in S : f4[x] = f4[y] => x = y
    OBVIOUS
  <2> HIDE DEF S, f1, f2, f3, f4
  <2>2. Keys(S, 4, KeyOf(S, f1, f2, f3, f4))
    BY <1>3, <2>1, FourKeys
  <2> QED BY <2>2 DEF KeyOf
<1>5. PickWinner(rs) = IF S = {} THEN None ELSE rs[w]
  <2>1. \A i \in S : K[i] = <<rs[i][2], IF rs[i][1] = current THEN 0 ELSE 1, rs[i][1][1], i>>
    BY DEF Rank
  <2> DEFINE v == CHOOSE i \in S : \A j \in S \ {i} :
                    Lex(<<rs[i][2], IF rs[i][1] = current THEN 0 ELSE 1, rs[i][1][1], i>>,
                        <<rs[j][2], IF rs[j][1] = current THEN 0 ELSE 1, rs[j][1][1], j>>)
  <2>2. PickWinner(rs) = IF S = {} THEN None ELSE rs[v]
    BY DEF PickWinner, Least, Whole
  <2>3. v = w
    <3> HIDE DEF K, S
    <3>1. ASSUME NEW i PROVE (i \in S /\ \A j \in S \ {i} : Lex(K[i], K[j])) <=>
                (i \in S /\ \A j \in S \ {i} :
                    Lex(<<rs[i][2], IF rs[i][1] = current THEN 0 ELSE 1, rs[i][1][1], i>>,
                        <<rs[j][2], IF rs[j][1] = current THEN 0 ELSE 1, rs[j][1][1], j>>))
      BY <2>1, Zenon
    <3> QED BY <3>1
  <2> HIDE DEF v, w
  <2> QED BY <2>2, <2>3
<1>6. ASSUME NEW i \in S, NEW j \in S PROVE Lex(K[i], K[j]) <=> Ahead(rs[i], rs[j], i, j)
  <2>1. /\ K[i] = <<f1[i], f2[i], f3[i], f4[i]>> /\ K[j] = <<f1[j], f2[j], f3[j], f4[j]>>
        /\ f1[i] \in Nat /\ f2[i] \in Nat /\ f3[i] \in Nat /\ f4[i] \in Nat
        /\ f1[j] \in Nat /\ f2[j] \in Nat /\ f3[j] \in Nat /\ f4[j] \in Nat
    BY <1>2
  <2>2. /\ f1[i] = rs[i][2] /\ f2[i] = Rank(rs[i]) /\ f3[i] = rs[i][1][1] /\ f4[i] = i
        /\ f1[j] = rs[j][2] /\ f2[j] = Rank(rs[j]) /\ f3[j] = rs[j][1][1] /\ f4[j] = j
    OBVIOUS
  <2> HIDE DEF K, f1, f2, f3, f4, S
  <2>3. Lex(K[i], K[j]) => Ahead(rs[i], rs[j], i, j)
    <3> SUFFICES ASSUME Lex(K[i], K[j]) PROVE Ahead(rs[i], rs[j], i, j)
      OBVIOUS
    <3>1. f1[i] < f1[j] \/ (f1[i] = f1[j] /\ (f2[i] < f2[j] \/ (f2[i] = f2[j] /\
             (f3[i] < f3[j] \/ (f3[i] = f3[j] /\ f4[i] < f4[j])))))
      <4>1. K[i] \in [1..4 -> Nat] /\ K[j] \in [1..4 -> Nat]
        BY <1>4 DEF Keys
      <4>2. /\ K[i][1] = f1[i] /\ K[i][2] = f2[i] /\ K[i][3] = f3[i] /\ K[i][4] = f4[i]
            /\ K[j][1] = f1[j] /\ K[j][2] = f2[j] /\ K[j][3] = f3[j] /\ K[j][4] = f4[j]
        BY <2>1
      <4>3. K[i][1] < K[j][1] \/ (K[i][1] = K[j][1] /\ (K[i][2] < K[j][2] \/ (K[i][2] = K[j][2] /\
             (K[i][3] < K[j][3] \/ (K[i][3] = K[j][3] /\ K[i][4] < K[j][4])))))
        BY <4>1, LexFour
      <4> QED BY <4>2, <4>3
    <3> QED BY <2>2, <3>1 DEF Ahead
  <2>4. Ahead(rs[i], rs[j], i, j) => Lex(K[i], K[j])
    <3> SUFFICES ASSUME Ahead(rs[i], rs[j], i, j) PROVE Lex(K[i], K[j])
      OBVIOUS
    <3>1. f1[i] < f1[j] \/ (f1[i] = f1[j] /\ (f2[i] < f2[j] \/ (f2[i] = f2[j] /\
             (f3[i] < f3[j] \/ (f3[i] = f3[j] /\ f4[i] < f4[j])))))
      BY <2>2 DEF Ahead
    <3>2. Lex(<<f1[i], f2[i], f3[i], f4[i]>>, <<f1[j], f2[j], f3[j], f4[j]>>)
      BY <2>1, <3>1, LexOfFour
    <3> QED BY <2>1, <3>2
  <2> QED BY <2>3, <2>4
<1> HIDE DEF S, K
<1>7. S # {} => First(S, K, w)
  <2> SUFFICES ASSUME S # {} PROVE First(S, K, w)
    OBVIOUS
  <2>1. \E i \in S : First(S, K, i)
    BY <1>4, FirstExists
  <2>2. \E i \in S : \A j \in S \ {i} : Lex(K[i], K[j])
    BY <2>1 DEF First
  <2> HIDE DEF w
  <2>3. w \in S /\ \A j \in S \ {w} : Lex(K[w], K[j])
    BY <2>2 DEF w
  <2> QED BY <2>3 DEF First
<1> HIDE DEF w
<1>8. S # {} => \E i \in S : PickWinner(rs) = rs[i] /\ \A j \in S \ {i} : Ahead(rs[i], rs[j], i, j)
  <2> SUFFICES ASSUME S # {} PROVE w \in S /\ PickWinner(rs) = rs[w] /\ \A j \in S \ {w} : Ahead(rs[w], rs[j], w, j)
    OBVIOUS
  <2> QED BY <1>5, <1>6, <1>7 DEF First
<1>9. ASSUME NEW i \in S, \A j \in S \ {i} : Ahead(rs[i], rs[j], i, j) PROVE PickWinner(rs) = rs[i]
  <2>1. First(S, K, i)
    BY <1>6, <1>9 DEF First
  <2>2. w = i
    BY <1>4, <1>7, <2>1, FirstIsOne
  <2> QED BY <1>5, <2>2
<1> QED BY <1>5, <1>8, <1>9 DEF S

-----------------------------------------------------------------------------
(* What the contest is about never changes.                                 *)
Stages == {"run", "coarse", "bracket", "golden", "tuned", "done", "error"}
Marks  == Scores \cup {NoPlan}
RowSet == Jobs \X Marks

Contested ==
    /\ current \in Setting
    /\ mode = "sweep" => current[2] = FALSE
    /\ mode \in {"cloud", "sweep"} => score \in [Jobs -> Marks]
    /\ mode = "matrix" => score \in [Matrix -> Scores]
    /\ mode = "local" => score \in Responses
    /\ at \in Stages
    /\ at \in Stages \ {"run", "done"} <=> mode = "local" /\ at # "done"
    /\ stop \in BOOLEAN /\ flex \in BOOLEAN

(* A step changes none of it; each action is of one kind of contest. *)
Kept == mode' = mode /\ current' = current /\ score' = score

LEMMA EveryStepKeeps ==
  ASSUME [Next]_vars
  PROVE  Kept
  BY DEF Next, Step, Cancel, Cleared, Idle, ShardPosts, ShardFails, Merge, MatrixPosts, Reduce,
         SweepNext, SweepEnds, CoarseProbe, Bracket, GoldenProbe, Narrow, Narrowed, Tuned, Apply,
         contest, vars, Kept

LEMMA ContestedStarts == Init => Contested
<1> SUFFICES ASSUME Init PROVE Contested
  OBVIOUS
<1>1. current \in Setting
  BY ContestAssumption DEF Init, Setting
<1>2. mode = "sweep" => current[2] = FALSE
  <2>1. current[2] \in BOOLEAN
    BY <1>1 DEF Setting
  <2> QED BY <2>1 DEF Init
<1>3. /\ mode \in {"cloud", "sweep"} => score \in [Jobs -> Marks]
      /\ mode = "matrix" => score \in [Matrix -> Scores]
      /\ mode = "local" => score \in Responses
  BY DEF Init, Marks
<1> QED BY <1>1, <1>2, <1>3 DEF Init, Contested, Stages

LEMMA ContestedStays == Contested /\ [Next]_vars => Contested'
<1> SUFFICES ASSUME Contested, [Next]_vars PROVE Contested'
  OBVIOUS
<1>1. Kept
  BY EveryStepKeeps
<1>2. /\ Jobs' = Jobs /\ Marks' = Marks /\ Matrix' = Matrix /\ Responses' = Responses /\ Setting' = Setting
      /\ Stages' = Stages
  BY <1>1 DEF Kept, Jobs, Marks, Matrix, Responses, Setting, Stages
<1>3. /\ at' \in Stages
      /\ at' \in Stages \ {"run", "done"} <=> mode = "local" /\ at' # "done"
      /\ stop' \in BOOLEAN /\ flex' \in BOOLEAN
  <2> USE DEF Contested, Stages
  <2>1. ASSUME NEW k \in 1..Shards, ShardPosts(k) \/ ShardFails(k) PROVE <1>3!:
    BY <2>1 DEF ShardPosts, ShardFails
  <2>2. ASSUME Merge \/ MatrixPosts \/ Reduce \/ SweepEnds \/ Apply PROVE <1>3!:
    BY <2>2 DEF Merge, MatrixPosts, Reduce, SweepEnds, Apply
  <2>3. ASSUME SweepNext PROVE <1>3!:
    <3>1. at' = at /\ flex' = flex /\ stop' \in BOOLEAN
      BY <2>3 DEF SweepNext
    <3> QED BY <3>1
  <2>4. ASSUME CoarseProbe \/ GoldenProbe \/ Narrow \/ Narrowed PROVE <1>3!:
    BY <2>4 DEF CoarseProbe, GoldenProbe, Narrow, Narrowed
  <2>5. ASSUME Bracket PROVE <1>3!:
    BY <2>5 DEF Bracket
  <2>6. ASSUME Tuned PROVE <1>3!:
    BY <2>6 DEF Tuned
  <2>7. ASSUME Cancel \/ Cleared \/ Idle \/ UNCHANGED vars PROVE <1>3!:
    BY <2>7 DEF Cancel, Cleared, Idle, vars
  <2> QED BY <2>1, <2>2, <2>3, <2>4, <2>5, <2>6, <2>7 DEF Next, Step
<1> QED BY <1>1, <1>2, <1>3 DEF Contested, Kept

(* Scores are numbers, and so is the mark of a candidate without a plan. *)
LEMMA MarksAreNumbers == NoPlan \in Nat /\ Marks \subseteq Nat /\ Scores \subseteq Nat
<1> DEFINE f == [v \in Scores |-> v]
<1>1. IsFiniteSet(Scores) /\ Scores # {} /\ Scores \subseteq Nat
  BY ContestAssumption
<1>2. f \in [Scores -> Nat]
  BY <1>1
<1>3. {f[k] : k \in Scores} = Scores
  <2>1. \A k \in Scores : f[k] = k
    OBVIOUS
  <2> HIDE DEF f
  <2> QED BY <2>1
<1> HIDE DEF f
<1>4. Max({f[k] : k \in Scores}) \in {f[k] : k \in Scores}
  BY <1>1, <1>2, MaxOfValues
<1>5. Max(Scores) \in Nat
  BY <1>1, <1>3, <1>4
<1>6. NoPlan \in Nat
  <2> DEFINE m == Max(Scores)
  <2>1. m \in Nat /\ NoPlan = m + 1
    BY <1>5 DEF NoPlan
  <2> HIDE DEF m
  <2> QED BY <2>1
<1> QED BY <1>1, <1>6 DEF Marks

-----------------------------------------------------------------------------
(* The contest in the cloud.                                                *)

CloudInv ==
    mode = "cloud" =>
        /\ posts \in Seq(1..Shards)
        /\ \A i, j \in 1..Len(posts) : posts[i] = posts[j] => i = j
        /\ rows \in [1..Shards -> Seq(RowSet)]
        /\ \A k \in 1..Shards :
             /\ Len(rows[k]) <= Len(Slice(k))
             /\ \A i \in 1..Len(rows[k]) : rows[k][i][1] = Slice(k)[i]
             /\ ~stop => \A i \in 1..Len(rows[k]) : rows[k][i] = Row(Slice(k)[i])
        /\ at # "done" => out = None
        /\ at = "done" => out = PickWinner(AllRows)

LEMMA CloudStarts == Init /\ Contested => CloudInv
<1> SUFFICES ASSUME Init, Contested, mode = "cloud" PROVE CloudInv
  BY DEF CloudInv
<1>1. posts = <<>> /\ rows = [k \in 1..Shards |-> <<>>] /\ at = "run" /\ out = None
  BY DEF Init
<1>2. \A k \in 1..Shards : Len(Slice(k)) \in Nat
  BY SliceIs DEF Contested
<1>3. Len(posts) = 0 /\ posts \in Seq(1..Shards) /\ 1..0 = {}
  BY <1>1
<1>4. \A k \in 1..Shards : rows[k] = <<>> /\ Len(rows[k]) = 0
  BY <1>1
<1>5. rows \in [1..Shards -> Seq(RowSet)]
  BY <1>1
<1> QED BY <1>1, <1>2, <1>3, <1>4, <1>5 DEF CloudInv

(* What a shard posts: a beginning of its candidates with their scores, the  *)
(* last of them perhaps cut short.                                          *)
Begins(t, k) ==
    /\ t \in Seq(RowSet) /\ Len(t) <= Len(Slice(k))
    /\ \A i \in 1..Len(t) : t[i][1] = Slice(k)[i]
Scored(t, k) == \A i \in 1..Len(t) : t[i] = Row(Slice(k)[i])

LEMMA PostedRows ==
  ASSUME Contested, mode = "cloud", NEW k \in 1..Shards,
         NEW all, all = [i \in DOMAIN Slice(k) |-> Row(Slice(k)[i])]
  PROVE  /\ Begins(all, k) /\ Scored(all, k)
         /\ \A n \in DOMAIN all : \A r \in Cut(all[n][1]) :
              Begins(Append(SubSeq(all, 1, n - 1), r), k)
<1>1. Slice(k) \in Seq(Jobs)
  BY SliceIs DEF Contested
<1>2. \A j \in Jobs : Row(j) \in RowSet /\ Row(j)[1] = j
  BY DEF Contested, Row, RowSet
<1>3. DOMAIN Slice(k) = 1..Len(Slice(k)) /\ \A i \in 1..Len(Slice(k)) : Slice(k)[i] \in Jobs
  BY <1>1
<1>4. all \in [1..Len(Slice(k)) -> RowSet] /\ Len(Slice(k)) \in Nat
  BY <1>1, <1>2, <1>3
<1>5. all \in Seq(RowSet) /\ Len(all) = Len(Slice(k))
  BY <1>4
<1>6. \A i \in 1..Len(all) : all[i] = Row(Slice(k)[i]) /\ all[i][1] = Slice(k)[i]
  BY <1>2, <1>3, <1>5
<1>7. ASSUME NEW n \in DOMAIN all, NEW r \in Cut(all[n][1])
      PROVE  Begins(Append(SubSeq(all, 1, n - 1), r), k)
  <2> DEFINE s == SubSeq(all, 1, n - 1)
             t == Append(s, r)
  <2>1. n \in 1..Len(all) /\ Len(all) \in Nat
    BY <1>5
  <2>2. r \in RowSet /\ r[1] = Slice(k)[n]
    <3>1. all[n][1] = Slice(k)[n] /\ Slice(k)[n] \in Jobs
      BY <1>3, <1>5, <1>6, <2>1
    <3>2. PICK v \in Marks : r = <<Slice(k)[n], v>>
      BY <3>1 DEF Cut, Marks
    <3> QED BY <3>1, <3>2 DEF RowSet
  <2>3. s \in Seq(RowSet) /\ Len(s) = n - 1 /\ \A i \in 1..(n - 1) : s[i] = all[i]
    BY <1>5, <2>1
  <2> HIDE DEF s
  <2>4. t \in Seq(RowSet) /\ Len(t) = n /\ t[n] = r /\ \A i \in 1..(n - 1) : t[i] = s[i]
    BY <2>1, <2>2, <2>3
  <2> HIDE DEF t
  <2>5. ASSUME NEW i \in 1..Len(t) PROVE t[i][1] = Slice(k)[i]
    <3>1. i = n \/ i \in 1..(n - 1)
      BY <2>1, <2>4, <2>5
    <3>2. CASE i = n
      BY <2>2, <2>4, <3>2
    <3>3. CASE i \in 1..(n - 1)
      <4>1. t[i] = all[i]
        BY <2>3, <2>4, <3>3
      <4>2. i \in 1..Len(all)
        BY <2>1, <3>3
      <4> QED BY <1>6, <4>1, <4>2
    <3> QED BY <3>1, <3>2, <3>3
  <2>6. Len(t) <= Len(Slice(k))
    BY <1>5, <2>1, <2>4
  <2>7. Begins(t, k)
    BY <2>4, <2>5, <2>6 DEF Begins
  <2> QED BY <2>7 DEF t, s
<1>8. Begins(all, k) /\ Scored(all, k)
  BY <1>4, <1>5, <1>6 DEF Begins, Scored
<1> QED BY <1>7, <1>8

LEMMA CloudStays == Contested /\ CloudInv /\ [Next]_vars => CloudInv'
<1> SUFFICES ASSUME Contested, CloudInv, [Next]_vars PROVE CloudInv'
  OBVIOUS
<1>1. Kept
  BY EveryStepKeeps
<1> SUFFICES ASSUME mode = "cloud" PROVE CloudInv'
  BY <1>1 DEF Kept, CloudInv
<1>2. /\ Slice(1)' = Slice(1) /\ RowSet' = RowSet /\ \A k \in 1..Shards : Slice(k)' = Slice(k)
      /\ \A j : Row(j)' = Row(j)
  BY <1>1 DEF Kept, Slice, ContestJobs, SweepContenders, RowSet, Jobs, Marks, Row
<1>3. ASSUME rows' = rows, posts' = posts PROVE PickWinner(AllRows)' = PickWinner(AllRows)
  <2>1. current' = current /\ AllRows' = AllRows
    BY <1>1, <1>3 DEF Kept, AllRows
  <2> QED BY <2>1 DEF PickWinner, Least
<1>4. /\ posts \in Seq(1..Shards) /\ \A i, j \in 1..Len(posts) : posts[i] = posts[j] => i = j
      /\ rows \in [1..Shards -> Seq(RowSet)]
  BY DEF CloudInv
<1>5. ASSUME NEW k \in 1..Shards, k \notin Range(posts), posts' = Append(posts, k)
      PROVE  posts' \in Seq(1..Shards) /\ \A i, j \in 1..Len(posts') : posts'[i] = posts'[j] => i = j
  <2>1. \A i \in 1..Len(posts) : posts[i] # k
    BY <1>4, <1>5 DEF Range
  <2>2. /\ Len(posts') = Len(posts) + 1 /\ Len(posts) \in Nat /\ posts'[Len(posts) + 1] = k
        /\ \A i \in 1..Len(posts) : posts'[i] = posts[i]
    BY <1>4, <1>5
  <2>3. \A i \in 1..Len(posts') : i = Len(posts) + 1 \/ i \in 1..Len(posts)
    BY <2>2
  <2>4. posts' \in Seq(1..Shards)
    BY <1>4, <1>5
  <2> QED BY <1>4, <2>1, <2>2, <2>3, <2>4
<1>6. ASSUME NEW k \in 1..Shards, ShardPosts(k) PROVE CloudInv'
  <2> DEFINE all == [i \in DOMAIN Slice(k) |-> Row(Slice(k)[i])]
  <2>1. /\ at = "run" /\ at' = at /\ out' = out /\ stop' = stop /\ k \notin Range(posts) /\ posts' = Append(posts, k)
        /\ \/ rows' = [rows EXCEPT ![k] = all]
           \/ stop /\ \E n \in DOMAIN all : \E r \in Cut(all[n][1]) :
                rows' = [rows EXCEPT ![k] = Append(SubSeq(all, 1, n - 1), r)]
    BY <1>6 DEF ShardPosts
  <2>2. \E t \in Seq(RowSet) :
           /\ rows' = [rows EXCEPT ![k] = t] /\ Len(t) <= Len(Slice(k))
           /\ \A i \in 1..Len(t) : t[i][1] = Slice(k)[i]
           /\ ~stop => \A i \in 1..Len(t) : t[i] = Row(Slice(k)[i])
    <3>1. all = [i \in DOMAIN Slice(k) |-> Row(Slice(k)[i])]
      OBVIOUS
    <3> HIDE DEF all
    <3>2. /\ Begins(all, k) /\ Scored(all, k)
          /\ \A n \in DOMAIN all : \A r \in Cut(all[n][1]) :
               Begins(Append(SubSeq(all, 1, n - 1), r), k)
      BY <3>1, PostedRows
    <3>3. CASE rows' = [rows EXCEPT ![k] = all]
      BY <3>2, <3>3 DEF Begins, Scored
    <3>4. CASE stop /\ \E n \in DOMAIN all : \E r \in Cut(all[n][1]) :
                rows' = [rows EXCEPT ![k] = Append(SubSeq(all, 1, n - 1), r)]
      <4>0. PICK n \in DOMAIN all : \E r \in Cut(all[n][1]) :
                rows' = [rows EXCEPT ![k] = Append(SubSeq(all, 1, n - 1), r)]
        BY <3>4
      <4>1. PICK r \in Cut(all[n][1]) :
                rows' = [rows EXCEPT ![k] = Append(SubSeq(all, 1, n - 1), r)]
        BY <4>0
      <4> DEFINE t == Append(SubSeq(all, 1, n - 1), r)
      <4>2. Begins(t, k) /\ rows' = [rows EXCEPT ![k] = t]
        BY <3>2, <4>1
      <4> HIDE DEF t
      <4> QED BY <3>4, <4>2 DEF Begins
    <3> QED BY <2>1, <3>3, <3>4
  <2>3. PICK t \in Seq(RowSet) :
           /\ rows' = [rows EXCEPT ![k] = t] /\ Len(t) <= Len(Slice(k))
           /\ \A i \in 1..Len(t) : t[i][1] = Slice(k)[i]
           /\ ~stop => \A i \in 1..Len(t) : t[i] = Row(Slice(k)[i])
    BY <2>2
  <2>4. /\ rows' \in [1..Shards -> Seq(RowSet)] /\ rows'[k] = t
        /\ \A l \in 1..Shards : l # k => rows'[l] = rows[l]
    BY <1>4, <2>3
  <2>5. ASSUME NEW l \in 1..Shards
        PROVE  /\ Len(rows'[l]) <= Len(Slice(l))
               /\ \A i \in 1..Len(rows'[l]) : rows'[l][i][1] = Slice(l)[i]
               /\ ~stop' => \A i \in 1..Len(rows'[l]) : rows'[l][i] = Row(Slice(l)[i])
    <3>1. CASE l = k
      BY <2>1, <2>3, <2>4, <3>1
    <3>2. CASE l # k
      BY <2>1, <2>4, <3>2 DEF CloudInv
    <3> QED BY <3>1, <3>2
  <2>6. posts' \in Seq(1..Shards) /\ \A i, j \in 1..Len(posts') : posts'[i] = posts'[j] => i = j
    BY <1>5, <2>1
  <2>7. at' # "done" /\ out' = None
    BY <2>1 DEF CloudInv
  <2> QED BY <1>1, <1>2, <2>4, <2>5, <2>6, <2>7 DEF CloudInv
<1>7. ASSUME NEW k \in 1..Shards, ShardFails(k) PROVE CloudInv'
  <2>1. /\ at = "run" /\ at' = at /\ out' = out /\ stop' = stop /\ k \notin Range(posts)
        /\ posts' = Append(posts, k) /\ rows' = rows
    BY <1>7 DEF ShardFails
  <2>2. posts' \in Seq(1..Shards) /\ \A i, j \in 1..Len(posts') : posts'[i] = posts'[j] => i = j
    BY <1>5, <2>1
  <2> QED BY <1>1, <1>2, <2>1, <2>2 DEF CloudInv
<1>8. ASSUME posts' = posts, rows' = rows, stop => stop',
             \/ at' = at /\ out' = out
             \/ at = "run" /\ at' = "done" /\ out' = PickWinner(AllRows)
      PROVE  CloudInv'
  <2>1. PickWinner(AllRows)' = PickWinner(AllRows)
    BY <1>3, <1>8
  <2> QED BY <1>1, <1>2, <1>8, <2>1 DEF CloudInv
<1>9. ASSUME Merge PROVE CloudInv'
  BY <1>8, <1>9 DEF Merge
<1>10. ASSUME Cancel PROVE CloudInv'
  BY <1>8, <1>10 DEF Cancel
<1>11. ASSUME Idle \/ UNCHANGED vars PROVE CloudInv'
  BY <1>8, <1>11 DEF Idle, vars
<1>12. ASSUME MatrixPosts \/ Reduce \/ SweepNext \/ SweepEnds \/ Apply \/ Cleared PROVE CloudInv'
  BY <1>12 DEF MatrixPosts, Reduce, SweepNext, SweepEnds, Apply, Cleared
<1>13. ASSUME CoarseProbe \/ Bracket \/ GoldenProbe \/ Narrow \/ Narrowed \/ Tuned PROVE CloudInv'
  <2>1. at \notin {"coarse", "bracket", "golden", "tuned"}
    BY DEF Contested, Stages
  <2> QED BY <1>13, <2>1 DEF CoarseProbe, Bracket, GoldenProbe, Narrow, Narrowed, Tuned
<1> QED BY <1>6, <1>7, <1>9, <1>10, <1>11, <1>12, <1>13 DEF Next, Step

(* The rows of the shards, joined: none of them twice. *)
LEMMA MergedRows ==
  ASSUME Contested, CloudInv, mode = "cloud"
  PROVE  /\ AllRows \in Seq(RowSet)
         /\ \A p \in 1..Len(AllRows) : \E k \in 1..Shards : \E j \in 1..Len(rows[k]) : AllRows[p] = rows[k][j]
         /\ \A k \in Range(posts) : \A j \in 1..Len(rows[k]) : \E p \in 1..Len(AllRows) : AllRows[p] = rows[k][j]
         /\ \A p, q \in 1..Len(AllRows) : AllRows[p][1] = AllRows[q][1] => p = q
<1> DEFINE n == Len(posts)
           seqs == [i \in DOMAIN posts |-> rows[posts[i]]]
<1>1. /\ posts \in Seq(1..Shards) /\ \A i, j \in 1..n : posts[i] = posts[j] => i = j
      /\ rows \in [1..Shards -> Seq(RowSet)]
      /\ \A k \in 1..Shards : Len(rows[k]) <= Len(Slice(k)) /\ \A i \in 1..Len(rows[k]) : rows[k][i][1] = Slice(k)[i]
  BY DEF CloudInv
<1>2. n \in Nat /\ DOMAIN posts = 1..n /\ \A i \in 1..n : posts[i] \in 1..Shards
  <2> DEFINE S == 1..Shards
  <2>1. posts \in Seq(S)
    BY <1>1
  <2> HIDE DEF S
  <2>2. n \in Nat /\ DOMAIN posts = 1..n /\ \A i \in 1..n : posts[i] \in S
    BY <2>1
  <2> QED BY <2>2 DEF S
<1>3. seqs \in [1..n -> Seq(RowSet)] /\ \A i \in 1..n : seqs[i] = rows[posts[i]]
  BY <1>1, <1>2
<1>4. Range(posts) = {posts[i] : i \in 1..n}
  BY <1>2 DEF Range
<1>5. AllRows = FlattenSeq(seqs)
  BY DEF AllRows
<1> HIDE DEF n, seqs
<1>6. AllRows \in Seq(RowSet) /\ Joined(AllRows, seqs, n)
  BY <1>2, <1>3, <1>5, FlattenIs
<1>7. Apart(seqs, n)
  <2> SUFFICES ASSUME NEW i \in 1..n, NEW k \in 1..n, NEW j \in 1..Len(seqs[i]), NEW l \in 1..Len(seqs[k]),
                      seqs[i][j][1] = seqs[k][l][1]
               PROVE  i = k /\ j = l
    BY DEF Apart
  <2>1. seqs[i] = rows[posts[i]] /\ seqs[k] = rows[posts[k]] /\ posts[i] \in 1..Shards /\ posts[k] \in 1..Shards
    BY <1>2, <1>3
  <2>2. rows[posts[i]][j][1] = Slice(posts[i])[j] /\ rows[posts[k]][l][1] = Slice(posts[k])[l]
    <3>1. \A r \in 1..Shards : \A q \in 1..Len(rows[r]) : rows[r][q][1] = Slice(r)[q]
      BY <1>1
    <3>2. j \in 1..Len(rows[posts[i]]) /\ l \in 1..Len(rows[posts[k]])
      BY <2>1
    <3> QED BY <2>1, <3>1, <3>2
  <2>3. j \in 1..Len(Slice(posts[i])) /\ l \in 1..Len(Slice(posts[k]))
    <3>1. /\ Len(rows[posts[i]]) \in Nat /\ Len(Slice(posts[i])) \in Nat
          /\ Len(rows[posts[k]]) \in Nat /\ Len(Slice(posts[k])) \in Nat
      <4>1. \A m \in 1..Shards : rows[m] \in Seq(RowSet)
        BY <1>1
      <4>2. \A m \in 1..Shards : Len(rows[m]) \in Nat
        BY <4>1
      <4>3. \A m \in 1..Shards : Len(Slice(m)) \in Nat
        <5>1. current \in Setting
          BY DEF Contested
        <5> QED BY <5>1, SliceIs
      <4> QED BY <2>1, <4>2, <4>3
    <3>2. Len(rows[posts[i]]) <= Len(Slice(posts[i])) /\ Len(rows[posts[k]]) <= Len(Slice(posts[k]))
      BY <1>1, <2>1
    <3> QED BY <2>1, <3>1, <3>2
  <2>4. Slice(posts[i])[j] = Slice(posts[k])[l]
    BY <2>1, <2>2
  <2>5. posts[i] = posts[k] /\ j = l
    BY <2>1, <2>3, <2>4, SlicesShare DEF Contested
  <2> QED BY <1>1, <2>5 DEF n
<1>8. \A p \in 1..Len(AllRows) : \E k \in 1..Shards : \E j \in 1..Len(rows[k]) : AllRows[p] = rows[k][j]
  <2> TAKE p \in 1..Len(AllRows)
  <2>1. PICK i \in 1..n : \E j \in 1..Len(seqs[i]) : AllRows[p] = seqs[i][j]
    BY <1>6 DEF Joined
  <2> QED BY <1>2, <1>3, <2>1
<1>9. \A k \in Range(posts) : \A j \in 1..Len(rows[k]) : \E p \in 1..Len(AllRows) : AllRows[p] = rows[k][j]
  <2> TAKE k \in Range(posts)
  <2>1. PICK i \in 1..n : k = posts[i]
    BY <1>4
  <2>2. seqs[i] = rows[k]
    BY <1>3, <2>1
  <2>3. \A j \in 1..Len(seqs[i]) : \E p \in 1..Len(AllRows) : AllRows[p] = seqs[i][j]
    BY <1>6 DEF Joined
  <2> QED BY <2>2, <2>3
<1>10. \A p, q \in 1..Len(AllRows) : AllRows[p][1] = AllRows[q][1] => p = q
  BY <1>6, <1>7 DEF Joined
<1> QED BY <1>6, <1>8, <1>9, <1>10

(* Of a whole contest every candidate is among the rows, with its score. *)
LEMMA WholeContest ==
  ASSUME Contested, CloudInv, mode = "cloud", Uncut
  PROVE  /\ \A x \in Jobs : \E p \in 1..Len(AllRows) : AllRows[p] = Row(x)
         /\ \A p \in 1..Len(AllRows) : \E x \in Jobs : AllRows[p] = Row(x)
<1>1. \A k \in 1..Shards : /\ k \in Range(posts) /\ Len(rows[k]) = Len(Slice(k))
                           /\ \A i \in 1..Len(rows[k]) : rows[k][i] = Row(Slice(k)[i])
  BY DEF CloudInv, Uncut
<1>2. ASSUME NEW x \in Jobs PROVE \E p \in 1..Len(AllRows) : AllRows[p] = Row(x)
  <2>1. PICK k \in 1..Shards : \E i \in 1..Len(Slice(k)) : Slice(k)[i] = x
    BY SlicesShare DEF Contested
  <2>2. PICK i \in 1..Len(Slice(k)) : Slice(k)[i] = x
    BY <2>1
  <2>3. k \in Range(posts) /\ i \in 1..Len(rows[k]) /\ rows[k][i] = Row(x)
    BY <1>1, <2>2
  <2>4. PICK p \in 1..Len(AllRows) : AllRows[p] = rows[k][i]
    BY <2>3, MergedRows
  <2> QED BY <2>3, <2>4
<1>3. ASSUME NEW p \in 1..Len(AllRows) PROVE \E x \in Jobs : AllRows[p] = Row(x)
  <2>1. PICK k \in 1..Shards : \E j \in 1..Len(rows[k]) : AllRows[p] = rows[k][j]
    BY MergedRows
  <2>2. PICK j \in 1..Len(rows[k]) : AllRows[p] = rows[k][j]
    BY <2>1
  <2>3. AllRows[p] = Row(Slice(k)[j])
    BY <1>1, <2>2
  <2>4. Slice(k) \in Seq(Jobs) /\ j \in 1..Len(Slice(k))
    BY <1>1, <2>2, SliceIs DEF Contested
  <2>5. Slice(k)[j] \in Jobs
    BY <2>4
  <2> QED BY <2>3, <2>5
<1> QED BY <1>2, <1>3

LEMMA OnceEach == Contested /\ CloudInv => EachCandidateOnce
<1> SUFFICES ASSUME Contested, CloudInv, mode = "cloud" PROVE EachCandidateOnce
  BY DEF EachCandidateOnce
<1>1. AllRows \in Seq(RowSet) /\ DOMAIN AllRows = 1..Len(AllRows)
  <2>1. AllRows \in Seq(RowSet)
    BY MergedRows
  <2> HIDE DEF AllRows
  <2> QED BY <2>1
<1>2. \A i, j \in DOMAIN AllRows : AllRows[i][1] = AllRows[j][1] => i = j
  BY <1>1, MergedRows
<1>3. ASSUME Uncut PROVE {r[1] : r \in Range(AllRows)} = Jobs
  <2>1. \A j \in Jobs : Row(j)[1] = j
    BY DEF Row
  <2>2. Range(AllRows) = {AllRows[p] : p \in 1..Len(AllRows)}
    BY <1>1 DEF Range
  <2>3. /\ \A x \in Jobs : \E p \in 1..Len(AllRows) : AllRows[p] = Row(x)
        /\ \A p \in 1..Len(AllRows) : \E x \in Jobs : AllRows[p] = Row(x)
    BY <1>3, WholeContest
  <2> QED BY <2>1, <2>2, <2>3
<1> QED BY <1>2, <1>3 DEF EachCandidateOnce

(* A row has numbers to be ranked by. *)
LEMMA RowNumbers ==
  ASSUME Contested, mode \in {"cloud", "sweep"}, NEW r \in RowSet
  PROVE  /\ r[2] \in Nat /\ r[1][1] \in Nat /\ r[1] \in Jobs /\ r = <<r[1], r[2]>>
         /\ Rank(r) \in {0, 1} /\ (Rank(r) = 0 <=> r[1] = current)
<1>1. r[2] \in Nat
  BY MarksAreNumbers DEF RowSet
<1>2. r[1] \in (Candidates \cup {current[1]}) \X BOOLEAN /\ r = <<r[1], r[2]>>
  BY DEF RowSet, Jobs
<1>3. current[1] \in 0..100
  BY DEF Contested, Setting
<1>4. r[1][1] \in Nat
  BY <1>2, <1>3, ContestAssumption
<1> QED BY <1>1, <1>2, <1>4 DEF Rank, Jobs

LEMMA WinsFairly == Contested /\ CloudInv => FairWinner
<1> SUFFICES ASSUME Contested, CloudInv, mode = "cloud", at = "done", NEW r \in Range(AllRows), r[2] # NoPlan
             PROVE  /\ out # None /\ r[2] >= out[2]
                    /\ r[1] = current /\ r[2] = out[2] => out = r
  BY DEF FairWinner
<1> DEFINE rs == AllRows
           n == Len(AllRows)
<1>1. rs \in Seq(RowSet)
  BY MergedRows
<1>2. out = PickWinner(rs)
  BY DEF CloudInv
<1> HIDE DEF rs
<1>3. n \in Nat /\ DOMAIN rs = 1..n /\ \A i \in 1..n : rs[i] \in RowSet
  BY <1>1 DEF rs
<1>4. \A i \in 1..n : rs[i][2] \in Nat /\ rs[i][1][1] \in Nat
  BY <1>3, RowNumbers
<1>5. PICK i \in 1..n : r = rs[i]
  BY <1>3 DEF Range, rs
<1>6. i \in Whole(rs)
  BY <1>3, <1>5 DEF Whole
<1> HIDE DEF n
<1>7. \E w \in Whole(rs) : PickWinner(rs) = rs[w] /\ \A j \in Whole(rs) \ {w} : Ahead(rs[w], rs[j], w, j)
  BY <1>3, <1>4, <1>6, WinnerIs
<1>8. PICK w \in Whole(rs) : out = rs[w] /\ \A j \in Whole(rs) \ {w} : Ahead(rs[w], rs[j], w, j)
  BY <1>2, <1>7
<1>9. w \in 1..n /\ rs[w] \in RowSet /\ r \in RowSet
  BY <1>3, <1>5, <1>8 DEF Whole
<1>10. out # None
  <2>1. out = <<out[1], out[2]>>
    BY <1>8, <1>9, RowNumbers
  <2> QED BY <2>1 DEF None
<1>11. CASE w = i
  <2>1. r = out /\ r[2] \in Nat
    BY <1>5, <1>8, <1>9, <1>11, RowNumbers
  <2> QED BY <1>10, <2>1
<1>12. CASE w # i
  <2>1. Ahead(out, r, w, i)
    BY <1>5, <1>6, <1>8, <1>12
  <2>2. /\ out[2] \in Nat /\ r[2] \in Nat /\ out = <<out[1], out[2]>> /\ r = <<r[1], r[2]>>
        /\ Rank(out) \in {0, 1} /\ (Rank(out) = 0 <=> out[1] = current)
        /\ Rank(r) \in {0, 1} /\ (Rank(r) = 0 <=> r[1] = current)
    BY <1>8, <1>9, RowNumbers
  <2>3. r[2] >= out[2]
    BY <2>1, <2>2 DEF Ahead
  <2>4. ASSUME r[1] = current, r[2] = out[2] PROVE out = r
    <3>1. Rank(out) = 0
      BY <2>1, <2>2, <2>4 DEF Ahead
    <3> QED BY <2>2, <2>4, <3>1
  <2> QED BY <1>10, <2>3, <2>4
<1> QED BY <1>11, <1>12

AsGood(w, v) ==
    \/ w = v
    \/ w # None /\ v # None /\ current \notin {w[1], v[1]} /\ w[2] = v[2] /\ w[1][1] = v[1][1]

(* The same rows have the same winner in whatever order they come, unless     *)
(* two machine sets tie.                                                    *)
LEMMA TwoWinners ==
  ASSUME Contested, mode \in {"cloud", "sweep"},
         NEW n \in Nat, NEW rs, DOMAIN rs = 1..n, \A i \in 1..n : rs[i] \in RowSet,
         NEW m \in Nat, NEW ts, DOMAIN ts = 1..m, \A j \in 1..m : ts[j] \in RowSet,
         \A i \in 1..n : \E j \in 1..m : ts[j] = rs[i],
         \A j \in 1..m : \E i \in 1..n : rs[i] = ts[j]
  PROVE  AsGood(PickWinner(rs), PickWinner(ts))
<1> DEFINE w == PickWinner(rs)
           v == PickWinner(ts)
<1>1. (\A i \in 1..n : rs[i][2] \in Nat /\ rs[i][1][1] \in Nat) /\ (\A j \in 1..m : ts[j][2] \in Nat /\ ts[j][1][1] \in Nat)
  BY RowNumbers
<1>2. CASE Whole(rs) = {}
  <2>1. Whole(ts) = {}
    <3>1. \A i \in 1..n : rs[i][2] = NoPlan
      BY <1>2 DEF Whole
    <3>2. ASSUME NEW j \in 1..m PROVE ts[j][2] = NoPlan
      <4>1. PICK i \in 1..n : rs[i] = ts[j]
        OBVIOUS
      <4> QED BY <3>1, <4>1
    <3> QED BY <3>2 DEF Whole
  <2>2. w = None
    BY <1>1, <1>2, WinnerIs
  <2>3. v = None
    BY <1>1, <2>1, WinnerIs
  <2> QED BY <2>2, <2>3 DEF AsGood
<1>3. CASE Whole(rs) # {}
  <2>1. Whole(ts) # {}
    <3>1. PICK i \in 1..n : rs[i][2] # NoPlan
      BY <1>3 DEF Whole
    <3>2. PICK j \in 1..m : ts[j] = rs[i]
      OBVIOUS
    <3> QED BY <3>1, <3>2 DEF Whole
  <2>2. PICK i \in Whole(rs) : w = rs[i] /\ \A j \in Whole(rs) \ {i} : Ahead(rs[i], rs[j], i, j)
    BY <1>1, <1>3, WinnerIs
  <2>3. PICK k \in Whole(ts) : v = ts[k] /\ \A j \in Whole(ts) \ {k} : Ahead(ts[k], ts[j], k, j)
    BY <1>1, <2>1, WinnerIs
  <2> HIDE DEF w, v
  <2>4. i \in 1..n /\ k \in 1..m /\ w \in RowSet /\ v \in RowSet
    BY <2>2, <2>3 DEF Whole
  <2>5. PICK j \in 1..m : ts[j] = w
    BY <2>2, <2>4
  <2>6. PICK l \in 1..n : rs[l] = v
    BY <2>3, <2>4
  <2>7. j \in Whole(ts) /\ l \in Whole(rs)
    BY <2>2, <2>3, <2>5, <2>6 DEF Whole
  <2>8. w = v \/ (Ahead(w, v, i, l) /\ Ahead(v, w, k, j))
    <3>1. CASE l = i
      BY <2>2, <2>6, <3>1
    <3>2. CASE j = k
      BY <2>3, <2>5, <3>2
    <3>3. CASE l # i /\ j # k
      BY <2>2, <2>3, <2>5, <2>6, <2>7, <3>3
    <3> QED BY <3>1, <3>2, <3>3
  <2>9. /\ w[2] \in Nat /\ w[1][1] \in Nat /\ w = <<w[1], w[2]>> /\ Rank(w) \in {0, 1} /\ (Rank(w) = 0 <=> w[1] = current)
        /\ v[2] \in Nat /\ v[1][1] \in Nat /\ v = <<v[1], v[2]>> /\ Rank(v) \in {0, 1} /\ (Rank(v) = 0 <=> v[1] = current)
    BY <2>4, RowNumbers
  <2>10. ASSUME Ahead(w, v, i, l), Ahead(v, w, k, j)
         PROVE  w = v \/ (current \notin {w[1], v[1]} /\ w[2] = v[2] /\ w[1][1] = v[1][1])
    <3>1. w[2] = v[2] /\ Rank(w) = Rank(v) /\ w[1][1] = v[1][1]
      <4> DEFINE w1 == w[2]
                 v1 == v[2]
                 w2 == Rank(w)
                 v2 == Rank(v)
                 w3 == w[1][1]
                 v3 == v[1][1]
      <4>1. /\ w1 < v1 \/ (w1 = v1 /\ (w2 < v2 \/ (w2 = v2 /\ (w3 < v3 \/ (w3 = v3 /\ i < l)))))
            /\ v1 < w1 \/ (v1 = w1 /\ (v2 < w2 \/ (v2 = w2 /\ (v3 < w3 \/ (v3 = w3 /\ k < j)))))
        BY <2>10 DEF Ahead
      <4>2. /\ w1 \in Nat /\ v1 \in Nat /\ w2 \in Nat /\ v2 \in Nat /\ w3 \in Nat /\ v3 \in Nat
        <5>1. w1 \in Nat /\ v1 \in Nat /\ w3 \in Nat /\ v3 \in Nat
          BY <2>9, Zenon
        <5>2. Rank(w) \in {0, 1} /\ Rank(v) \in {0, 1}
          BY <2>9, Zenon
        <5>3. w2 \in {0, 1} /\ v2 \in {0, 1}
          BY <5>2, Zenon
        <5> HIDE DEF w1, v1, w2, v2, w3, v3
        <5> QED BY <5>1, <5>3, Z3
      <4> HIDE DEF w1, v1, w2, v2, w3, v3
      <4>3. w1 = v1 /\ w2 = v2 /\ w3 = v3
        BY <4>1, <4>2
      <4> QED BY <4>3 DEF w1, v1, w2, v2, w3, v3
    <3>2. CASE Rank(w) = 0
      <4>1. w[1] = current /\ v[1] = current
        BY <2>9, <3>1, <3>2
      <4> QED BY <2>9, <3>1, <4>1
    <3>3. CASE Rank(w) = 1
      <4>1. w[1] # current /\ v[1] # current
        BY <2>9, <3>1, <3>3
      <4> QED BY <3>1, <4>1
    <3> QED BY <2>9, <3>2, <3>3
  <2>11. w # None /\ v # None
    <3>1. <<w[1], w[2]>> # <<>> /\ <<v[1], v[2]>> # <<>>
      OBVIOUS
    <3> QED BY <2>9, <3>1 DEF None
  <2>12. AsGood(w, v)
    BY <2>8, <2>10, <2>11 DEF AsGood
  <2> QED BY <2>12 DEF w, v
<1> QED BY <1>2, <1>3

LEMMA SameWinner == Contested /\ CloudInv => SameAsOneProcess
<1> SUFFICES ASSUME Contested, CloudInv, mode = "cloud", at = "done", Uncut
             PROVE  \/ out = RunContest
                    \/ /\ out # None /\ RunContest # None /\ current \notin {out[1], RunContest[1]}
                       /\ out[2] = RunContest[2] /\ out[1][1] = RunContest[1][1]
  BY DEF SameAsOneProcess
<1> DEFINE rs == AllRows
           n == Len(rs)
           ts == [i \in DOMAIN ContestJobs |-> Row(ContestJobs[i])]
           m == 2 * Others
<1>1. rs \in Seq(RowSet)
  BY MergedRows
<1>2. out = PickWinner(rs) /\ RunContest = PickWinner(ts)
  BY DEF CloudInv, RunContest
<1>3. /\ \A x \in Jobs : \E p \in 1..n : rs[p] = Row(x)
      /\ \A p \in 1..n : \E x \in Jobs : rs[p] = Row(x)
  BY WholeContest
<1>4. /\ Others \in Nat /\ ContestJobs \in [1..m -> Jobs]
      /\ \A j \in Jobs : \E p \in 1..m : ContestJobs[p] = j
  BY ContendersAre, JobsAre DEF Contested
<1>5. \A j \in Jobs : Row(j) \in RowSet
  BY DEF Contested, Row, RowSet
<1>6. m \in Nat /\ DOMAIN ts = 1..m /\ \A j \in 1..m : ts[j] = Row(ContestJobs[j]) /\ ts[j] \in RowSet
  BY <1>4, <1>5
<1> HIDE DEF rs, ts, m
<1>7. n \in Nat /\ DOMAIN rs = 1..n /\ \A i \in 1..n : rs[i] \in RowSet
  BY <1>1
<1> HIDE DEF n
<1>8. ASSUME NEW i \in 1..n PROVE \E j \in 1..m : ts[j] = rs[i]
  <2>1. PICK x \in Jobs : rs[i] = Row(x)
    BY <1>3
  <2>2. PICK p \in 1..m : ContestJobs[p] = x
    BY <1>4
  <2> QED BY <1>6, <2>1, <2>2
<1>9. ASSUME NEW j \in 1..m PROVE \E i \in 1..n : rs[i] = ts[j]
  <2>1. ContestJobs[j] \in Jobs /\ ts[j] = Row(ContestJobs[j])
    BY <1>4, <1>6
  <2> QED BY <1>3, <2>1
<1>10. AsGood(PickWinner(rs), PickWinner(ts))
  BY <1>6, <1>7, <1>8, <1>9, TwoWinners
<1> HIDE DEF RunContest
<1> QED BY <1>2, <1>10 DEF AsGood

-----------------------------------------------------------------------------
(* The classic sweep.                                                       *)

(* r is the first of the best rows with a plan. *)
BestSoFar(rs, r) ==
    /\ r = None => \A i \in 1..Len(rs) : rs[i][2] = NoPlan
    /\ r # None => \E i \in 1..Len(rs) :
            /\ r = rs[i] /\ r[2] # NoPlan
            /\ \A j \in 1..Len(rs) : rs[j][2] # NoPlan => r[2] < rs[j][2] \/ (r[2] = rs[j][2] /\ i <= j)

SweepInv ==
    mode = "sweep" =>
        /\ log \in Seq(RowSet) /\ Len(log) <= Others
        /\ \A i \in 1..Len(log) : log[i][1] = <<SweepContenders[i], FALSE>>
        /\ BestSoFar(log, out)

LEMMA SweepStarts == Init /\ Contested => SweepInv
<1> SUFFICES ASSUME Init, Contested, mode = "sweep" PROVE SweepInv
  BY DEF SweepInv
<1>1. log = <<>> /\ out = None
  BY DEF Init
<1>2. log \in Seq(RowSet) /\ Len(log) = 0 /\ 1..Len(log) = {}
  BY <1>1
<1>3. Others \in Nat
  BY ContendersAre DEF Contested
<1> QED BY <1>1, <1>2, <1>3 DEF SweepInv, BestSoFar

(* A row more is taken if its score is better. *)
LEMMA NextBest ==
  ASSUME Contested, mode = "sweep", NEW rs \in Seq(RowSet), NEW r \in RowSet, NEW w, BestSoFar(rs, w)
  PROVE  BestSoFar(Append(rs, r), IF r[2] # NoPlan /\ (w = None \/ r[2] < w[2]) THEN r ELSE w)
<1> DEFINE ts == Append(rs, r)
           n == Len(rs)
           v == IF r[2] # NoPlan /\ (w = None \/ r[2] < w[2]) THEN r ELSE w
<1>1. n \in Nat /\ Len(ts) = n + 1 /\ ts[n + 1] = r /\ \A i \in 1..n : ts[i] = rs[i] /\ rs[i] \in RowSet
  OBVIOUS
<1>2. \A x \in RowSet : x[2] \in Nat /\ x # None
  <2>1. \A x \in RowSet : x[2] \in Nat /\ x = <<x[1], x[2]>>
    BY RowNumbers
  <2> QED BY <2>1 DEF None
<1> HIDE DEF ts
<1>3. \A i \in 1..Len(ts) : i = n + 1 \/ i \in 1..n
  BY <1>1
<1>4. n + 1 \in 1..Len(ts) /\ \A i \in 1..n : i \in 1..Len(ts)
  BY <1>1
<1>5. CASE w = None
  <2>1. \A i \in 1..n : ts[i][2] = NoPlan
    BY <1>1, <1>5 DEF BestSoFar
  <2>2. CASE r[2] = NoPlan
    <3>1. v = None
      BY <1>5, <2>2
    <3>2. \A i \in 1..Len(ts) : ts[i][2] = NoPlan
      BY <1>1, <1>3, <2>1, <2>2
    <3> HIDE DEF v
    <3>3. BestSoFar(ts, v)
      BY <3>1, <3>2 DEF BestSoFar
    <3> QED BY <3>3 DEF ts, v
  <2>3. CASE r[2] # NoPlan
    <3>1. v = r
      BY <1>5, <2>3
    <3>2. \A j \in 1..Len(ts) : ts[j][2] # NoPlan => j = n + 1
      BY <1>3, <2>1
    <3>3. \A j \in 1..Len(ts) : ts[j][2] # NoPlan => r[2] < ts[j][2] \/ (r[2] = ts[j][2] /\ n + 1 <= j)
      BY <1>1, <3>2
    <3> HIDE DEF v
    <3>4. BestSoFar(ts, v)
      BY <1>1, <1>2, <1>4, <2>3, <3>1, <3>3 DEF BestSoFar
    <3> QED BY <3>4 DEF ts, v
  <2> QED BY <2>2, <2>3
<1>6. CASE w # None
  <2>1. PICK i \in 1..n :
            /\ w = rs[i] /\ w[2] # NoPlan
            /\ \A j \in 1..n : rs[j][2] # NoPlan => w[2] < rs[j][2] \/ (w[2] = rs[j][2] /\ i <= j)
    BY <1>6 DEF BestSoFar
  <2>2. w \in RowSet /\ w = ts[i] /\ w[2] \in Nat /\ r[2] \in Nat
    BY <1>1, <1>2, <2>1
  <2>3. \A j \in 1..n : ts[j][2] # NoPlan => w[2] < ts[j][2] \/ (w[2] = ts[j][2] /\ i <= j)
    BY <1>1, <2>1
  <2>4. CASE r[2] # NoPlan /\ r[2] < w[2]
    <3>1. v = r
      BY <2>4
    <3>2. ASSUME NEW j \in 1..Len(ts), ts[j][2] # NoPlan
          PROVE  r[2] < ts[j][2] \/ (r[2] = ts[j][2] /\ n + 1 <= j)
      <4>1. CASE j = n + 1
        BY <1>1, <4>1
      <4>2. CASE j \in 1..n
        <5>1. ts[j][2] \in Nat
          BY <1>1, <1>2, <4>2
        <5> QED BY <2>2, <2>3, <2>4, <3>2, <4>2, <5>1
      <4> QED BY <1>3, <4>1, <4>2
    <3> HIDE DEF v
    <3>3. BestSoFar(ts, v)
      BY <1>1, <1>2, <1>4, <2>4, <3>1, <3>2 DEF BestSoFar
    <3> QED BY <3>3 DEF ts, v
  <2>5. CASE ~(r[2] # NoPlan /\ r[2] < w[2])
    <3>1. v = w
      BY <1>6, <2>5
    <3>2. ASSUME NEW j \in 1..Len(ts), ts[j][2] # NoPlan
          PROVE  w[2] < ts[j][2] \/ (w[2] = ts[j][2] /\ i <= j)
      <4>1. CASE j = n + 1
        <5>1. ts[j] = r /\ i <= j
          BY <1>1, <4>1
        <5> QED BY <2>2, <2>5, <3>2, <5>1
      <4>2. CASE j \in 1..n
        BY <2>3, <3>2, <4>2
      <4> QED BY <1>3, <4>1, <4>2
    <3> HIDE DEF v
    <3>3. BestSoFar(ts, v)
      BY <1>4, <1>6, <2>1, <2>2, <3>1, <3>2 DEF BestSoFar
    <3> QED BY <3>3 DEF ts, v
  <2> QED BY <2>4, <2>5
<1> QED BY <1>5, <1>6

LEMMA SweepStays == Contested /\ SweepInv /\ [Next]_vars => SweepInv'
<1> SUFFICES ASSUME Contested, SweepInv, [Next]_vars PROVE SweepInv'
  OBVIOUS
<1>1. Kept
  BY EveryStepKeeps
<1> SUFFICES ASSUME mode = "sweep" PROVE SweepInv'
  BY <1>1 DEF Kept, SweepInv
<1>2. RowSet' = RowSet /\ Others' = Others /\ SweepContenders' = SweepContenders /\ NoPlan' = NoPlan /\ None' = None
  BY <1>1 DEF Kept, RowSet, Jobs, Marks, Others, SweepContenders, NoPlan, None
<1>3. /\ Others \in Nat /\ Len(SweepContenders) = Others
      /\ \A i \in 1..Others : SweepContenders[i] \in Candidates \cup {current[1]}
  BY ContendersAre DEF Contested
<1>4. ASSUME log' = log, out' = out PROVE SweepInv'
  BY <1>1, <1>2, <1>4 DEF SweepInv, Kept, BestSoFar
<1>5. ASSUME SweepNext PROVE SweepInv'
  <2> DEFINE j == <<SweepContenders[Len(log) + 1], FALSE>>
  <2>1. Len(log) < Len(SweepContenders)
    BY <1>5 DEF SweepNext
  <2>2. PICK r \in Cut(j) :
           /\ log' = Append(log, r)
           /\ out' = IF r[2] # NoPlan /\ (out = None \/ r[2] < out[2]) THEN r ELSE out
    BY <1>5 DEF SweepNext
  <2>3. log \in Seq(RowSet) /\ Len(log) \in Nat /\ BestSoFar(log, out)
    BY DEF SweepInv
  <2>4. Len(log) + 1 \in 1..Others
    BY <1>3, <2>1, <2>3
  <2>5. j \in Jobs
    BY <1>3, <2>4 DEF Jobs
  <2>6. r \in RowSet /\ r[1] = j
    <3> HIDE DEF j
    <3>1. PICK v \in Marks : r = <<j, v>>
      BY DEF Cut, Marks
    <3> QED BY <2>5, <3>1 DEF RowSet
  <2>7. /\ log' \in Seq(RowSet) /\ Len(log') = Len(log) + 1 /\ log'[Len(log) + 1] = r
        /\ \A i \in 1..Len(log) : log'[i] = log[i]
    BY <2>2, <2>3, <2>6
  <2>8. \A i \in 1..Len(log') : log'[i][1] = <<SweepContenders[i], FALSE>>
    <3> TAKE i \in 1..Len(log')
    <3>1. i = Len(log) + 1 \/ i \in 1..Len(log)
      BY <2>3, <2>7
    <3> QED BY <2>6, <2>7, <3>1 DEF SweepInv
  <2>9. BestSoFar(log', out')
    BY <2>2, <2>3, <2>6, NextBest
  <2>10. BestSoFar(log, out)' = BestSoFar(log', out')
    BY <1>2 DEF BestSoFar
  <2>11. log' \in Seq(RowSet') /\ Len(log') <= Others'
    BY <1>2, <1>3, <2>3, <2>4, <2>7
  <2>12. \A i \in 1..Len(log') : log'[i][1] = <<SweepContenders'[i], FALSE>>
    BY <1>2, <2>8
  <2>13. BestSoFar(log, out)'
    BY <2>9, <2>10
  <2> QED BY <2>11, <2>12, <2>13, Zenon DEF SweepInv
<1>6. ASSUME SweepEnds \/ Cancel \/ Cleared \/ Idle \/ UNCHANGED vars PROVE SweepInv'
  BY <1>4, <1>6 DEF SweepEnds, Cancel, Cleared, Idle, vars
<1>7. ASSUME NEW k \in 1..Shards, ShardPosts(k) \/ ShardFails(k) PROVE SweepInv'
  BY <1>7 DEF ShardPosts, ShardFails
<1>8. ASSUME Merge \/ MatrixPosts \/ Reduce \/ Apply PROVE SweepInv'
  BY <1>8 DEF Merge, MatrixPosts, Reduce, Apply
<1>9. ASSUME CoarseProbe \/ Bracket \/ GoldenProbe \/ Narrow \/ Narrowed \/ Tuned PROVE SweepInv'
  <2>1. at \notin {"coarse", "bracket", "golden", "tuned"}
    BY DEF Contested, Stages
  <2> QED BY <1>9, <2>1 DEF CoarseProbe, Bracket, GoldenProbe, Narrow, Narrowed, Tuned
<1> QED BY <1>5, <1>6, <1>7, <1>8, <1>9 DEF Next, Step

(* Of equal scores the sweep has kept the setting in force, which it tried    *)
(* first, else the smallest overlap: so does the rule of the cloud.          *)
LEMMA SweepDoes == Contested /\ SweepInv => SweepAgrees
<1> SUFFICES ASSUME Contested, SweepInv, mode = "sweep" PROVE out = PickWinner(log)
  BY DEF SweepAgrees
<1> DEFINE n == Len(log)
<1>1. /\ log \in Seq(RowSet) /\ n <= Others /\ \A i \in 1..n : log[i][1] = <<SweepContenders[i], FALSE>>
      /\ BestSoFar(log, out)
  BY DEF SweepInv
<1>2. n \in Nat /\ DOMAIN log = 1..n /\ \A i \in 1..n : log[i] \in RowSet
  BY <1>1
<1>3. \A i \in 1..n : log[i][2] \in Nat /\ log[i][1][1] \in Nat
  BY <1>2, RowNumbers
<1>4. CASE out = None
  <2>1. Whole(log) = {}
    BY <1>1, <1>2, <1>4 DEF Whole, BestSoFar
  <2> QED BY <1>2, <1>3, <1>4, <2>1, WinnerIs
<1>5. CASE out # None
  <2>1. PICK i \in 1..n :
            /\ out = log[i] /\ out[2] # NoPlan
            /\ \A j \in 1..n : log[j][2] # NoPlan => out[2] < log[j][2] \/ (out[2] = log[j][2] /\ i <= j)
    BY <1>1, <1>5 DEF BestSoFar
  <2>2. i \in Whole(log)
    BY <1>2, <2>1 DEF Whole
  <2>3. /\ Others \in Nat /\ SweepContenders[1] = current[1]
        /\ \A k \in 2..Others : SweepContenders[k] # current[1]
        /\ \A k, l \in 2..Others : k < l => SweepContenders[k] < SweepContenders[l]
    BY ContendersAre DEF Contested
  <2>4. current = <<current[1], FALSE>>
    <3>1. current \in Setting /\ current[2] = FALSE
      BY DEF Contested
    <3>2. PICK x \in 0..100, y \in BOOLEAN : current = <<x, y>>
      BY <3>1 DEF Setting
    <3> QED BY <3>1, <3>2
  <2>5. ASSUME NEW j \in Whole(log) \ {i} PROVE Ahead(log[i], log[j], i, j)
    <3>1. j \in 1..n /\ log[j][2] # NoPlan /\ j # i
      BY <1>2 DEF Whole
    <3>2. log[i][2] < log[j][2] \/ (log[i][2] = log[j][2] /\ i <= j)
      BY <2>1, <3>1
    <3>3. CASE log[i][2] = log[j][2] /\ i < j
      <4>1. j \in 2..Others /\ i \in 1..Others
        BY <1>1, <1>2, <2>3, <3>1, <3>3
      <4>2. log[i][1] = <<SweepContenders[i], FALSE>> /\ log[j][1] = <<SweepContenders[j], FALSE>>
        BY <1>1, <3>1
      <4>3. Rank(log[j]) = 1
        BY <2>3, <2>4, <4>1, <4>2 DEF Rank
      <4>4. CASE i = 1
        <5>1. Rank(log[i]) = 0
          BY <2>3, <2>4, <4>2, <4>4 DEF Rank
        <5> QED BY <3>3, <4>3, <5>1 DEF Ahead
      <4>5. CASE i # 1
        <5>1. i \in 2..Others
          BY <4>1, <4>5
        <5>2. Rank(log[i]) = 1
          BY <2>3, <2>4, <4>2, <5>1 DEF Rank
        <5>3. log[i][1][1] < log[j][1][1]
          BY <2>3, <3>3, <4>1, <4>2, <5>1
        <5> QED BY <3>3, <4>3, <5>2, <5>3 DEF Ahead
      <4> QED BY <4>4, <4>5
    <3>4. CASE log[i][2] < log[j][2]
      BY <3>4 DEF Ahead
    <3>5. i <= j => i < j
      BY <1>2, <3>1
    <3> QED BY <3>2, <3>3, <3>4, <3>5
  <2> HIDE DEF n
  <2>6. PickWinner(log) = log[i]
    BY <1>2, <1>3, <2>2, <2>5, WinnerIs
  <2> QED BY <2>1, <2>6
<1> QED BY <1>4, <1>5

-----------------------------------------------------------------------------
(* The matrix of jobs.                                                      *)

(* The first by two numbers, and by three. *)
ByTwo(S, f, g) == CHOOSE x \in S : \A y \in S \ {x} : Lex(<<f[x], g[x]>>, <<f[y], g[y]>>)
ByThree(S, f, g, h) ==
    CHOOSE x \in S : \A y \in S \ {x} : Lex(<<f[x], g[x], h[x]>>, <<f[y], g[y], h[y]>>)

LEMMA ByTwoIs ==
  ASSUME NEW S, S # {}, NEW f \in [S -> Nat], NEW g \in [S -> Nat],
         \A x, y \in S : g[x] = g[y] => x = y
  PROVE  /\ ByTwo(S, f, g) \in S
         /\ \A y \in S \ {ByTwo(S, f, g)} :
               \/ f[ByTwo(S, f, g)] < f[y]
               \/ f[ByTwo(S, f, g)] = f[y] /\ g[ByTwo(S, f, g)] < g[y]
<1> DEFINE K == [x \in S |-> <<f[x], g[x]>>]
           b2 == ByTwo(S, f, g)
<1>1. ASSUME NEW x \in S PROVE K[x] \in [1..2 -> Nat] /\ K[x] = <<f[x], g[x]>>
  <2>1. f[x] \in Nat /\ g[x] \in Nat
    OBVIOUS
  <2>2. <<f[x], g[x]>> \in [1..2 -> Nat]
    BY <2>1
  <2> QED BY <2>2
<1>2. Keys(S, 2, K)
  <2>1. K \in [S -> [1..2 -> Nat]]
    BY <1>1
  <2>2. ASSUME NEW x \in S, NEW y \in S, K[x] = K[y] PROVE x = y
    <3> HIDE DEF K
    <3>1. g[x] = g[y]
      BY <1>1, <2>2
    <3> QED BY <3>1
  <2> HIDE DEF K
  <2> QED BY <2>1, <2>2 DEF Keys
<1> HIDE DEF K
<1>3. \E x \in S : \A y \in S \ {x} : Lex(<<f[x], g[x]>>, <<f[y], g[y]>>)
  <2>1. PICK x : First(S, K, x)
    BY <1>2, FirstExists
  <2>2. x \in S /\ \A y \in S \ {x} : Lex(K[x], K[y])
    BY <2>1 DEF First
  <2>3. ASSUME NEW y \in S \ {x} PROVE Lex(<<f[x], g[x]>>, <<f[y], g[y]>>)
    <3>1. K[x] = <<f[x], g[x]>> /\ K[y] = <<f[y], g[y]>> /\ Lex(K[x], K[y])
      BY <1>1, <2>2
    <3> QED BY <3>1
  <2> QED BY <2>2, <2>3
<1>4. b2 \in S /\ \A y \in S \ {b2} : Lex(<<f[b2], g[b2]>>, <<f[y], g[y]>>)
  BY <1>3 DEF ByTwo
<1> HIDE DEF b2
<1>5. ASSUME NEW y \in S \ {b2} PROVE f[b2] < f[y] \/ (f[b2] = f[y] /\ g[b2] < g[y])
  <2>1. <<f[b2], g[b2]>> \in [1..2 -> Nat] /\ <<f[y], g[y]>> \in [1..2 -> Nat]
    BY <1>1, <1>4
  <2>2. Lex(<<f[b2], g[b2]>>, <<f[y], g[y]>>)
    BY <1>4
  <2> DEFINE s == <<f[b2], g[b2]>>
             t == <<f[y], g[y]>>
  <2>3. s[1] = f[b2] /\ s[2] = g[b2] /\ t[1] = f[y] /\ t[2] = g[y]
    OBVIOUS
  <2> HIDE DEF s, t
  <2>4. s[1] < t[1] \/ (s[1] = t[1] /\ s[2] < t[2])
    BY <2>1, <2>2, LexTwo DEF s, t
  <2> QED BY <2>3, <2>4
<1> QED BY <1>4, <1>5 DEF b2

LEMMA ByThreeIs ==
  ASSUME NEW S, S # {}, NEW f \in [S -> Nat], NEW g \in [S -> Nat], NEW h \in [S -> Nat],
         \A x, y \in S : g[x] = g[y] /\ h[x] = h[y] => x = y
  PROVE  /\ ByThree(S, f, g, h) \in S
         /\ \A y \in S \ {ByThree(S, f, g, h)} :
               \/ f[ByThree(S, f, g, h)] < f[y]
               \/ f[ByThree(S, f, g, h)] = f[y] /\ g[ByThree(S, f, g, h)] < g[y]
               \/ /\ f[ByThree(S, f, g, h)] = f[y] /\ g[ByThree(S, f, g, h)] = g[y]
                  /\ h[ByThree(S, f, g, h)] < h[y]
<1> DEFINE K == [x \in S |-> <<f[x], g[x], h[x]>>]
           b3 == ByThree(S, f, g, h)
<1>1. ASSUME NEW x \in S PROVE K[x] \in [1..3 -> Nat] /\ K[x] = <<f[x], g[x], h[x]>>
  <2>1. f[x] \in Nat /\ g[x] \in Nat /\ h[x] \in Nat
    OBVIOUS
  <2>2. <<f[x], g[x], h[x]>> \in [1..3 -> Nat]
    BY <2>1
  <2> QED BY <2>2
<1>2. Keys(S, 3, K)
  <2>1. K \in [S -> [1..3 -> Nat]]
    BY <1>1
  <2>2. ASSUME NEW x \in S, NEW y \in S, K[x] = K[y] PROVE x = y
    <3> HIDE DEF K
    <3>1. g[x] = g[y] /\ h[x] = h[y]
      BY <1>1, <2>2
    <3> QED BY <3>1
  <2> HIDE DEF K
  <2> QED BY <2>1, <2>2 DEF Keys
<1> HIDE DEF K
<1>3. \E x \in S : \A y \in S \ {x} : Lex(<<f[x], g[x], h[x]>>, <<f[y], g[y], h[y]>>)
  <2>1. PICK x : First(S, K, x)
    BY <1>2, FirstExists
  <2>2. x \in S /\ \A y \in S \ {x} : Lex(K[x], K[y])
    BY <2>1 DEF First
  <2>3. ASSUME NEW y \in S \ {x} PROVE Lex(<<f[x], g[x], h[x]>>, <<f[y], g[y], h[y]>>)
    <3>1. K[x] = <<f[x], g[x], h[x]>> /\ K[y] = <<f[y], g[y], h[y]>> /\ Lex(K[x], K[y])
      BY <1>1, <2>2
    <3> QED BY <3>1
  <2> QED BY <2>2, <2>3
<1>4. b3 \in S /\ \A y \in S \ {b3} : Lex(<<f[b3], g[b3], h[b3]>>, <<f[y], g[y], h[y]>>)
  BY <1>3 DEF ByThree
<1> HIDE DEF b3
<1>5. ASSUME NEW y \in S \ {b3}
      PROVE  f[b3] < f[y] \/ (f[b3] = f[y] /\ g[b3] < g[y]) \/ (f[b3] = f[y] /\ g[b3] = g[y] /\ h[b3] < h[y])
  <2>1. <<f[b3], g[b3], h[b3]>> \in [1..3 -> Nat] /\ <<f[y], g[y], h[y]>> \in [1..3 -> Nat]
    BY <1>1, <1>4
  <2>2. Lex(<<f[b3], g[b3], h[b3]>>, <<f[y], g[y], h[y]>>)
    BY <1>4
  <2> DEFINE s == <<f[b3], g[b3], h[b3]>>
             t == <<f[y], g[y], h[y]>>
  <2>3. s[1] = f[b3] /\ s[2] = g[b3] /\ s[3] = h[b3] /\ t[1] = f[y] /\ t[2] = g[y] /\ t[3] = h[y]
    OBVIOUS
  <2> HIDE DEF s, t
  <2>4. s[1] < t[1] \/ (s[1] = t[1] /\ (s[2] < t[2] \/ (s[2] = t[2] /\ s[3] < t[3])))
    BY <2>1, <2>2, LexThree DEF s, t
  <2> QED BY <2>3, <2>4
<1> QED BY <1>4, <1>5 DEF b3

(* Of two jobs the one that wins, and the one of some that wins of all. *)
JobAhead(i, j) ==
    \/ score[i] < score[j]
    \/ score[i] = score[j] /\ i[1] < j[1]
    \/ score[i] = score[j] /\ i[1] = j[1] /\ i[2] < j[2]
    \/ score[i] = score[j] /\ i[1] = j[1] /\ i[2] = j[2] /\ i[3] < j[3]
Top(T, i) == i \in T /\ \A j \in T \ {i} : JobAhead(i, j)

LEMMA MatrixNumbers ==
  ASSUME Contested, mode = "matrix", NEW i \in Matrix
  PROVE  /\ i = <<i[1], i[2], i[3]>> /\ i[1] \in Candidates /\ i[2] \in Windows /\ i[3] \in Seeds
         /\ i[1] \in Nat /\ i[2] \in Nat /\ i[3] \in Nat /\ score[i] \in Nat
<1>1. i = <<i[1], i[2], i[3]>> /\ i[1] \in Candidates /\ i[2] \in Windows /\ i[3] \in Seeds
  BY DEF Matrix
<1>2. Candidates \subseteq Nat /\ Windows \subseteq Nat /\ Seeds \subseteq Nat
  BY ContestAssumption
<1>3. score[i] \in Nat
  <2>1. score[i] \in Scores
    BY DEF Contested
  <2> QED BY <2>1, MarksAreNumbers
<1> QED BY <1>1, <1>2, <1>3

LEMMA TopIsOne ==
  ASSUME Contested, mode = "matrix", NEW T \in SUBSET Matrix, NEW i, NEW j, Top(T, i), Top(T, j)
  PROVE  i = j
<1> SUFFICES ASSUME i # j PROVE FALSE
  OBVIOUS
<1>1. i \in Matrix /\ j \in Matrix /\ JobAhead(i, j) /\ JobAhead(j, i)
  BY DEF Top
<1>2. /\ i[1] \in Nat /\ i[2] \in Nat /\ i[3] \in Nat /\ score[i] \in Nat
      /\ j[1] \in Nat /\ j[2] \in Nat /\ j[3] \in Nat /\ score[j] \in Nat
  BY <1>1, MatrixNumbers
<1> QED BY <1>1, <1>2 DEF JobAhead

(* A combination's best seed. *)
LEMMA BestSeedIs ==
  ASSUME Contested, mode = "matrix", NEW o \in Candidates, NEW w \in Windows, Seeds # {}
  PROVE  /\ BestSeed(o, w) \in Seeds
         /\ \A s \in Seeds : s = BestSeed(o, w) \/ JobAhead(<<o, w, BestSeed(o, w)>>, <<o, w, s>>)
<1> DEFINE f == [s \in Seeds |-> score[<<o, w, s>>]]
           g == [s \in Seeds |-> s]
           v == CHOOSE x \in Seeds : \A y \in Seeds \ {x} :
                    Lex(<<score[<<o, w, x>>], x>>, <<score[<<o, w, y>>], y>>)
<1>1. \A s \in Seeds : <<o, w, s>> \in Matrix
  BY DEF Matrix
<1>2. f \in [Seeds -> Nat]
  <2>1. \A s \in Seeds : score[<<o, w, s>>] \in Nat
    BY <1>1, MatrixNumbers
  <2> QED BY <2>1
<1>3. g \in [Seeds -> Nat] /\ \A x, y \in Seeds : g[x] = g[y] => x = y
  <2>1. Seeds \subseteq Nat
    BY ContestAssumption
  <2> QED BY <2>1
<1>4. \A s \in Seeds : f[s] = score[<<o, w, s>>] /\ g[s] = s
  OBVIOUS
<1> HIDE DEF f, g
<1>5. BestSeed(o, w) = v
  BY DEF BestSeed, Least
<1>6. v = ByTwo(Seeds, f, g)
  <2>1. ASSUME NEW x
        PROVE  (x \in Seeds /\ \A y \in Seeds \ {x} : Lex(<<f[x], g[x]>>, <<f[y], g[y]>>)) <=>
               (x \in Seeds /\ \A y \in Seeds \ {x} :
                    Lex(<<score[<<o, w, x>>], x>>, <<score[<<o, w, y>>], y>>))
    BY <1>4, Zenon
  <2> QED BY <2>1 DEF ByTwo
<1> HIDE DEF v
<1>7. /\ v \in Seeds
      /\ \A y \in Seeds \ {v} : f[v] < f[y] \/ (f[v] = f[y] /\ g[v] < g[y])
  <2> DEFINE u == ByTwo(Seeds, f, g)
  <2>1. /\ u \in Seeds
        /\ \A y \in Seeds \ {u} : f[u] < f[y] \/ (f[u] = f[y] /\ g[u] < g[y])
    BY <1>2, <1>3, ByTwoIs
  <2> HIDE DEF u
  <2>2. v = u
    BY <1>6 DEF u
  <2> QED BY <2>1, <2>2
<1>8. ASSUME NEW s \in Seeds, s # v PROVE JobAhead(<<o, w, v>>, <<o, w, s>>)
  <2>1. score[<<o, w, v>>] < score[<<o, w, s>>] \/ (score[<<o, w, v>>] = score[<<o, w, s>>] /\ v < s)
    BY <1>4, <1>7, <1>8
  <2> QED BY <2>1 DEF JobAhead
<1> QED BY <1>5, <1>7, <1>8

(* One number before a pair. *)
LEMMA OneAndTwo ==
  ASSUME NEW R, NEW x \in R, NEW y \in R, NEW z \in R
  PROVE  <<x>> \o <<y, z>> = <<x, y, z>>
<1> DEFINE s == <<x>>
           t == <<y, z>>
           u == <<x, y, z>>
<1>1. s \in Seq(R) /\ Len(s) = 1 /\ t \in Seq(R) /\ Len(t) = 2
  OBVIOUS
<1>2. u \in Seq(R) /\ Len(u) = 3 /\ u[1] = s[1] /\ u[2] = t[1] /\ u[3] = t[2]
  OBVIOUS
<1> HIDE DEF s, t, u
<1>3. s \o t \in Seq(R) /\ Len(s \o t) = Len(s) + Len(t)
  <2>1. s \in Seq(R) /\ t \in Seq(R)
    BY <1>1
  <2> QED BY <2>1
<1>4. (s \o t)[1] = s[1] /\ (s \o t)[1 + 1] = t[1] /\ (s \o t)[1 + 2] = t[2]
  <2>1. 1 \in 1..Len(s) /\ 1 \in 1..Len(t) /\ 2 \in 1..Len(t)
    BY <1>1
  <2>2. (s \o t)[1] = s[1] /\ (s \o t)[Len(s) + 1] = t[1] /\ (s \o t)[Len(s) + 2] = t[2]
    <3>1. /\ \A i \in 1..Len(s) : (s \o t)[i] = s[i]
          /\ \A i \in 1..Len(t) : (s \o t)[Len(s) + i] = t[i]
      <4>1. s \in Seq(R) /\ t \in Seq(R)
        BY <1>1
      <4>2. \A i \in 1..Len(s) : (s \o t)[i] = s[i]
        BY <4>1
      <4>3. \A i \in 1..Len(t) : (s \o t)[Len(s) + i] = t[i]
        BY <4>1
      <4> QED BY <4>2, <4>3
    <3> QED BY <2>1, <3>1
  <2> QED BY <1>1, <2>2
<1> DEFINE v == s \o t
<1>5. v = u
  <2>1. v \in Seq(R) /\ Len(v) = 3 /\ v[1] = s[1] /\ v[2] = t[1] /\ v[3] = t[2]
    BY <1>1, <1>3, <1>4
  <2> HIDE DEF v
  <2>2. \A i \in 1..3 : i = 1 \/ i = 2 \/ i = 3
    OBVIOUS
  <2>3. \A i \in 1..3 : v[i] = u[i]
    BY <1>2, <2>1, <2>2
  <2>4. v \in [1..3 -> R] /\ u \in [1..3 -> R]
    <3>1. v \in [1..Len(v) -> R] /\ Len(v) = 3
      <4>1. v \in Seq(R)
        BY <2>1
      <4>2. v \in [1..Len(v) -> R]
        BY <4>1
      <4> QED BY <2>1, <4>2
    <3>2. u \in [1..Len(u) -> R] /\ Len(u) = 3
      <4>1. u \in Seq(R)
        BY <1>2
      <4>2. u \in [1..Len(u) -> R]
        BY <4>1
      <4> QED BY <1>2, <4>2
    <3> QED BY <3>1, <3>2
  <2> QED BY <2>3, <2>4
<1> QED BY <1>5 DEF s, t, u

(* The best seed of the best combination is the best job. *)
LEMMA OffloadIsTop ==
  ASSUME Contested, mode = "matrix", Matrix # {}
  PROVE  \E i \in Matrix : RunOffload = Row(i) /\ Top(Matrix, i)
<1> DEFINE P == Candidates \X Windows
           best(q) == <<q[1], q[2], BestSeed(q[1], q[2])>>
           f == [q \in P |-> score[best(q)]]
           g == [q \in P |-> q[1]]
           h == [q \in P |-> q[2]]
           v == CHOOSE x \in P : \A y \in P \ {x} : Lex(<<score[best(x)]>> \o x, <<score[best(y)]>> \o y)
<1>1. P # {} /\ Seeds # {}
  <2>1. PICK i \in Matrix : TRUE
    OBVIOUS
  <2>2. i[1] \in Candidates /\ i[2] \in Windows /\ i[3] \in Seeds
    BY MatrixNumbers
  <2>3. <<i[1], i[2]>> \in P
    BY <2>2
  <2> QED BY <2>2, <2>3
<1>2. ASSUME NEW q \in P
      PROVE  /\ q[1] \in Candidates /\ q[2] \in Windows /\ q = <<q[1], q[2]>> /\ best(q) \in Matrix
             /\ score[best(q)] \in Nat /\ q[1] \in Nat /\ q[2] \in Nat
  <2>1. q[1] \in Candidates /\ q[2] \in Windows /\ q = <<q[1], q[2]>>
    OBVIOUS
  <2>2. best(q) \in Matrix
    <3>1. BestSeed(q[1], q[2]) \in Seeds
      BY <1>1, <2>1, BestSeedIs
    <3> QED BY <2>1, <3>1 DEF Matrix
  <2> HIDE DEF best
  <2>3. score[best(q)] \in Nat
    BY <2>2, MatrixNumbers
  <2>4. q[1] \in Nat /\ q[2] \in Nat
    <3>1. Candidates \subseteq Nat /\ Windows \subseteq Nat
      BY ContestAssumption
    <3> QED BY <2>1, <3>1
  <2> QED BY <2>1, <2>2, <2>3, <2>4
<1>3. RunOffload = Row(best(v))
  BY DEF RunOffload, Least
<1>4. \A q \in P : f[q] = score[best(q)] /\ g[q] = q[1] /\ h[q] = q[2]
  OBVIOUS
<1>5. \A q \in P : <<score[best(q)]>> \o q = <<f[q], g[q], h[q]>>
  <2> HIDE DEF best, P
  <2> TAKE q \in P
  <2>1. q = <<q[1], q[2]>>
    BY <1>2
  <2> DEFINE z == score[best(q)]
             y == q[1]
             x == q[2]
  <2>2. <<z>> \o <<y, x>> = <<z, y, x>>
    <3>1. z \in Nat /\ y \in Nat /\ x \in Nat
      BY <1>2
    <3> HIDE DEF x, y, z
    <3> QED BY <3>1, OneAndTwo
  <2>3. q = <<y, x>>
    BY <2>1
  <2>4. <<f[q], g[q], h[q]>> = <<z, y, x>>
    BY <1>4
  <2>5. <<score[best(q)]>> = <<z>>
    OBVIOUS
  <2> HIDE DEF x, y, z, f, g, h
  <2> QED BY <2>2, <2>3, <2>4, <2>5
<1>6. f \in [P -> Nat] /\ g \in [P -> Nat] /\ h \in [P -> Nat] /\ \A x, y \in P : g[x] = g[y] /\ h[x] = h[y] => x = y
  <2>1. \A q \in P : f[q] \in Nat /\ g[q] \in Nat /\ h[q] \in Nat /\ q = <<g[q], h[q]>>
    BY <1>2, <1>4
  <2>2. f \in [P -> Nat] /\ g \in [P -> Nat] /\ h \in [P -> Nat]
    BY <2>1
  <2> HIDE DEF f, g, h, P
  <2> QED BY <2>1, <2>2
<1> HIDE DEF f, g, h, P, best
<1>7. v = ByThree(P, f, g, h)
  <2>1. ASSUME NEW x
        PROVE  (x \in P /\ \A y \in P \ {x} : Lex(<<f[x], g[x], h[x]>>, <<f[y], g[y], h[y]>>)) <=>
               (x \in P /\ \A y \in P \ {x} : Lex(<<score[best(x)]>> \o x, <<score[best(y)]>> \o y))
    BY <1>5, Zenon
  <2> QED BY <2>1 DEF ByThree
<1> HIDE DEF v
<1>8. /\ v \in P
      /\ \A y \in P \ {v} : \/ f[v] < f[y]
                            \/ f[v] = f[y] /\ g[v] < g[y]
                            \/ f[v] = f[y] /\ g[v] = g[y] /\ h[v] < h[y]
  <2> DEFINE u == ByThree(P, f, g, h)
  <2>1. /\ u \in P
        /\ \A y \in P \ {u} : \/ f[u] < f[y]
                              \/ f[u] = f[y] /\ g[u] < g[y]
                              \/ f[u] = f[y] /\ g[u] = g[y] /\ h[u] < h[y]
    BY <1>1, <1>6, ByThreeIs
  <2> HIDE DEF u
  <2>2. v = u
    BY <1>7 DEF u
  <2> QED BY <2>1, <2>2
<1>9. ASSUME NEW j \in Matrix, j # best(v) PROVE JobAhead(best(v), j)
  <2> DEFINE q == <<j[1], j[2]>>
  <2>1. /\ j = <<j[1], j[2], j[3]>> /\ j[1] \in Candidates /\ j[2] \in Windows /\ j[3] \in Seeds
        /\ j[1] \in Nat /\ j[2] \in Nat /\ j[3] \in Nat /\ score[j] \in Nat
    BY MatrixNumbers
  <2>2. q \in P /\ q[1] = j[1] /\ q[2] = j[2]
    BY <2>1 DEF P
  <2> HIDE DEF q
  <2>3. j = best(q) \/ JobAhead(best(q), j)
    <3>1. j[3] = BestSeed(j[1], j[2]) \/ JobAhead(<<j[1], j[2], BestSeed(j[1], j[2])>>, <<j[1], j[2], j[3]>>)
      BY <1>1, <2>1, BestSeedIs
    <3>2. best(q) = <<j[1], j[2], BestSeed(j[1], j[2])>>
      BY <2>2 DEF best
    <3> QED BY <2>1, <3>1, <3>2
  <2>4. best(q)[1] = j[1] /\ best(q)[2] = j[2]
    BY <2>2 DEF best
  <2>5. CASE q = v
    BY <1>9, <2>3, <2>5
  <2>6. CASE q # v
    <3> DEFINE s1 == score[best(v)]
               s2 == score[best(q)]
    <3>1. s1 < s2 \/ (s1 = s2 /\ v[1] < q[1]) \/ (s1 = s2 /\ v[1] = q[1] /\ v[2] < q[2])
      BY <1>4, <1>8, <2>2, <2>6
    <3>2. s1 \in Nat /\ s2 \in Nat
      BY <1>2, <1>8, <2>2
    <3>3. s2 <= score[j]
      <4>1. CASE j = best(q)
        BY <2>1, <4>1
      <4>2. CASE JobAhead(best(q), j)
        BY <2>1, <3>2, <4>2 DEF JobAhead
      <4> QED BY <2>3, <4>1, <4>2
    <3>4. best(v)[1] = v[1] /\ best(v)[2] = v[2]
      BY DEF best
    <3> HIDE DEF s1, s2
    <3>5. s1 < score[j] \/ (s1 = score[j] /\ (v[1] < j[1] \/ (v[1] = j[1] /\ v[2] < j[2])))
      BY <2>1, <2>2, <3>1, <3>2, <3>3
    <3>6. score[best(v)] = s1
      BY DEF s1
    <3> QED BY <3>4, <3>5, <3>6 DEF JobAhead
  <2> QED BY <2>5, <2>6
<1>10. best(v) \in Matrix
  BY <1>2, <1>8
<1>11. Top(Matrix, best(v))
  BY <1>9, <1>10 DEF Top
<1> QED BY <1>3, <1>10, <1>11

(* The best row of a combination is that of the best of its jobs. *)
ComboBest(rs, q) == Least(Combo(rs, q), LAMBDA r : <<r[2], r[1][3]>>)
RowsOf(T) == {Row(j) : j \in T}

LEMMA ComboBestIs ==
  ASSUME Contested, mode = "matrix", NEW T \in SUBSET Matrix, NEW rs, Range(rs) = RowsOf(T),
         NEW q \in Combos(rs)
  PROVE  \E i \in T : /\ <<i[1], i[2]>> = q /\ ComboBest(rs, q) = Row(i)
                      /\ \A j \in T \ {i} : <<j[1], j[2]>> = q => JobAhead(i, j)
<1> DEFINE C == Combo(rs, q)
           f == [r \in C |-> r[2]]
           g == [r \in C |-> r[1][3]]
           v == CHOOSE x \in C : \A y \in C \ {x} : Lex(<<x[2], x[1][3]>>, <<y[2], y[1][3]>>)
<1>1. ASSUME NEW r \in C PROVE \E j \in T : r = Row(j) /\ <<j[1], j[2]>> = q
  <2>1. r \in Range(rs) /\ <<r[1][1], r[1][2]>> = q
    BY DEF Combo
  <2>2. PICK j \in T : r = Row(j)
    BY <2>1 DEF RowsOf
  <2>3. r[1] = j
    BY <2>2 DEF Row
  <2> QED BY <2>1, <2>2, <2>3
<1>2. ASSUME NEW j \in T, <<j[1], j[2]>> = q PROVE Row(j) \in C
  <2>1. Row(j) \in Range(rs)
    BY DEF RowsOf
  <2>2. Row(j)[1] = j
    BY DEF Row
  <2> QED BY <1>2, <2>1, <2>2 DEF Combo
<1>3. C # {}
  <2>1. PICK r \in Range(rs) : q = <<r[1][1], r[1][2]>>
    BY DEF Combos
  <2> QED BY <2>1 DEF Combo
<1> HIDE DEF C
<1>4. \A j \in T : Row(j)[1] = j /\ Row(j)[2] = score[j] /\ j \in Matrix
  BY DEF Row
<1>5. ASSUME NEW r \in C PROVE f[r] = r[2] /\ g[r] = r[1][3] /\ f[r] \in Nat /\ g[r] \in Nat
  <2>1. PICK j \in T : r = Row(j)
    BY <1>1
  <2>2. r[2] \in Nat /\ r[1][3] \in Nat
    BY <1>4, <2>1, MatrixNumbers
  <2> QED BY <2>2
<1>6. f \in [C -> Nat] /\ g \in [C -> Nat]
  BY <1>5
<1> HIDE DEF f, g
<1>7. ASSUME NEW x \in C, NEW y \in C, g[x] = g[y] PROVE x = y
  <2>1. PICK i \in T : x = Row(i) /\ <<i[1], i[2]>> = q
    BY <1>1
  <2>2. PICK j \in T : y = Row(j) /\ <<j[1], j[2]>> = q
    BY <1>1
  <2>3. i = <<i[1], i[2], i[3]>> /\ j = <<j[1], j[2], j[3]>>
    BY MatrixNumbers
  <2>4. i[3] = j[3]
    BY <1>4, <1>5, <1>7, <2>1, <2>2
  <2>5. i[1] = j[1] /\ i[2] = j[2]
    BY <2>1, <2>2
  <2> QED BY <2>1, <2>2, <2>3, <2>4, <2>5
<1>8. ComboBest(rs, q) = v
  BY DEF ComboBest, Least, C
<1>9. v = ByTwo(C, f, g)
  <2>0. \A x \in C : f[x] = x[2] /\ g[x] = x[1][3]
    BY <1>5
  <2>1. ASSUME NEW x
        PROVE  (x \in C /\ \A y \in C \ {x} : Lex(<<f[x], g[x]>>, <<f[y], g[y]>>)) <=>
               (x \in C /\ \A y \in C \ {x} : Lex(<<x[2], x[1][3]>>, <<y[2], y[1][3]>>))
    BY <2>0, Zenon
  <2> QED BY <2>1 DEF ByTwo
<1> HIDE DEF v
<1>10. /\ v \in C
       /\ \A y \in C \ {v} : f[v] < f[y] \/ (f[v] = f[y] /\ g[v] < g[y])
  <2> DEFINE u == ByTwo(C, f, g)
  <2>1. /\ u \in C
        /\ \A y \in C \ {u} : f[u] < f[y] \/ (f[u] = f[y] /\ g[u] < g[y])
    BY <1>3, <1>6, <1>7, ByTwoIs
  <2> HIDE DEF u
  <2>2. v = u
    BY <1>9 DEF u
  <2> QED BY <2>1, <2>2
<1>11. PICK i \in T : v = Row(i) /\ <<i[1], i[2]>> = q
  BY <1>1, <1>10
<1>12. ASSUME NEW j \in T, j # i, <<j[1], j[2]>> = q PROVE JobAhead(i, j)
  <2>1. Row(j) \in C /\ Row(j) # v
    BY <1>2, <1>4, <1>11, <1>12
  <2>2. f[v] < f[Row(j)] \/ (f[v] = f[Row(j)] /\ g[v] < g[Row(j)])
    BY <1>10, <2>1
  <2>3. f[v] = score[i] /\ g[v] = i[3] /\ f[Row(j)] = score[j] /\ g[Row(j)] = j[3]
    BY <1>4, <1>5, <1>10, <1>11, <2>1
  <2>4. i[1] = j[1] /\ i[2] = j[2]
    BY <1>11, <1>12
  <2> QED BY <2>2, <2>3, <2>4 DEF JobAhead
<1> QED BY <1>8, <1>11, <1>12

(* What some rows reduce to is the best of their jobs, whatever their order.  *)
LEMMA ReduceIsTop ==
  ASSUME Contested, mode = "matrix", NEW T \in SUBSET Matrix, T # {}, NEW rs, Range(rs) = RowsOf(T)
  PROVE  \E i \in T : ReduceResults(rs) = Row(i) /\ Top(T, i)
<1> DEFINE P == Combos(rs)
           f == [q \in P |-> ComboBest(rs, q)[2]]
           g == [q \in P |-> q[1]]
           h == [q \in P |-> q[2]]
           v == CHOOSE x \in P : \A y \in P \ {x} :
                   Lex(<<ComboBest(rs, x)[2]>> \o x, <<ComboBest(rs, y)[2]>> \o y)
<1>1. ASSUME NEW j \in T PROVE <<j[1], j[2]>> \in P
  <2>1. Row(j) \in Range(rs) /\ Row(j)[1] = j
    BY DEF RowsOf, Row
  <2> QED BY <2>1 DEF Combos
<1>2. P # {}
  BY <1>1
<1>3. ReduceResults(rs) = ComboBest(rs, v)
  BY DEF ReduceResults, Least, ComboBest
<1> HIDE DEF P
<1>4. ASSUME NEW q \in P
      PROVE  \E i \in T : /\ i[1] = q[1] /\ i[2] = q[2] /\ q = <<q[1], q[2]>> /\ ComboBest(rs, q) = Row(i)
                          /\ i[1] \in Nat /\ i[2] \in Nat /\ score[i] \in Nat /\ Row(i)[2] = score[i]
                          /\ \A j \in T \ {i} : <<j[1], j[2]>> = q => JobAhead(i, j)
  <2>1. PICK i \in T : /\ <<i[1], i[2]>> = q /\ ComboBest(rs, q) = Row(i)
                       /\ \A j \in T \ {i} : <<j[1], j[2]>> = q => JobAhead(i, j)
    BY ComboBestIs DEF P
  <2>2. i[1] \in Nat /\ i[2] \in Nat /\ score[i] \in Nat /\ Row(i)[2] = score[i]
    BY MatrixNumbers DEF Row
  <2>3. i[1] = q[1] /\ i[2] = q[2] /\ q = <<q[1], q[2]>>
    BY <2>1
  <2> QED BY <2>1, <2>2, <2>3
<1>5. \A q \in P : f[q] = ComboBest(rs, q)[2] /\ g[q] = q[1] /\ h[q] = q[2]
  OBVIOUS
<1> HIDE DEF f, g, h
<1>6. \A q \in P : f[q] \in Nat /\ g[q] \in Nat /\ h[q] \in Nat /\ q = <<g[q], h[q]>>
  <2> TAKE q \in P
  <2>1. PICK i \in T : /\ i[1] = q[1] /\ i[2] = q[2] /\ q = <<q[1], q[2]>> /\ ComboBest(rs, q) = Row(i)
                       /\ i[1] \in Nat /\ i[2] \in Nat /\ score[i] \in Nat /\ Row(i)[2] = score[i]
    BY <1>4
  <2> QED BY <1>5, <2>1
<1>7. \A q \in P : <<ComboBest(rs, q)[2]>> \o q = <<f[q], g[q], h[q]>>
  <2> TAKE q \in P
  <2>1. f[q] \in Nat /\ g[q] \in Nat /\ h[q] \in Nat /\ q = <<g[q], h[q]>> /\ ComboBest(rs, q)[2] = f[q]
    BY <1>5, <1>6
  <2>2. <<f[q]>> \o <<g[q], h[q]>> = <<f[q], g[q], h[q]>>
    BY <2>1, OneAndTwo
  <2> QED BY <2>1, <2>2
<1>8. f \in [P -> Nat] /\ g \in [P -> Nat] /\ h \in [P -> Nat] /\ \A x, y \in P : g[x] = g[y] /\ h[x] = h[y] => x = y
  <2>1. f \in [P -> Nat] /\ g \in [P -> Nat] /\ h \in [P -> Nat]
    BY <1>6 DEF f, g, h
  <2> QED BY <1>6, <2>1
<1>9. v = ByThree(P, f, g, h)
  <2>1. ASSUME NEW x
        PROVE  (x \in P /\ \A y \in P \ {x} : Lex(<<f[x], g[x], h[x]>>, <<f[y], g[y], h[y]>>)) <=>
               (x \in P /\ \A y \in P \ {x} :
                   Lex(<<ComboBest(rs, x)[2]>> \o x, <<ComboBest(rs, y)[2]>> \o y))
    BY <1>7, Zenon
  <2> QED BY <2>1 DEF ByThree
<1> HIDE DEF v
<1>10. /\ v \in P
       /\ \A y \in P \ {v} : \/ f[v] < f[y]
                             \/ f[v] = f[y] /\ g[v] < g[y]
                             \/ f[v] = f[y] /\ g[v] = g[y] /\ h[v] < h[y]
  <2> DEFINE u == ByThree(P, f, g, h)
  <2>1. /\ u \in P
        /\ \A y \in P \ {u} : \/ f[u] < f[y]
                              \/ f[u] = f[y] /\ g[u] < g[y]
                              \/ f[u] = f[y] /\ g[u] = g[y] /\ h[u] < h[y]
    BY <1>2, <1>8, ByThreeIs
  <2> HIDE DEF u
  <2>2. v = u
    BY <1>9 DEF u
  <2> QED BY <2>1, <2>2
<1>11. PICK i \in T : /\ i[1] = v[1] /\ i[2] = v[2] /\ v = <<v[1], v[2]>> /\ ComboBest(rs, v) = Row(i)
                      /\ i[1] \in Nat /\ i[2] \in Nat /\ score[i] \in Nat /\ Row(i)[2] = score[i]
                      /\ \A j \in T \ {i} : <<j[1], j[2]>> = v => JobAhead(i, j)
  BY <1>4, <1>10
<1>12. ASSUME NEW j \in T, j # i PROVE JobAhead(i, j)
  <2> DEFINE q == <<j[1], j[2]>>
  <2>1. q \in P /\ q[1] = j[1] /\ q[2] = j[2]
    BY <1>1
  <2>2. j[1] \in Nat /\ j[2] \in Nat /\ j[3] \in Nat /\ score[j] \in Nat
    BY MatrixNumbers
  <2>3. CASE q = v
    BY <1>11, <1>12, <2>3
  <2>4. CASE q # v
    <3>1. \/ f[v] < f[q]
          \/ f[v] = f[q] /\ g[v] < g[q]
          \/ f[v] = f[q] /\ g[v] = g[q] /\ h[v] < h[q]
      BY <1>10, <2>1, <2>4
    <3>2. f[v] = score[i] /\ g[v] = i[1] /\ h[v] = i[2]
      BY <1>5, <1>10, <1>11
    <3>3. g[q] = j[1] /\ h[q] = j[2] /\ f[q] \in Nat
      BY <1>5, <1>6, <2>1
    <3>4. f[q] <= score[j]
      <4>1. PICK k \in T : /\ ComboBest(rs, q) = Row(k) /\ score[k] \in Nat /\ Row(k)[2] = score[k]
                           /\ \A l \in T \ {k} : <<l[1], l[2]>> = q => JobAhead(k, l)
        BY <1>4, <2>1
      <4>2. f[q] = score[k]
        BY <1>5, <2>1, <4>1
      <4>3. k = j \/ JobAhead(k, j)
        BY <4>1
      <4>4. score[k] <= score[j]
        BY <2>2, <4>1, <4>3 DEF JobAhead
      <4> QED BY <4>2, <4>4
    <3> HIDE DEF q
    <3>5. \/ score[i] < score[j]
          \/ score[i] = score[j] /\ i[1] < j[1]
          \/ score[i] = score[j] /\ i[1] = j[1] /\ i[2] < j[2]
      BY <1>11, <2>2, <3>1, <3>2, <3>3, <3>4
    <3> QED BY <3>5 DEF JobAhead
  <2> QED BY <2>3, <2>4
<1>13. Top(T, i)
  BY <1>12 DEF Top
<1> QED BY <1>3, <1>11, <1>13

(* The best job of all has the best seed of its combination, the best         *)
(* overlap at its window and the best window at its overlap.                *)
LEMMA TopChoices ==
  ASSUME Contested, mode = "matrix", NEW i, Top(Matrix, i)
  PROVE  i[1] = OptimizeOverlap(i[2]) /\ i[2] = TuneConsolidation(i[1])
<1>1. i \in Matrix /\ \A j \in Matrix \ {i} : JobAhead(i, j)
  BY DEF Top
<1>2. /\ i = <<i[1], i[2], i[3]>> /\ i[1] \in Candidates /\ i[2] \in Windows /\ i[3] \in Seeds
      /\ i[1] \in Nat /\ i[2] \in Nat /\ i[3] \in Nat /\ score[i] \in Nat
  BY <1>1, MatrixNumbers
<1>3. ASSUME NEW o \in Candidates, NEW w \in Windows
      PROVE  BestSeed(o, w) \in Seeds /\ <<o, w, BestSeed(o, w)>> \in Matrix
  <2>1. BestSeed(o, w) \in Seeds
    BY <1>2, BestSeedIs
  <2> QED BY <2>1 DEF Matrix
<1>4. BestSeed(i[1], i[2]) = i[3]
  <2> DEFINE s == BestSeed(i[1], i[2])
             j == <<i[1], i[2], s>>
  <2>1. j \in Matrix /\ s \in Seeds /\ j[1] = i[1] /\ j[2] = i[2] /\ j[3] = s
    BY <1>2, <1>3
  <2>2. i[3] = s \/ JobAhead(j, <<i[1], i[2], i[3]>>)
    BY <1>2, BestSeedIs
  <2> HIDE DEF s
  <2>3. i[3] = s \/ JobAhead(j, i)
    BY <1>2, <2>2
  <2> HIDE DEF j
  <2>4. SUFFICES ASSUME JobAhead(j, i), i[3] # s PROVE FALSE
    BY <2>3 DEF s
  <2>5. JobAhead(i, j)
    BY <1>1, <2>1, <2>4
  <2>6. j[1] \in Nat /\ j[2] \in Nat /\ j[3] \in Nat /\ score[j] \in Nat
    BY <2>1, MatrixNumbers
  <2> QED BY <1>2, <2>4, <2>5, <2>6 DEF JobAhead
<1>5. i[1] = OptimizeOverlap(i[2])
  <2> DEFINE S == Candidates
             w == i[2]
             f == [o \in S |-> score[<<o, w, BestSeed(o, w)>>]]
             g == [o \in S |-> o]
             v == CHOOSE x \in S : \A y \in S \ {x} :
                     Lex(<<score[<<x, w, BestSeed(x, w)>>], x>>, <<score[<<y, w, BestSeed(y, w)>>], y>>)
  <2>1. \A o \in S : f[o] = score[<<o, w, BestSeed(o, w)>>] /\ g[o] = o
    OBVIOUS
  <2>2. OptimizeOverlap(w) = v
    BY DEF OptimizeOverlap, Least
  <2>3. f \in [S -> Nat] /\ g \in [S -> Nat] /\ \A x, y \in S : g[x] = g[y] => x = y
    <3>1. ASSUME NEW o \in S PROVE f[o] \in Nat /\ g[o] \in Nat
      <4>1. <<o, w, BestSeed(o, w)>> \in Matrix
        BY <1>2, <1>3
      <4>2. score[<<o, w, BestSeed(o, w)>>] \in Nat
        BY <4>1, MatrixNumbers
      <4>3. Candidates \subseteq Nat
        BY ContestAssumption
      <4> QED BY <4>2, <4>3
    <3> QED BY <3>1
  <2> HIDE DEF f, g, S
  <2>4. v = ByTwo(S, f, g)
    <3>1. ASSUME NEW x
          PROVE  (x \in S /\ \A y \in S \ {x} : Lex(<<f[x], g[x]>>, <<f[y], g[y]>>)) <=>
                 (x \in S /\ \A y \in S \ {x} :
                     Lex(<<score[<<x, w, BestSeed(x, w)>>], x>>, <<score[<<y, w, BestSeed(y, w)>>], y>>))
      BY <2>1, Zenon
    <3> QED BY <3>1 DEF ByTwo
  <2> HIDE DEF v
  <2>5. i[1] \in S
    BY <1>2 DEF S
  <2> DEFINE u == ByTwo(S, f, g)
  <2>6. u \in S /\ \A y \in S \ {u} : f[u] < f[y] \/ (f[u] = f[y] /\ g[u] < g[y])
    BY <2>3, <2>5, ByTwoIs
  <2> HIDE DEF u
  <2>7. SUFFICES ASSUME i[1] # u PROVE FALSE
    BY <2>2, <2>4 DEF u, w
  <2>8. f[u] < f[i[1]] \/ (f[u] = f[i[1]] /\ u < i[1])
    BY <2>1, <2>5, <2>6, <2>7
  <2>9. f[i[1]] = score[i]
    BY <1>2, <1>4, <2>1, <2>5
  <2> DEFINE j == <<u, w, BestSeed(u, w)>>
  <2>10. j \in Matrix /\ score[j] = f[u] /\ j[1] = u
    BY <1>2, <1>3, <2>1, <2>6 DEF S
  <2> HIDE DEF j
  <2>11. j # i /\ j[1] \in Nat /\ score[j] \in Nat
    BY <2>7, <2>10, MatrixNumbers
  <2>12. JobAhead(i, j)
    BY <1>1, <2>10, <2>11
  <2> QED BY <1>2, <2>7, <2>8, <2>9, <2>10, <2>11, <2>12 DEF JobAhead
<1>6. i[2] = TuneConsolidation(i[1])
  <2> DEFINE S == Windows
             o == i[1]
             f == [w \in S |-> score[<<o, w, BestSeed(o, w)>>]]
             g == [w \in S |-> w]
             v == CHOOSE x \in S : \A y \in S \ {x} :
                     Lex(<<score[<<o, x, BestSeed(o, x)>>], x>>, <<score[<<o, y, BestSeed(o, y)>>], y>>)
  <2>1. \A w \in S : f[w] = score[<<o, w, BestSeed(o, w)>>] /\ g[w] = w
    OBVIOUS
  <2>2. TuneConsolidation(o) = v
    BY DEF TuneConsolidation, Least
  <2>3. f \in [S -> Nat] /\ g \in [S -> Nat] /\ \A x, y \in S : g[x] = g[y] => x = y
    <3>1. ASSUME NEW w \in S PROVE f[w] \in Nat /\ g[w] \in Nat
      <4>1. <<o, w, BestSeed(o, w)>> \in Matrix
        BY <1>2, <1>3
      <4>2. score[<<o, w, BestSeed(o, w)>>] \in Nat
        BY <4>1, MatrixNumbers
      <4>3. Windows \subseteq Nat
        BY ContestAssumption
      <4> QED BY <4>2, <4>3
    <3> QED BY <3>1
  <2> HIDE DEF f, g, S
  <2>4. v = ByTwo(S, f, g)
    <3>1. ASSUME NEW x
          PROVE  (x \in S /\ \A y \in S \ {x} : Lex(<<f[x], g[x]>>, <<f[y], g[y]>>)) <=>
                 (x \in S /\ \A y \in S \ {x} :
                     Lex(<<score[<<o, x, BestSeed(o, x)>>], x>>, <<score[<<o, y, BestSeed(o, y)>>], y>>))
      BY <2>1, Zenon
    <3> QED BY <3>1 DEF ByTwo
  <2> HIDE DEF v
  <2>5. i[2] \in S
    BY <1>2 DEF S
  <2> DEFINE u == ByTwo(S, f, g)
  <2>6. u \in S /\ \A y \in S \ {u} : f[u] < f[y] \/ (f[u] = f[y] /\ g[u] < g[y])
    BY <2>3, <2>5, ByTwoIs
  <2> HIDE DEF u
  <2>7. SUFFICES ASSUME i[2] # u PROVE FALSE
    BY <2>2, <2>4 DEF u, o
  <2>8. f[u] < f[i[2]] \/ (f[u] = f[i[2]] /\ u < i[2])
    BY <2>1, <2>5, <2>6, <2>7
  <2>9. f[i[2]] = score[i]
    BY <1>2, <1>4, <2>1, <2>5
  <2> DEFINE j == <<o, u, BestSeed(o, u)>>
  <2>10. j \in Matrix /\ score[j] = f[u] /\ j[1] = i[1] /\ j[2] = u
    BY <1>2, <1>3, <2>1, <2>6 DEF S
  <2> HIDE DEF j
  <2>11. j # i /\ j[2] \in Nat /\ score[j] \in Nat
    BY <2>7, <2>10, MatrixNumbers
  <2>12. JobAhead(i, j)
    BY <1>1, <2>10, <2>11
  <2> QED BY <1>2, <2>7, <2>8, <2>9, <2>10, <2>11, <2>12 DEF JobAhead
<1> QED BY <1>5, <1>6

MatrixInv ==
    mode = "matrix" =>
        /\ log \in Seq(RowsOf(Matrix))
        /\ \A i, j \in 1..Len(log) : log[i] = log[j] => i = j
        /\ at # "done" => out = None
        /\ at = "done" => log # <<>> /\ out = ReduceResults(log)

LEMMA MatrixStarts == Init => MatrixInv
<1> SUFFICES ASSUME Init, mode = "matrix" PROVE MatrixInv
  BY DEF MatrixInv
<1>1. log = <<>> /\ out = None /\ at = "run"
  BY DEF Init
<1>2. log \in Seq(RowsOf(Matrix)) /\ Len(log) = 0 /\ 1..0 = {}
  BY <1>1
<1> QED BY <1>1, <1>2 DEF MatrixInv

LEMMA MatrixStays == Contested /\ MatrixInv /\ [Next]_vars => MatrixInv'
<1> SUFFICES ASSUME Contested, MatrixInv, [Next]_vars PROVE MatrixInv'
  OBVIOUS
<1>1. Kept
  BY EveryStepKeeps
<1> SUFFICES ASSUME mode = "matrix" PROVE MatrixInv'
  BY <1>1 DEF Kept, MatrixInv
<1>2. RowsOf(Matrix)' = RowsOf(Matrix) /\ None' = None
  BY <1>1 DEF Kept, RowsOf, Row, Matrix, None
<1>4. ASSUME log' = log,
             \/ at' = at /\ out' = out
             \/ at = "run" /\ at' = "done" /\ log # <<>> /\ out' = ReduceResults(log)
      PROVE  MatrixInv'
  <2>1. ReduceResults(log)' = ReduceResults(log)
    BY <1>4
  <2> QED BY <1>1, <1>2, <1>4, <2>1 DEF MatrixInv, Kept
<1>5. ASSUME MatrixPosts PROVE MatrixInv'
  <2>1. at = "run" /\ at' = at /\ out' = out
    BY <1>5 DEF MatrixPosts
  <2>2. PICK j \in Matrix : Row(j) \notin Range(log) /\ log' = Append(log, Row(j))
    BY <1>5 DEF MatrixPosts
  <2> DEFINE R == RowsOf(Matrix)
             r == Row(j)
  <2>3. log \in Seq(R) /\ r \in R
    BY DEF MatrixInv, RowsOf
  <2>4. \A i \in 1..Len(log) : log[i] # r
    <3>1. DOMAIN log = 1..Len(log)
      BY <2>3
    <3> QED BY <2>2, <3>1 DEF Range
  <2> HIDE DEF R, r
  <2>5. /\ log' \in Seq(R) /\ Len(log') = Len(log) + 1 /\ Len(log) \in Nat
        /\ log'[Len(log) + 1] = r /\ \A i \in 1..Len(log) : log'[i] = log[i]
    <3>1. log' = Append(log, r)
      BY <2>2 DEF r
    <3> QED BY <2>3, <3>1
  <2>6. \A i \in 1..Len(log') : i = Len(log) + 1 \/ i \in 1..Len(log)
    BY <2>5
  <2>7. \A i, k \in 1..Len(log') : log'[i] = log'[k] => i = k
    BY <2>4, <2>5, <2>6 DEF MatrixInv
  <2>8. at' # "done" /\ out' = None
    BY <2>1 DEF MatrixInv
  <2>9. log' \in Seq(RowsOf(Matrix)')
    BY <1>2, <2>5 DEF R
  <2> QED BY <1>2, <2>7, <2>8, <2>9, Zenon DEF MatrixInv
<1>6. ASSUME Reduce PROVE MatrixInv'
  BY <1>4, <1>6 DEF Reduce
<1>7. ASSUME Idle \/ UNCHANGED vars \/ Cleared \/ Cancel PROVE MatrixInv'
  BY <1>4, <1>7 DEF Idle, vars, Cleared, Cancel
<1>8. ASSUME NEW k \in 1..Shards, ShardPosts(k) \/ ShardFails(k) PROVE MatrixInv'
  BY <1>8 DEF ShardPosts, ShardFails
<1>9. ASSUME Merge \/ SweepNext \/ SweepEnds \/ Apply PROVE MatrixInv'
  BY <1>9 DEF Merge, SweepNext, SweepEnds, Apply
<1>10. ASSUME CoarseProbe \/ Bracket \/ GoldenProbe \/ Narrow \/ Narrowed \/ Tuned PROVE MatrixInv'
  <2>1. at \notin {"coarse", "bracket", "golden", "tuned"}
    BY DEF Contested, Stages
  <2> QED BY <1>10, <2>1 DEF CoarseProbe, Bracket, GoldenProbe, Narrow, Narrowed, Tuned
<1> QED BY <1>5, <1>6, <1>7, <1>8, <1>9, <1>10 DEF Next, Step

(* A matrix is finite, and as many rows as it has jobs are the rows of all.   *)
LEMMA MatrixFinite == IsFiniteSet(Matrix)
<1> DEFINE P == (Candidates \X Windows) \X Seeds
           f == [p \in P |-> <<p[1][1], p[1][2], p[2]>>]
<1>1. IsFiniteSet(Candidates) /\ IsFiniteSet(Windows) /\ IsFiniteSet(Seeds)
  BY ContestAssumption
<1>2. IsFiniteSet(P)
  <2>1. IsFiniteSet(Candidates \X Windows)
    BY <1>1, FS_Product
  <2> QED BY <1>1, <2>1, FS_Product
<1>3. f \in Surjection(P, Matrix)
  <2>1. f \in [P -> Matrix]
    BY DEF Matrix
  <2>2. ASSUME NEW i \in Matrix PROVE \E p \in P : f[p] = i
    <3>1. i[1] \in Candidates /\ i[2] \in Windows /\ i[3] \in Seeds /\ i = <<i[1], i[2], i[3]>>
      BY DEF Matrix
    <3>2. <<<<i[1], i[2]>>, i[3]>> \in P
      BY <3>1
    <3>3. f[<<<<i[1], i[2]>>, i[3]>>] = <<i[1], i[2], i[3]>>
      BY <3>2
    <3> QED BY <3>1, <3>2, <3>3
  <2> QED BY <2>1, <2>2 DEF Surjection
<1> HIDE DEF f, P
<1> QED BY <1>2, <1>3, FS_Surjection

LEMMA AllTheJobs ==
  ASSUME Contested, MatrixInv, mode = "matrix", Len(log) = Cardinality(Matrix)
  PROVE  Range(log) = RowsOf(Matrix)
<1> DEFINE n == Len(log)
           f == [i \in 1..n |-> log[i][1]]
<1>1. log \in Seq(RowsOf(Matrix)) /\ \A i, j \in 1..n : log[i] = log[j] => i = j
  BY DEF MatrixInv
<1>2. n \in Nat /\ DOMAIN log = 1..n /\ \A i \in 1..n : log[i] \in RowsOf(Matrix)
  BY <1>1
<1>3. ASSUME NEW i \in 1..n PROVE f[i] \in Matrix /\ log[i] = Row(f[i])
  <2>1. PICK j \in Matrix : log[i] = Row(j)
    BY <1>2 DEF RowsOf
  <2>2. log[i][1] = j
    BY <2>1 DEF Row
  <2> QED BY <2>1, <2>2
<1>4. f \in [1..n -> Matrix]
  BY <1>3
<1> HIDE DEF f
<1>5. f \in Injection(1..n, Matrix)
  <2>1. \A i, j \in 1..n : f[i] = f[j] => i = j
    BY <1>1, <1>3
  <2> QED BY <1>4, <2>1 DEF Injection, IsInjective
<1>6. f \in Surjection(1..n, Matrix)
  <2>1. Cardinality(1..n) = n
    BY <1>2, FS_Interval
  <2>2. Cardinality(1..n) = Cardinality(Matrix)
    BY <2>1
  <2> QED BY <1>5, <2>2, MatrixFinite, FS_Injection
<1>7. ASSUME NEW j \in Matrix PROVE Row(j) \in Range(log)
  <2>1. PICK i \in 1..n : f[i] = j
    BY <1>6 DEF Surjection
  <2>2. log[i] = Row(j)
    BY <1>3, <2>1
  <2> QED BY <1>2, <2>2 DEF Range
<1>8. Range(log) \subseteq RowsOf(Matrix)
  BY <1>2 DEF Range
<1> QED BY <1>7, <1>8 DEF RowsOf

LEMMA MatrixDoes == Contested /\ MatrixInv => MatrixAgrees
<1> SUFFICES ASSUME Contested, MatrixInv, mode = "matrix", at = "done", Len(log) = Cardinality(Matrix)
             PROVE  /\ out = RunOffload
                    /\ out[1][1] = OptimizeOverlap(out[1][2]) /\ out[1][2] = TuneConsolidation(out[1][1])
  BY DEF MatrixAgrees
<1>1. log \in Seq(RowsOf(Matrix)) /\ log # <<>> /\ out = ReduceResults(log)
  BY DEF MatrixInv
<1>2. Matrix # {}
  <2>1. Len(log) # 0 /\ Len(log) \in Nat
    BY <1>1
  <2>2. 1 \in 1..Len(log)
    BY <2>1
  <2>3. log[1] \in RowsOf(Matrix)
    BY <1>1, <2>2
  <2> QED BY <2>3 DEF RowsOf
<1>3. PICK i \in Matrix : ReduceResults(log) = Row(i) /\ Top(Matrix, i)
  BY <1>2, AllTheJobs, ReduceIsTop
<1>4. PICK j \in Matrix : RunOffload = Row(j) /\ Top(Matrix, j)
  BY <1>2, OffloadIsTop
<1>5. i = j
  BY <1>3, <1>4, TopIsOne
<1>6. out = Row(i) /\ out[1] = i
  BY <1>1, <1>3 DEF Row
<1> QED BY <1>3, <1>4, <1>5, <1>6, TopChoices

(* What some rows of the matrix reduce to is a job of it. *)
LEMMA ReducedJob == Contested /\ MatrixInv /\ mode = "matrix" => out = None \/ out[1] \in Matrix
<1> SUFFICES ASSUME Contested, MatrixInv, mode = "matrix", at = "done" PROVE out[1] \in Matrix
  BY DEF MatrixInv
<1> DEFINE T == {j \in Matrix : Row(j) \in Range(log)}
<1>1. log \in Seq(RowsOf(Matrix)) /\ log # <<>> /\ out = ReduceResults(log)
  BY DEF MatrixInv
<1>2. Len(log) \in Nat \ {0} /\ DOMAIN log = 1..Len(log)
  <2>1. Len(log) # 0 /\ Len(log) \in Nat
    BY <1>1
  <2> QED BY <1>1, <2>1
<1>3. \A r \in Range(log) : r \in RowsOf(Matrix)
  <2>1. \A i \in 1..Len(log) : log[i] \in RowsOf(Matrix)
    BY <1>1
  <2> QED BY <1>2, <2>1 DEF Range
<1>4. Range(log) = RowsOf(T)
  <2>1. ASSUME NEW r \in Range(log) PROVE r \in RowsOf(T)
    <3>1. PICK j \in Matrix : r = Row(j)
      BY <1>3 DEF RowsOf
    <3>2. j \in T
      BY <3>1
    <3> QED BY <3>1, <3>2 DEF RowsOf
  <2>2. \A r \in RowsOf(T) : r \in Range(log)
    BY DEF RowsOf
  <2> QED BY <2>1, <2>2
<1>5. T # {}
  <2>1. 1 \in DOMAIN log
    BY <1>2
  <2>2. log[1] \in Range(log)
    BY <2>1 DEF Range
  <2> QED BY <1>4, <2>2 DEF RowsOf
<1>6. T \in SUBSET Matrix
  OBVIOUS
<1> HIDE DEF T
<1>7. PICK i \in T : ReduceResults(log) = Row(i)
  BY <1>4, <1>5, <1>6, ReduceIsTop
<1> QED BY <1>1, <1>6, <1>7 DEF Row

-----------------------------------------------------------------------------
(* The tuner: what it probes.                                               *)

(* A cut of a width is within it, whichever way it goes. *)
LEMMA GoldenBetween ==
  ASSUME NEW w \in Int
  PROVE  /\ Golden(w) \in Int
         /\ w >= 0 => 0 <= Golden(w) /\ Golden(w) <= w
         /\ w <= 0 => w <= Golden(w) /\ Golden(w) <= 0
  BY DEF Golden

(* The points of the coarse pass rise from end to end. *)
LEMMA PointsRise ==
  /\ \A i \in 1..Coarse : Point(i) \in Lo..Hi
  /\ \A i \in 1..Coarse, j \in 1..Coarse : i < j => Point(i) < Point(j)
  /\ Point(1) = Lo /\ Point(Coarse) = Hi
<1> DEFINE W == Hi - Lo
           n == Coarse - 1
           q(i) == (W * (i - 1)) \div n
<1>1. Lo \in Nat /\ Hi \in Nat /\ W \in Nat /\ n \in Nat \ {0} /\ n <= W /\ Coarse = n + 1 /\ Hi = Lo + W
  BY TunerAssumption
<1>2. \A i : Point(i) = Lo + q(i)
  BY DEF Point
<1> HIDE DEF W, n, q
<1>3. ASSUME NEW i \in 1..Coarse PROVE q(i) \in Nat /\ q(i) * n <= W * (i - 1) /\ W * (i - 1) < (q(i) + 1) * n
  <2> DEFINE x == W * (i - 1)
             m == x \div n
  <2>1. x \in Nat
    <3>1. i - 1 \in Nat
      OBVIOUS
    <3> HIDE DEF x
    <3>2. \A u, v \in Nat : u * v \in Nat
      OBVIOUS
    <3> QED BY <1>1, <3>1, <3>2 DEF x
  <2> HIDE DEF x
  <2>2. m \in Nat
    BY <1>1, <2>1
  <2>3. m * n <= x
    BY <1>1, <2>1, <2>2, Quotient
  <2>4. ~((m + 1) * n <= x)
    <3>1. m + 1 \in Nat /\ ~(m + 1 <= m)
      BY <2>2
    <3> QED BY <1>1, <2>1, <2>2, <3>1, Quotient
  <2>5. (m + 1) * n \in Nat
    BY <1>1, <2>2
  <2>6. q(i) = m
    BY DEF q, x
  <2> HIDE DEF m
  <2> QED BY <2>1, <2>2, <2>3, <2>4, <2>5, <2>6 DEF x
<1>4. \A u, v, w \in Nat : u <= v => u * w <= v * w
  OBVIOUS
<1>5. ASSUME NEW i \in 1..Coarse PROVE q(i) <= W
  <2> SUFFICES ASSUME W + 1 <= q(i) PROVE FALSE
    BY <1>1, <1>3
  <2>1. (W + 1) * n <= q(i) * n
    <3>1. W + 1 \in Nat /\ q(i) \in Nat /\ n \in Nat
      BY <1>1, <1>3
    <3> QED BY <1>4, <3>1
  <2>2. W * (i - 1) <= W * n
    <3>1. i - 1 \in Nat /\ i - 1 <= n
      BY <1>1
    <3>2. (i - 1) * W <= n * W
      BY <1>1, <1>4, <3>1
    <3> QED BY <1>1, <3>1, <3>2
  <2>3. (W + 1) * n = W * n + n /\ W * n \in Nat
    BY <1>1
  <2>4. q(i) * n <= W * (i - 1) /\ q(i) * n \in Int /\ W * (i - 1) \in Int
    BY <1>1, <1>3
  <2> QED BY <1>1, <2>1, <2>2, <2>3, <2>4
<1>6. ASSUME NEW i \in 1..Coarse, NEW j \in 1..Coarse, i < j PROVE q(i) < q(j)
  <2> SUFFICES ASSUME q(j) <= q(i) PROVE FALSE
    BY <1>3
  <2>1. (q(j) + 1) * n <= (q(i) + 1) * n
    BY <1>1, <1>3, <1>4
  <2>2. W * (j - 1) < (q(i) * n) + n
    <3>1. (q(i) + 1) * n = q(i) * n + n /\ q(i) * n \in Int /\ (q(j) + 1) * n \in Int /\ W * (j - 1) \in Int
      BY <1>1, <1>3
    <3> QED BY <1>1, <1>3, <2>1, <3>1
  <2>3. W * (i - 1) + W <= W * (j - 1)
    <3>1. i \in Nat /\ j - 1 \in Nat /\ i <= j - 1
      BY <1>6
    <3>2. i * W <= (j - 1) * W
      BY <1>1, <1>4, <3>1
    <3> QED BY <1>1, <3>1, <3>2
  <2>4. q(i) * n <= W * (i - 1) /\ q(i) * n \in Int /\ W * (i - 1) \in Int /\ W * (j - 1) \in Int
    BY <1>1, <1>3
  <2> QED BY <1>1, <2>2, <2>3, <2>4
<1>7. q(1) = 0
  <2>1. 1 \in 1..Coarse
    BY <1>1
  <2>2. q(1) \in Nat /\ q(1) * n <= W * (1 - 1) /\ W * (1 - 1) = 0
    BY <1>1, <1>3, <2>1
  <2> QED BY <1>1, <2>2
<1>8. q(Coarse) = W
  <2>1. Coarse \in 1..Coarse /\ Coarse - 1 = n
    BY <1>1
  <2>2. W * n < (q(Coarse) + 1) * n /\ q(Coarse) \in Nat
    BY <1>3, <2>1
  <2>3. ~(q(Coarse) + 1 <= W)
    <3>1. q(Coarse) + 1 <= W => (q(Coarse) + 1) * n <= W * n
      BY <1>1, <1>4, <2>2
    <3>2. W * n \in Int /\ (q(Coarse) + 1) * n \in Int
      BY <1>1, <2>2
    <3> QED BY <2>2, <3>1, <3>2
  <2> QED BY <1>1, <1>5, <2>1, <2>2, <2>3
<1>9. ASSUME NEW i \in 1..Coarse PROVE Point(i) \in Lo..Hi
  <2>1. q(i) \in Nat /\ q(i) <= W /\ Point(i) = Lo + q(i)
    BY <1>2, <1>3, <1>5
  <2> QED BY <1>1, <2>1
<1>10. ASSUME NEW i \in 1..Coarse, NEW j \in 1..Coarse, i < j PROVE Point(i) < Point(j)
  <2>1. q(i) \in Nat /\ q(j) \in Nat /\ q(i) < q(j) /\ Point(i) = Lo + q(i) /\ Point(j) = Lo + q(j)
    BY <1>2, <1>3, <1>6, <1>10
  <2> QED BY <1>1, <2>1
<1>11. Point(1) = Lo /\ Point(Coarse) = Hi
  BY <1>1, <1>2, <1>7, <1>8
<1> QED BY <1>9, <1>10, <1>11

(* A response is a number; one with a single peak falls to it and rises from  *)
(* it.                                                                      *)
LEMMA ResponsesAre ==
  ASSUME Contested, mode = "local"
  PROVE  /\ \A x \in Lo..Hi : Response(x) \in Nat
         /\ Peaked => /\ score[1] \in Lo..Hi
                      /\ \A x, y \in Lo..Hi : /\ x < y /\ y <= score[1] => Response(y) < Response(x)
                                              /\ x < y /\ score[1] <= x => Response(x) < Response(y)
<1>1. score \in Responses /\ Lo \in Nat /\ Hi \in Nat
  BY TunerAssumption DEF Contested
<1>2. \A u, v \in Nat : u * v \in Nat
  OBVIOUS
<1>3. \A u \in Nat \ {0} : \A v, w \in Nat : v < w => u * v < u * w
  OBVIOUS
<1>4. CASE score \in Peaks \X Slopes \X Slopes
  <2> DEFINE p == score[1]
             l == score[2]
             r == score[3]
  <2>1. p \in Lo..Hi /\ l \in Nat \ {0} /\ r \in Nat \ {0} /\ Len(score) = 3
    <3>1. score[1] \in Peaks /\ score[2] \in Slopes /\ score[3] \in Slopes /\ Len(score) = 3
      BY <1>4
    <3>2. Peaks \subseteq Lo..Hi /\ Slopes \subseteq Nat \ {0}
      BY TunerAssumption
    <3> QED BY <3>1, <3>2
  <2>2. Peaked
    BY <2>1 DEF Peaked
  <2>3. \A x : Response(x) = IF x < p THEN l * (p - x) ELSE r * (x - p)
    BY <2>2 DEF Response
  <2> HIDE DEF p, l, r
  <2>4. ASSUME NEW x \in Lo..Hi PROVE Response(x) \in Nat
    <3>1. CASE x < p
      <4>1. p - x \in Nat
        BY <1>1, <2>1, <3>1
      <4> QED BY <1>2, <2>1, <2>3, <3>1, <4>1
    <3>2. CASE ~(x < p)
      <4>1. x - p \in Nat
        BY <1>1, <2>1, <3>2
      <4> QED BY <1>2, <2>1, <2>3, <3>2, <4>1
    <3> QED BY <3>1, <3>2
  <2>5. ASSUME NEW x \in Lo..Hi, NEW y \in Lo..Hi, x < y, y <= p PROVE Response(y) < Response(x)
    <3>1. p - x \in Nat /\ p - y \in Nat /\ p - y < p - x /\ x < p
      BY <1>1, <2>1, <2>5
    <3>2. Response(x) = l * (p - x)
      BY <2>3, <3>1
    <3>3. Response(y) = l * (p - y)
      <4>1. CASE y < p
        BY <2>3, <4>1
      <4>2. CASE y = p
        <5>1. Response(y) = r * (y - p) /\ y - p = 0 /\ p - y = 0
          BY <1>1, <2>1, <2>3, <4>2
        <5>2. r * 0 = 0 /\ l * 0 = 0
          BY <2>1
        <5> QED BY <5>1, <5>2
      <4> QED BY <1>1, <2>1, <2>5, <4>1, <4>2
    <3> QED BY <1>3, <2>1, <3>1, <3>2, <3>3
  <2>6. ASSUME NEW x \in Lo..Hi, NEW y \in Lo..Hi, x < y, p <= x PROVE Response(x) < Response(y)
    <3>1. x - p \in Nat /\ y - p \in Nat /\ x - p < y - p /\ ~(x < p) /\ ~(y < p)
      BY <1>1, <2>1, <2>6
    <3>2. Response(x) = r * (x - p) /\ Response(y) = r * (y - p)
      BY <2>3, <3>1
    <3> QED BY <1>3, <2>1, <3>1, <3>2
  <2> QED BY <2>1, <2>4, <2>5, <2>6 DEF p
<1>5. CASE score \in Rough
  <2>1. score[1] \in Nat /\ score[2] \in Nat \ {0} /\ Len(score) = 2
    <3>1. score \in Nat \X (Nat \ {0})
      BY <1>5, TunerAssumption
    <3> QED BY <3>1
  <2>2. ~Peaked
    BY <2>1 DEF Peaked
  <2>3. ASSUME NEW x \in Lo..Hi PROVE Response(x) \in Nat
    <3> DEFINE k == score[1]
               m == score[2]
               y == k * x
    <3>1. x \in Nat /\ y \in Nat
      BY <1>1, <1>2, <2>1
    <3>2. Response(x) = y % m
      BY <2>2 DEF Response
    <3> HIDE DEF k, m, y
    <3>3. m \in Nat \ {0}
      BY <2>1 DEF m
    <3> QED BY <3>1, <3>2, <3>3
  <2> QED BY <2>2, <2>3
<1> QED BY <1>1, <1>4, <1>5 DEF Responses

(* What was probed is the response there. *)
Probes ==
    /\ log \in Seq((Lo..Hi) \X Nat)
    /\ \A i \in 1..Len(log) : log[i][2] = Response(log[i][1])

LEMMA ValueIs ==
  ASSUME Probes, NEW x, Probed(x)
  PROVE  Value(x) = Response(x) /\ x \in Lo..Hi
<1> DEFINE i == CHOOSE j \in DOMAIN log : log[j][1] = x
<1>1. \A j \in DOMAIN log : j \in 1..Len(log) /\ log[j] \in (Lo..Hi) \X Nat
  <2>1. log \in Seq((Lo..Hi) \X Nat)
    BY DEF Probes
  <2> QED BY <2>1
<1>2. i \in DOMAIN log /\ log[i][1] = x
  BY DEF Probed
<1> HIDE DEF i
<1>3. log[i][2] = Response(x) /\ log[i] \in (Lo..Hi) \X Nat
  BY <1>1, <1>2 DEF Probes
<1>4. Value(x) = log[i][2]
  BY DEF Value, i
<1> QED BY <1>2, <1>3, <1>4

(* The best point was probed, and no point that was is better. *)
LEMMA BestPointIs ==
  ASSUME Probes, Len(log) > 0
  PROVE  BestPoint \in Lo..Hi /\ Probed(BestPoint) /\ \A x : Probed(x) => Response(BestPoint) <= Response(x)
<1> DEFINE S == DOMAIN log
           f == [i \in S |-> log[i][2]]
           g == [i \in S |-> i]
           v == CHOOSE x \in S : \A y \in S \ {x} : Lex(<<log[x][2], x>>, <<log[y][2], y>>)
<1>1. log \in Seq((Lo..Hi) \X Nat)
  BY DEF Probes
<1>2. S = 1..Len(log) /\ Len(log) \in Nat /\ \A i \in S : log[i][1] \in Lo..Hi /\ log[i][2] \in Nat /\ i \in Nat
  <2>1. \A i \in 1..Len(log) : log[i] \in (Lo..Hi) \X Nat
    BY <1>1
  <2> QED BY <1>1, <2>1
<1>3. \A i \in S : f[i] = log[i][2] /\ g[i] = i
  OBVIOUS
<1>4. 1 \in S
  BY <1>2
<1>5. f \in [S -> Nat] /\ g \in [S -> Nat]
  BY <1>2
<1>6. BestPoint = log[v][1]
  BY DEF BestPoint, Least
<1> HIDE DEF f, g, S
<1>7. v = ByTwo(S, f, g)
  <2>1. ASSUME NEW x
        PROVE  (x \in S /\ \A y \in S \ {x} : Lex(<<f[x], g[x]>>, <<f[y], g[y]>>)) <=>
               (x \in S /\ \A y \in S \ {x} : Lex(<<log[x][2], x>>, <<log[y][2], y>>))
    BY <1>3, Zenon
  <2> QED BY <2>1 DEF ByTwo
<1> HIDE DEF v
<1>8. v \in S /\ \A y \in S \ {v} : f[v] < f[y] \/ (f[v] = f[y] /\ g[v] < g[y])
  <2> DEFINE u == ByTwo(S, f, g)
  <2>1. \A x, y \in S : g[x] = g[y] => x = y
    BY <1>3
  <2>2. u \in S /\ \A y \in S \ {u} : f[u] < f[y] \/ (f[u] = f[y] /\ g[u] < g[y])
    BY <1>4, <1>5, <2>1, ByTwoIs
  <2> HIDE DEF u
  <2>3. v = u
    BY <1>7 DEF u
  <2> QED BY <2>2, <2>3
<1>9. \A i \in S : log[v][2] <= log[i][2]
  <2> TAKE i \in S
  <2>1. log[v][2] \in Nat /\ log[i][2] \in Nat
    BY <1>2, <1>8
  <2>2. i = v \/ f[v] <= f[i]
    <3>1. f[v] \in Nat /\ f[i] \in Nat
      BY <1>5, <1>8
    <3> QED BY <1>8, <3>1
  <2> QED BY <1>3, <1>8, <2>1, <2>2
<1>10. Probed(BestPoint) /\ BestPoint \in Lo..Hi
  BY <1>2, <1>6, <1>8 DEF Probed, S
<1>11. ASSUME NEW x, Probed(x) PROVE Response(BestPoint) <= Response(x)
  <2>1. PICK i \in S : log[i][1] = x
    BY <1>11 DEF Probed, S
  <2>2. \A k \in S : log[k][2] = Response(log[k][1])
    BY <1>2 DEF Probes
  <2>3. log[v][2] = Response(BestPoint) /\ log[i][2] = Response(x)
    BY <1>6, <1>8, <2>1, <2>2
  <2> QED BY <1>9, <2>1, <2>3
<1> QED BY <1>10, <1>11

(* No coarse point is better than the best of them. *)
LEMMA BestCoarseIs ==
  ASSUME Contested, mode = "local", Probes, \A i \in 1..Coarse : Probed(Point(i))
  PROVE  /\ BestCoarse \in 1..Coarse
         /\ \A i \in 1..Coarse : Response(Point(BestCoarse)) <= Response(Point(i))
<1> DEFINE S == 1..Coarse
           f == [i \in S |-> Value(Point(i))]
           g == [i \in S |-> i]
           v == CHOOSE x \in S : \A y \in S \ {x} : Lex(<<Value(Point(x)), x>>, <<Value(Point(y)), y>>)
<1>1. Coarse \in Nat \ {0}
  BY TunerAssumption
<1>2. \A i \in S : Value(Point(i)) = Response(Point(i)) /\ Response(Point(i)) \in Nat
  <2> TAKE i \in S
  <2>1. Value(Point(i)) = Response(Point(i)) /\ Point(i) \in Lo..Hi
    BY ValueIs
  <2> QED BY <2>1, ResponsesAre
<1>3. \A i \in S : f[i] = Value(Point(i)) /\ g[i] = i /\ f[i] = Response(Point(i)) /\ f[i] \in Nat
  BY <1>2
<1>4. 1 \in S
  BY <1>1
<1>5. f \in [S -> Nat] /\ g \in [S -> Nat]
  BY <1>2
<1>6. BestCoarse = v
  BY DEF BestCoarse, Least
<1> HIDE DEF f, g, S
<1>7. v = ByTwo(S, f, g)
  <2>1. ASSUME NEW x
        PROVE  (x \in S /\ \A y \in S \ {x} : Lex(<<f[x], g[x]>>, <<f[y], g[y]>>)) <=>
               (x \in S /\ \A y \in S \ {x} : Lex(<<Value(Point(x)), x>>, <<Value(Point(y)), y>>))
    BY <1>3, Zenon
  <2> QED BY <2>1 DEF ByTwo
<1> HIDE DEF v
<1>8. v \in S /\ \A y \in S \ {v} : f[v] < f[y] \/ (f[v] = f[y] /\ g[v] < g[y])
  <2> DEFINE u == ByTwo(S, f, g)
  <2>1. \A x, y \in S : g[x] = g[y] => x = y
    BY <1>3
  <2>2. u \in S /\ \A y \in S \ {u} : f[u] < f[y] \/ (f[u] = f[y] /\ g[u] < g[y])
    BY <1>4, <1>5, <2>1, ByTwoIs
  <2> HIDE DEF u
  <2>3. v = u
    BY <1>7 DEF u
  <2> QED BY <2>2, <2>3
<1>9. \A i \in S : Response(Point(v)) <= Response(Point(i))
  <2> TAKE i \in S
  <2>1. f[v] \in Nat /\ f[i] \in Nat /\ f[v] = Response(Point(v)) /\ f[i] = Response(Point(i))
    BY <1>3, <1>8
  <2>2. i = v \/ f[v] <= f[i]
    BY <1>8, <2>1
  <2> QED BY <2>1, <2>2
<1> QED BY <1>6, <1>8, <1>9 DEF S

(* The neighbours of a coarse point. *)
HighEnd(i) == Point(Min({Coarse, i + 1}))
LEMMA EndsAre ==
  ASSUME NEW i \in 1..Coarse
  PROVE  /\ LowEnd(i) = (IF i = 1 THEN Point(1) ELSE Point(i - 1))
         /\ HighEnd(i) = (IF i = Coarse THEN Point(Coarse) ELSE Point(i + 1))
         /\ i # 1 => i - 1 \in 1..Coarse
         /\ i # Coarse => i + 1 \in 1..Coarse
         /\ LowEnd(i) \in Lo..Hi /\ HighEnd(i) \in Lo..Hi /\ LowEnd(i) < HighEnd(i)
<1>1. Coarse \in Nat /\ Coarse > 1 /\ i \in Nat /\ 1 <= i /\ i <= Coarse
  BY TunerAssumption
<1>2. Max({1, i - 1}) = IF i = 1 THEN 1 ELSE i - 1
  <2> DEFINE S == {1, i - 1}
             m == IF i = 1 THEN 1 ELSE i - 1
  <2>1. m \in S /\ m \in Int /\ \A x \in S : x \in Int /\ m >= x
    BY <1>1
  <2> HIDE DEF S, m
  <2>2. Max(S) \in S /\ \A x \in S : Max(S) >= x
    BY <2>1 DEF Max
  <2> DEFINE x == Max(S)
  <2>3. x = m
    <3>1. x \in S /\ x \in Int /\ x >= m /\ m >= x
      BY <2>1, <2>2
    <3> HIDE DEF x
    <3> QED BY <2>1, <3>1
  <2> QED BY <2>3 DEF S, m
<1>3. Min({Coarse, i + 1}) = IF i = Coarse THEN Coarse ELSE i + 1
  <2>1. Coarse \in Int /\ i + 1 \in Int
    BY <1>1
  <2>2. Min({Coarse, i + 1}) = IF Coarse <= i + 1 THEN Coarse ELSE i + 1
    BY <2>1, MinOfTwo
  <2> QED BY <1>1, <2>2
<1>4. /\ LowEnd(i) = (IF i = 1 THEN Point(1) ELSE Point(i - 1))
      /\ HighEnd(i) = (IF i = Coarse THEN Point(Coarse) ELSE Point(i + 1))
  BY <1>2, <1>3 DEF LowEnd, HighEnd
<1>5. (i # 1 => i - 1 \in 1..Coarse) /\ (i # Coarse => i + 1 \in 1..Coarse) /\ 1 \in 1..Coarse /\ Coarse \in 1..Coarse
  BY <1>1
<1>6. LowEnd(i) \in Lo..Hi /\ HighEnd(i) \in Lo..Hi
  BY <1>4, <1>5, PointsRise
<1>7. LowEnd(i) < HighEnd(i)
  <2> DEFINE k == IF i = 1 THEN 1 ELSE i - 1
             l == IF i = Coarse THEN Coarse ELSE i + 1
  <2>1. k \in 1..Coarse /\ l \in 1..Coarse /\ k < l
    BY <1>1, <1>5
  <2>2. LowEnd(i) = Point(k) /\ HighEnd(i) = Point(l)
    BY <1>4
  <2> HIDE DEF k, l
  <2> QED BY <2>1, <2>2, PointsRise
<1> QED BY <1>4, <1>5, <1>6, <1>7

(* All that the bracket is made of are points, its ends were probed. *)
Inside ==
    bracket # <<>> => /\ bracket = <<a, c, d, b>>
                      /\ a \in Lo..Hi /\ c \in Lo..Hi /\ d \in Lo..Hi /\ b \in Lo..Hi
                      /\ Probed(a) /\ Probed(b)

TunerInv ==
    mode = "local" =>
        /\ Probes /\ Inside
        /\ at \in {"coarse", "bracket"} =>
             bracket = <<>> /\ Len(log) <= Coarse /\ \A i \in 1..Len(log) : log[i][1] = Point(i)
        /\ at = "coarse" => Len(log) < Coarse
        /\ at = "bracket" => Len(log) = Coarse \/ stop \/ cleared
        /\ at \in {"bracket", "golden", "tuned"} => Len(log) > 0
        /\ at = "golden" => bracket # <<>>
        /\ at = "error" => cleared
        /\ out = None \/ out[1] \in (0..100) \X BOOLEAN

LEMMA TunerStarts == Init => TunerInv
<1> SUFFICES ASSUME Init, mode = "local" PROVE TunerInv
  BY DEF TunerInv
<1>1. log = <<>> /\ bracket = <<>> /\ at = "coarse" /\ out = None
  BY DEF Init
<1>2. log \in Seq((Lo..Hi) \X Nat) /\ Len(log) = 0 /\ 1..0 = {} /\ 0 < Coarse
  BY <1>1, TunerAssumption
<1>3. Probes /\ Inside /\ \A i \in 1..Len(log) : log[i][1] = Point(i)
  BY <1>1, <1>2 DEF Probes, Inside
<1>4. Len(log) <= Coarse /\ Len(log) < Coarse
  BY <1>2, TunerAssumption
<1> QED BY <1>1, <1>3, <1>4 DEF TunerInv

(* A point more. *)
LEMMA ProbeMore ==
  ASSUME Contested, mode = "local", Kept, Probes, NEW x \in Lo..Hi, Probe(x)
  PROVE  /\ Probes' /\ Len(log') = Len(log) + 1 /\ Len(log) \in Nat
         /\ log'[Len(log) + 1][1] = x /\ \A i \in 1..Len(log) : log'[i] = log[i]
         /\ \A y : Probed(y) => Probed(y)'
<1> DEFINE R == (Lo..Hi) \X Nat
           r == <<x, Response(x)>>
<1>1. log \in Seq(R) /\ r \in R /\ log' = Append(log, r)
  BY ResponsesAre DEF Probes, Probe
<1>2. r[1] = x /\ r[2] = Response(x)
  OBVIOUS
<1> HIDE DEF R, r
<1>3. /\ log' \in Seq(R) /\ Len(log') = Len(log) + 1 /\ Len(log) \in Nat
      /\ log'[Len(log) + 1] = r /\ \A i \in 1..Len(log) : log'[i] = log[i]
      /\ DOMAIN log = 1..Len(log) /\ DOMAIN log' = 1..(Len(log) + 1)
  <2>1. log' \in Seq(R) /\ Len(log') = Len(log) + 1 /\ Len(log) \in Nat /\ log'[Len(log) + 1] = r
    BY <1>1
  <2>2. \A i \in 1..Len(log) : log'[i] = log[i]
    BY <1>1
  <2>3. DOMAIN log = 1..Len(log) /\ DOMAIN log' = 1..Len(log')
    BY <1>1, <2>1
  <2> QED BY <2>1, <2>2, <2>3
<1>4. \A y : Response(y)' = Response(y)
  BY DEF Kept, Response, Peaked
<1>5. \A i \in 1..Len(log') : log'[i][2] = Response(log'[i][1])
  <2> TAKE i \in 1..Len(log')
  <2>1. i = Len(log) + 1 \/ i \in 1..Len(log)
    BY <1>3
  <2> QED BY <1>2, <1>3, <2>1 DEF Probes
<1>6. Probes'
  BY <1>3, <1>4, <1>5 DEF Probes, R
<1>7. \A y : Probed(y) => Probed(y)'
  <2> SUFFICES ASSUME NEW y, Probed(y) PROVE \E i \in DOMAIN log' : log'[i][1] = y
    BY DEF Probed
  <2>1. PICK i \in DOMAIN log : log[i][1] = y
    BY DEF Probed
  <2>2. i \in DOMAIN log' /\ log'[i] = log[i]
    BY <1>3, <2>1
  <2> QED BY <2>1, <2>2
<1> QED BY <1>2, <1>3, <1>6, <1>7

LEMMA TunerStays == Contested /\ TunerInv /\ [Next]_vars => TunerInv'
<1> SUFFICES ASSUME Contested, TunerInv, [Next]_vars PROVE TunerInv'
  OBVIOUS
<1>1. Kept
  BY EveryStepKeeps
<1> SUFFICES ASSUME mode = "local" PROVE TunerInv'
  BY <1>1 DEF Kept, TunerInv
<1>2. (\A y : Response(y)' = Response(y)) /\ None' = None
  BY <1>1 DEF Kept, Response, Peaked, None
<1>3. Lo \in Nat /\ Hi \in Nat /\ Hi <= 1000 /\ Coarse \in Nat /\ Coarse > 1
  BY TunerAssumption
<1>4. /\ Probes /\ Inside
      /\ at \in {"coarse", "bracket"} =>
             bracket = <<>> /\ Len(log) <= Coarse /\ \A i \in 1..Len(log) : log[i][1] = Point(i)
      /\ at = "coarse" => Len(log) < Coarse
      /\ at = "bracket" => Len(log) = Coarse \/ stop \/ cleared
      /\ at \in {"bracket", "golden", "tuned"} => Len(log) > 0
      /\ at = "golden" => bracket # <<>>
      /\ at = "error" => cleared
      /\ out = None \/ out[1] \in (0..100) \X BOOLEAN
  BY DEF TunerInv
<1>5. ASSUME log' = log PROVE Probes' /\ (\A y : Probed(y)' = Probed(y)) /\ (\A y : Value(y)' = Value(y))
  BY <1>2, <1>4, <1>5 DEF Probes, Probed, Value
<1>6. ASSUME log' = log, bracket' = bracket PROVE Probes' /\ Inside'
  BY <1>4, <1>5, <1>6 DEF Inside, a, b, c, d
<1>7. Len(log) \in Nat /\ DOMAIN log = 1..Len(log)
  <2>1. log \in Seq((Lo..Hi) \X Nat)
    BY <1>4 DEF Probes
  <2> QED BY <2>1
<1>8. ASSUME CoarseProbe PROVE TunerInv'
  <2> DEFINE x == Point(Len(log) + 1)
  <2>1. at = "coarse" /\ Probe(x) /\ at' = (IF stop \/ Len(log') = Coarse THEN "bracket" ELSE at)
        /\ bracket' = bracket /\ out' = out /\ stop' = stop /\ cleared' = cleared
    BY <1>8 DEF CoarseProbe, contest
  <2>2. Len(log) + 1 \in 1..Coarse
    BY <1>3, <1>4, <1>7, <2>1
  <2>3. x \in Lo..Hi
    BY <2>2, PointsRise
  <2>4. /\ Probes' /\ Len(log') = Len(log) + 1
        /\ log'[Len(log) + 1][1] = x /\ \A i \in 1..Len(log) : log'[i] = log[i]
    <3> HIDE DEF x
    <3> QED BY <1>1, <1>4, <2>1, <2>3, ProbeMore
  <2>5. bracket = <<>>
    BY <1>4, <2>1
  <2>6. Inside'
    BY <2>1, <2>5 DEF Inside
  <2>7. \A i \in 1..Len(log') : log'[i][1] = Point(i)
    <3> TAKE i \in 1..Len(log')
    <3>1. i = Len(log) + 1 \/ i \in 1..Len(log)
      BY <1>7, <2>4
    <3> QED BY <1>4, <2>1, <2>4, <3>1
  <2>8. Len(log') <= Coarse /\ Len(log') > 0 /\ (at' = "coarse" => Len(log') < Coarse)
        /\ (at' = "bracket" => Len(log') = Coarse \/ stop') /\ at' \in {"coarse", "bracket"}
    BY <1>3, <1>4, <1>7, <2>1, <2>2, <2>4
  <2> HIDE DEF x
  <2> QED BY <1>2, <1>4, <2>1, <2>4, <2>5, <2>6, <2>7, <2>8 DEF TunerInv
<1>9. ASSUME Bracket PROVE TunerInv'
  <2>1. /\ at = "bracket" /\ log' = log /\ out' = out /\ stop' = stop /\ cleared' = cleared
        /\ \/ stop /\ at' = "tuned" /\ bracket' = bracket
           \/ ~stop /\ (\E i \in 1..Coarse : ~Probed(Point(i))) /\ at' = "error" /\ bracket' = bracket
           \/ /\ \A i \in 1..Coarse : Probed(Point(i))
              /\ LET low  == LowEnd(BestCoarse)
                     high == Point(Min({Coarse, BestCoarse + 1}))
                     cut  == Golden(high - low)
                 IN  bracket' = <<low, high - cut, low + cut, high>> /\ at' = "golden"
    BY <1>9 DEF Bracket, contest
  <2>2. CASE stop /\ at' = "tuned" /\ bracket' = bracket
    BY <1>2, <1>4, <1>6, <2>1, <2>2 DEF TunerInv
  <2>3. CASE ~stop /\ (\E i \in 1..Coarse : ~Probed(Point(i))) /\ at' = "error" /\ bracket' = bracket
    <3>1. PICK i \in 1..Coarse : ~Probed(Point(i))
      BY <2>3
    <3>2. Len(log) # Coarse
      <4> SUFFICES ASSUME Len(log) = Coarse PROVE Probed(Point(i))
        BY <3>1
      <4>1. i \in DOMAIN log /\ log[i][1] = Point(i)
        BY <1>4, <1>7, <2>1
      <4> QED BY <4>1 DEF Probed
    <3>3. cleared
      BY <1>4, <2>1, <2>3, <3>2
    <3> QED BY <1>2, <1>4, <1>6, <2>1, <2>3, <3>3 DEF TunerInv
  <2>4. CASE /\ \A i \in 1..Coarse : Probed(Point(i))
             /\ LET low  == LowEnd(BestCoarse)
                    high == Point(Min({Coarse, BestCoarse + 1}))
                    cut  == Golden(high - low)
                IN  bracket' = <<low, high - cut, low + cut, high>> /\ at' = "golden"
    <3> DEFINE i == BestCoarse
               low == LowEnd(i)
               high == HighEnd(i)
               cut == Golden(high - low)
    <3>1. bracket' = <<low, high - cut, low + cut, high>> /\ at' = "golden"
      BY <2>4 DEF HighEnd
    <3>2. i \in 1..Coarse
      BY <1>4, <2>4, BestCoarseIs
    <3> HIDE DEF i
    <3>3. /\ low \in Lo..Hi /\ high \in Lo..Hi /\ low < high
          /\ low = Point(IF i = 1 THEN 1 ELSE i - 1) /\ (IF i = 1 THEN 1 ELSE i - 1) \in 1..Coarse
          /\ high = Point(IF i = Coarse THEN Coarse ELSE i + 1) /\ (IF i = Coarse THEN Coarse ELSE i + 1) \in 1..Coarse
      BY <1>3, <3>2, EndsAre
    <3>4. Probed(low) /\ Probed(high)
      BY <2>4, <3>3
    <3> HIDE DEF low, high
    <3>5. cut \in Int /\ 0 <= cut /\ cut <= high - low
      BY <1>3, <3>3, GoldenBetween
    <3> HIDE DEF cut
    <3>6. high - cut \in Lo..Hi /\ low + cut \in Lo..Hi
      BY <1>3, <3>3, <3>5
    <3>7. a' = low /\ c' = high - cut /\ d' = low + cut /\ b' = high /\ bracket' # <<>>
          /\ bracket' = <<a', c', d', b'>>
      BY <3>1 DEF a, b, c, d
    <3>8. Inside'
      <4>1. (\E i2 \in DOMAIN log' : log'[i2][1] = low) /\ (\E i2 \in DOMAIN log' : log'[i2][1] = high)
        BY <2>1, <3>4 DEF Probed
      <4>2. (\E i2 \in DOMAIN log' : log'[i2][1] = a') /\ (\E i2 \in DOMAIN log' : log'[i2][1] = b')
        BY <3>7, <4>1
      <4> QED BY <3>3, <3>6, <3>7, <4>2 DEF Inside, Probed
    <3>9. Probes'
      BY <1>5, <2>1
    <3> QED BY <1>2, <1>4, <2>1, <3>1, <3>7, <3>8, <3>9 DEF TunerInv
  <2> QED BY <2>1, <2>2, <2>3, <2>4
<1>10. ASSUME GoldenProbe PROVE TunerInv'
  <2> DEFINE x == IF Probed(c) THEN d ELSE c
  <2>1. at = "golden" /\ at' = at /\ Probe(x) /\ bracket' = bracket /\ out' = out /\ stop' = stop /\ cleared' = cleared
    BY <1>10 DEF GoldenProbe, contest
  <2>2. bracket # <<>> /\ x \in Lo..Hi
    BY <1>4, <2>1 DEF Inside
  <2> HIDE DEF x
  <2>3. Probes' /\ Len(log') = Len(log) + 1 /\ \A y : Probed(y) => Probed(y)'
    BY <1>1, <1>4, <2>1, <2>2, ProbeMore
  <2>4. a' = a /\ b' = b /\ c' = c /\ d' = d
    BY <2>1 DEF a, b, c, d
  <2>5. Inside'
    <3>1. \A y : Probed(y) => \E i \in DOMAIN log' : log'[i][1] = y
      BY <2>3 DEF Probed
    <3>2. Probed(a) /\ Probed(b)
      BY <1>4, <2>2 DEF Inside
    <3>3. (\E i \in DOMAIN log' : log'[i][1] = a') /\ (\E i \in DOMAIN log' : log'[i][1] = b')
      BY <2>4, <3>1, <3>2
    <3> QED BY <1>4, <2>1, <2>2, <2>4, <3>3 DEF Inside, Probed
  <2>6. Len(log') > 0
    BY <1>7, <2>3
  <2> QED BY <1>2, <1>4, <2>1, <2>2, <2>3, <2>5, <2>6 DEF TunerInv
<1>11. ASSUME Narrow PROVE TunerInv'
  <2>1. /\ at = "golden" /\ at' = at /\ log' = log /\ out' = out /\ stop' = stop /\ cleared' = cleared
        /\ Probed(c) /\ Probed(d)
        /\ \/ bracket' = <<a, d - Golden(d - a), c, d>>
           \/ bracket' = <<c, d, c + Golden(b - c), b>>
    BY <1>11 DEF Narrow, contest
  <2>2. bracket # <<>> /\ a \in Lo..Hi /\ c \in Lo..Hi /\ d \in Lo..Hi /\ b \in Lo..Hi /\ Probed(a) /\ Probed(b)
    BY <1>4, <2>1 DEF Inside
  <2> DEFINE e == d - Golden(d - a)
             g == c + Golden(b - c)
  <2>3. e \in Lo..Hi /\ g \in Lo..Hi
    <3> DEFINE v == Golden(d - a)
               w == Golden(b - c)
    <3>1. d - a \in Int /\ b - c \in Int
      BY <1>3, <2>2
    <3>2. /\ v \in Int /\ w \in Int
          /\ d - a >= 0 => 0 <= v /\ v <= d - a
          /\ d - a <= 0 => d - a <= v /\ v <= 0
          /\ b - c >= 0 => 0 <= w /\ w <= b - c
          /\ b - c <= 0 => b - c <= w /\ w <= 0
      BY <3>1, GoldenBetween
    <3> HIDE DEF v, w
    <3>3. d - v \in Lo..Hi /\ c + w \in Lo..Hi
      BY <1>3, <2>2, <3>2
    <3> QED BY <3>3 DEF v, w
  <2> HIDE DEF e, g
  <2>4. Inside' /\ bracket' # <<>>
    <3>1. CASE bracket' = <<a, e, c, d>>
      <4>1. a' = a /\ c' = e /\ d' = c /\ b' = d
        BY <3>1 DEF a, b, c, d
      <4>2. (\E i \in DOMAIN log' : log'[i][1] = a') /\ (\E i \in DOMAIN log' : log'[i][1] = b')
        BY <2>1, <2>2, <4>1 DEF Probed
      <4>3. bracket' # <<>>
        BY <3>1
      <4> QED BY <2>2, <2>3, <3>1, <4>1, <4>2, <4>3 DEF Inside, Probed
    <3>2. CASE bracket' = <<c, d, g, b>>
      <4>1. a' = c /\ c' = d /\ d' = g /\ b' = b
        BY <3>2 DEF a, b, c, d
      <4>2. (\E i \in DOMAIN log' : log'[i][1] = a') /\ (\E i \in DOMAIN log' : log'[i][1] = b')
        BY <2>1, <2>2, <4>1 DEF Probed
      <4>3. bracket' # <<>>
        BY <3>2
      <4> QED BY <2>2, <2>3, <3>2, <4>1, <4>2, <4>3 DEF Inside, Probed
    <3> QED BY <2>1, <3>1, <3>2 DEF e, g
  <2>5. Probes'
    BY <1>5, <2>1
  <2> QED BY <1>2, <1>4, <2>1, <2>4, <2>5 DEF TunerInv
<1>12. ASSUME Narrowed PROVE TunerInv'
  <2>1. /\ at = "golden" /\ at' = "tuned" /\ log' = log /\ bracket' = bracket
        /\ out' = out /\ stop' = stop /\ cleared' = cleared
    BY <1>12 DEF Narrowed, contest
  <2> QED BY <1>2, <1>4, <1>6, <2>1 DEF TunerInv
<1>13. ASSUME Tuned PROVE TunerInv'
  <2>1. /\ at = "tuned" /\ stop' = stop /\ cleared' = cleared
        /\ \/ at' = "done" /\ log' = log /\ bracket' = bracket
           \/ at' = "coarse" /\ log' = <<>> /\ bracket' = <<>>
    BY <1>13 DEF Tuned, contest
  <2>2. out' = None \/ out'[1] \in (0..100) \X BOOLEAN
    <3>1. PICK pct \in Percent(BestPoint), v \in Scores :
             out' = IF out = None \/ v < out[2] THEN <<<<pct, flex>>, v>> ELSE out
      BY <1>13 DEF Tuned
    <3>2. BestPoint \in Lo..Hi
      BY <1>4, <2>1, BestPointIs
    <3>3. pct \in 0..100
      <4> DEFINE x == BestPoint
      <4>1. x \in Nat /\ x <= 1000
        BY <1>3, <3>2
      <4>2. pct = (x + 4) \div 10 \/ pct = (x + 5) \div 10
        BY <3>1 DEF Percent
      <4> HIDE DEF x
      <4> QED BY <4>1, <4>2
    <3>4. flex \in BOOLEAN
      BY DEF Contested
    <3>5. <<pct, flex>> \in (0..100) \X BOOLEAN
      BY <3>3, <3>4
    <3> QED BY <1>4, <3>1, <3>5
  <2>3. CASE at' = "done" /\ log' = log /\ bracket' = bracket
    BY <1>2, <1>4, <1>6, <2>1, <2>2, <2>3 DEF TunerInv
  <2>4. CASE at' = "coarse" /\ log' = <<>> /\ bracket' = <<>>
    <3>1. log' \in Seq((Lo..Hi) \X Nat) /\ Len(log') = 0 /\ 1..0 = {} /\ 0 < Coarse
      BY <1>3, <2>4
    <3>2. Probes' /\ Inside'
      BY <2>4, <3>1 DEF Probes, Inside
    <3>3. Len(log') <= Coarse /\ Len(log') < Coarse /\ \A i \in 1..Len(log') : log'[i][1] = Point(i)
      BY <1>3, <3>1
    <3> QED BY <1>2, <2>2, <2>4, <3>1, <3>2, <3>3 DEF TunerInv
  <2> QED BY <2>1, <2>3, <2>4
<1>14. ASSUME Cancel PROVE TunerInv'
  <2>1. log' = log /\ bracket' = bracket /\ out' = out /\ stop' = TRUE /\ cleared' = cleared /\ at' = at
    BY <1>14 DEF Cancel, contest
  <2> QED BY <1>2, <1>4, <1>6, <2>1 DEF TunerInv
<1>15. ASSUME Cleared PROVE TunerInv'
  <2>1. log' = log /\ bracket' = bracket /\ out' = out /\ cleared' = TRUE /\ at' = at
    BY <1>15 DEF Cleared
  <2> QED BY <1>2, <1>4, <1>6, <2>1 DEF TunerInv
<1>16. ASSUME Idle \/ UNCHANGED vars PROVE TunerInv'
  <2>1. log' = log /\ bracket' = bracket /\ out' = out /\ stop' = stop /\ cleared' = cleared /\ at' = at
    BY <1>16 DEF Idle, vars
  <2> QED BY <1>2, <1>4, <1>6, <2>1 DEF TunerInv
<1>17. ASSUME NEW k \in 1..Shards, ShardPosts(k) \/ ShardFails(k) PROVE TunerInv'
  BY <1>17 DEF ShardPosts, ShardFails
<1>18. ASSUME Merge \/ MatrixPosts \/ Reduce \/ SweepNext \/ SweepEnds \/ Apply PROVE TunerInv'
  BY <1>18 DEF Merge, MatrixPosts, Reduce, SweepNext, SweepEnds, Apply
<1> QED BY <1>8, <1>9, <1>10, <1>11, <1>12, <1>13, <1>14, <1>15, <1>16, <1>17, <1>18 DEF Next, Step

(* A plan that is applied is searched for at the setting in force. *)
PlansInv ==
    mode \notin {"cloud", "sweep", "matrix", "local"} => out = None \/ out = <<current, 0>>

LEMMA PlansStarts == Init => PlansInv
  BY DEF Init, PlansInv

LEMMA PlansStay == Contested /\ PlansInv /\ [Next]_vars => PlansInv'
<1> SUFFICES ASSUME Contested, PlansInv, [Next]_vars PROVE PlansInv'
  OBVIOUS
<1>1. Kept
  BY EveryStepKeeps
<1> SUFFICES ASSUME mode \notin {"cloud", "sweep", "matrix", "local"} PROVE PlansInv'
  BY <1>1 DEF Kept, PlansInv
<1>2. at \notin {"coarse", "bracket", "golden", "tuned"} /\ None' = None
  BY DEF Contested, Stages, None
<1>3. ASSUME out' = out PROVE PlansInv'
  BY <1>1, <1>2, <1>3 DEF PlansInv, Kept
<1>4. ASSUME Apply PROVE PlansInv'
  <2>1. out' = None \/ out' = <<current, 0>>
    BY <1>4 DEF Apply
  <2> QED BY <1>1, <1>2, <2>1 DEF PlansInv, Kept
<1>5. ASSUME NEW k \in 1..Shards, ShardPosts(k) \/ ShardFails(k) PROVE PlansInv'
  BY <1>5 DEF ShardPosts, ShardFails
<1>6. ASSUME Merge \/ MatrixPosts \/ Reduce \/ SweepNext \/ SweepEnds PROVE PlansInv'
  BY <1>6 DEF Merge, MatrixPosts, Reduce, SweepNext, SweepEnds
<1>7. ASSUME CoarseProbe \/ Bracket \/ GoldenProbe \/ Narrow \/ Narrowed \/ Tuned PROVE PlansInv'
  BY <1>2, <1>7 DEF CoarseProbe, Bracket, GoldenProbe, Narrow, Narrowed, Tuned
<1>8. ASSUME Cancel \/ Cleared \/ Idle \/ UNCHANGED vars PROVE PlansInv'
  <2>1. out' = out
    BY <1>8 DEF Cancel, Cleared, Idle, vars
  <2> QED BY <1>3, <2>1
<1> QED BY <1>4, <1>5, <1>6, <1>7, <1>8 DEF Next, Step

(* What the contests of every kind keep to. *)
ContestInv == Contested /\ CloudInv /\ SweepInv /\ MatrixInv /\ TunerInv /\ PlansInv

LEMMA ContestStarts == Init => ContestInv
  BY ContestedStarts, CloudStarts, SweepStarts, MatrixStarts, TunerStarts, PlansStarts DEF ContestInv

LEMMA ContestStays == ContestInv /\ [Next]_vars => ContestInv'
  BY ContestedStays, CloudStays, SweepStays, MatrixStays, TunerStays, PlansStay DEF ContestInv

LEMMA WinnersAreCandidates == ContestInv => TypeOK
<1> SUFFICES ASSUME ContestInv PROVE TypeOK
  OBVIOUS
<1> USE DEF ContestInv
<1>1. at \in {"run", "coarse", "bracket", "golden", "tuned", "done", "error"}
  BY DEF Contested, Stages
<1>2. ASSUME mode = "local" PROVE \A i \in DOMAIN log : log[i][1] \in Lo..Hi
  <2>1. log \in Seq((Lo..Hi) \X Nat)
    BY <1>2 DEF TunerInv, Probes
  <2>2. \A i \in DOMAIN log : log[i] \in (Lo..Hi) \X Nat
    BY <2>1
  <2> QED BY <2>2
<1>3. ASSUME out # None PROVE out[1] \in Jobs \cup Matrix \cup ((0..100) \X BOOLEAN)
  <2>1. CASE mode = "cloud"
    <3>1. at = "done" /\ out = PickWinner(AllRows)
      BY <1>3, <2>1 DEF CloudInv
    <3>2. AllRows \in Seq(RowSet)
      BY <2>1, MergedRows
    <3> DEFINE n == Len(AllRows)
    <3>3. n \in Nat /\ DOMAIN AllRows = 1..n /\ \A i \in 1..n : AllRows[i] \in RowSet
      BY <3>2
    <3> HIDE DEF n
    <3>4. \A i \in 1..n : AllRows[i][2] \in Nat /\ AllRows[i][1][1] \in Nat /\ AllRows[i][1] \in Jobs
      BY <2>1, <3>3, RowNumbers
    <3>5. (Whole(AllRows) = {} => out = None) /\ (Whole(AllRows) # {} => \E i \in Whole(AllRows) : out = AllRows[i])
      BY <3>1, <3>3, <3>4, WinnerIs
    <3>6. PICK i \in Whole(AllRows) : out = AllRows[i]
      BY <1>3, <3>5
    <3>7. i \in 1..n
      BY <3>3 DEF Whole
    <3> QED BY <3>4, <3>6, <3>7
  <2>2. CASE mode = "sweep"
    <3>1. log \in Seq(RowSet) /\ BestSoFar(log, out)
      BY <2>2 DEF SweepInv
    <3>2. PICK i \in 1..Len(log) : out = log[i]
      BY <1>3, <3>1 DEF BestSoFar
    <3>3. out \in RowSet
      BY <3>1, <3>2
    <3> QED BY <2>2, <3>3, RowNumbers
  <2>3. CASE mode = "matrix"
    BY <1>3, <2>3, ReducedJob
  <2>4. CASE mode = "local"
    BY <1>3, <2>4 DEF TunerInv
  <2>5. CASE mode \notin {"cloud", "sweep", "matrix", "local"}
    <3>1. out = <<current, 0>> /\ current \in (0..100) \X BOOLEAN
      BY <1>3, <2>5 DEF PlansInv, Contested, Setting
    <3> QED BY <3>1
  <2> QED BY <2>1, <2>2, <2>3, <2>4, <2>5
<1> QED BY <1>1, <1>2, <1>3 DEF TypeOK

(* What a coarse point is missing for. *)
LEMMA NothingMissing == ContestInv => NoLookupError
<1> SUFFICES ASSUME ContestInv, at = "error" PROVE cleared
  BY DEF NoLookupError
<1>1. mode = "local"
  BY DEF ContestInv, Contested, Stages
<1> QED BY <1>1 DEF ContestInv, TunerInv

-----------------------------------------------------------------------------
(* The tuner: what its bracket encloses.  A golden section of whole numbers   *)
(* is not one at every width: rounding can make its two inner points meet or *)
(* cross.  A shape is the distances of c, d and b from a.                    *)
Cut3(w)      == <<w - Golden(w), Golden(w), w>>
LeftPart(s)  == <<s[2] - Golden(s[2]), s[1], s[2]>>
RightPart(s) == <<s[2] - s[1], Golden(s[3] - s[1]), s[3] - s[1]>>

(* The shapes hold those it begins with and those they are narrowed to, and  *)
(* in all of them the points are in order.                                   *)
RoundingFits(Shapes) ==
    /\ \A i \in 1..Coarse : Cut3(HighEnd(i) - LowEnd(i)) \in Shapes
    /\ \A s \in Shapes : 0 <= s[1] /\ s[1] < s[2] /\ s[2] <= s[3]
    /\ \A s \in Shapes : s[3] > Tol => LeftPart(s) \in Shapes /\ RightPart(s) \in Shapes

PeakInv(Shapes) ==
    bracket # <<>> => /\ mode = "local"
                      /\ <<c - a, d - a, b - a>> \in Shapes
                      /\ Peaked => score[1] \in a..b

LEMMA PeakStarts ==
  ASSUME NEW Shapes, Init
  PROVE  PeakInv(Shapes)
  BY DEF Init, PeakInv

(* The neighbours of the best coarse point have the peak between them. *)
LEMMA PeakBetween ==
  ASSUME Contested, mode = "local", Peaked, NEW i \in 1..Coarse,
         \A j \in 1..Coarse : Response(Point(i)) <= Response(Point(j))
  PROVE  score[1] \in LowEnd(i)..HighEnd(i)
<1> DEFINE p == score[1]
<1>1. p \in Lo..Hi /\ \A x, y \in Lo..Hi : /\ x < y /\ y <= p => Response(y) < Response(x)
                                           /\ x < y /\ p <= x => Response(x) < Response(y)
  BY ResponsesAre
<1>2. \A x \in Lo..Hi : Response(x) \in Nat
  BY ResponsesAre
<1> HIDE DEF p
<1>3. Lo \in Nat /\ Hi \in Nat /\ Coarse \in Nat
  BY TunerAssumption
<1>4. LowEnd(i) \in Lo..Hi /\ HighEnd(i) \in Lo..Hi
  BY EndsAre
<1>5. LowEnd(i) <= p
  <2>1. CASE i = 1
    <3>1. LowEnd(i) = Lo
      BY <2>1, EndsAre, PointsRise
    <3> QED BY <1>1, <1>3, <3>1
  <2>2. CASE i # 1
    <3> DEFINE x == Point(i - 1)
               y == Point(i)
    <3>1. i - 1 \in 1..Coarse /\ i - 1 < i
      BY <2>2, EndsAre
    <3>2. LowEnd(i) = x
      BY <2>2, EndsAre
    <3>3. x \in Lo..Hi /\ y \in Lo..Hi /\ x < y
      BY <3>1, PointsRise
    <3>4. Response(y) <= Response(x)
      BY <3>1
    <3> HIDE DEF x, y
    <3>5. Response(x) \in Nat /\ Response(y) \in Nat /\ x \in Int /\ p \in Int
      BY <1>1, <1>2, <1>3, <3>3
    <3>6. ~(p <= x)
      <4> SUFFICES ASSUME p <= x PROVE FALSE
        OBVIOUS
      <4>1. Response(x) < Response(y)
        BY <1>1, <3>3
      <4> QED BY <3>4, <3>5, <4>1
    <3> QED BY <3>2, <3>5, <3>6
  <2> QED BY <2>1, <2>2
<1>6. p <= HighEnd(i)
  <2>1. CASE i = Coarse
    <3>1. HighEnd(i) = Hi
      BY <2>1, EndsAre, PointsRise
    <3> QED BY <1>1, <1>3, <3>1
  <2>2. CASE i # Coarse
    <3> DEFINE x == Point(i + 1)
               y == Point(i)
    <3>1. i + 1 \in 1..Coarse /\ i < i + 1
      BY <2>2, EndsAre
    <3>2. HighEnd(i) = x
      BY <2>2, EndsAre
    <3>3. x \in Lo..Hi /\ y \in Lo..Hi /\ y < x
      BY <3>1, PointsRise
    <3>4. Response(y) <= Response(x)
      BY <3>1
    <3> HIDE DEF x, y
    <3>5. Response(x) \in Nat /\ Response(y) \in Nat /\ x \in Int /\ p \in Int
      BY <1>1, <1>2, <1>3, <3>3
    <3>6. ~(x <= p)
      <4> SUFFICES ASSUME x <= p PROVE FALSE
        OBVIOUS
      <4>1. Response(x) < Response(y)
        BY <1>1, <3>3
      <4> QED BY <3>4, <3>5, <4>1
    <3> QED BY <3>2, <3>5, <3>6
  <2> QED BY <2>1, <2>2
<1>7. p \in Int /\ LowEnd(i) \in Int /\ HighEnd(i) \in Int
  BY <1>1, <1>3, <1>4
<1> QED BY <1>5, <1>6, <1>7 DEF p

(* Of two points in order, what lies beyond the worse one is not the peak.   *)
LEMMA PeakKept ==
  ASSUME Contested, mode = "local", Peaked,
         NEW x \in Lo..Hi, NEW y \in Lo..Hi, x < y
  PROVE  /\ Response(x) < Response(y) => score[1] <= y
         /\ ~(Response(x) < Response(y)) => x <= score[1]
<1> DEFINE p == score[1]
<1>1. p \in Lo..Hi /\ \A u, v \in Lo..Hi : /\ u < v /\ v <= p => Response(v) < Response(u)
                                           /\ u < v /\ p <= u => Response(u) < Response(v)
  BY ResponsesAre
<1>2. Response(x) \in Nat /\ Response(y) \in Nat
  BY ResponsesAre
<1> HIDE DEF p
<1>3. x \in Int /\ y \in Int /\ p \in Int
  BY <1>1, TunerAssumption
<1>4. y <= p => Response(y) < Response(x)
  BY <1>1
<1>5. p <= x => Response(x) < Response(y)
  BY <1>1
<1>6. Response(x) < Response(y) => p <= y
  BY <1>2, <1>3, <1>4
<1>7. ~(Response(x) < Response(y)) => x <= p
  BY <1>2, <1>3, <1>5
<1> QED BY <1>6, <1>7 DEF p

LEMMA PeakStays ==
  ASSUME NEW Shapes, RoundingFits(Shapes), Contested, TunerInv, PeakInv(Shapes), [Next]_vars
  PROVE  PeakInv(Shapes)'
<1>1. Kept
  BY EveryStepKeeps
<1>2. Peaked' = Peaked /\ score' = score /\ mode' = mode
  BY <1>1 DEF Kept, Peaked
<1>3. ASSUME bracket' = bracket PROVE PeakInv(Shapes)'
  BY <1>2, <1>3 DEF PeakInv, a, b, c, d
<1>4. ASSUME bracket' = <<>> PROVE PeakInv(Shapes)'
  BY <1>4 DEF PeakInv
<1>5. ASSUME Bracket PROVE PeakInv(Shapes)'
  <2>1. at = "bracket"
    BY <1>5 DEF Bracket
  <2>2. mode = "local" /\ Probes
    BY <2>1 DEF Contested, Stages, TunerInv
  <2>3. \/ bracket' = bracket
        \/ /\ \A i \in 1..Coarse : Probed(Point(i))
           /\ LET low  == LowEnd(BestCoarse)
                  high == Point(Min({Coarse, BestCoarse + 1}))
                  cut  == Golden(high - low)
              IN  bracket' = <<low, high - cut, low + cut, high>>
    BY <1>5 DEF Bracket
  <2>4. CASE /\ \A i \in 1..Coarse : Probed(Point(i))
             /\ LET low  == LowEnd(BestCoarse)
                    high == Point(Min({Coarse, BestCoarse + 1}))
                    cut  == Golden(high - low)
                IN  bracket' = <<low, high - cut, low + cut, high>>
    <3> DEFINE i == BestCoarse
               low == LowEnd(i)
               high == HighEnd(i)
               cut == Golden(high - low)
    <3>1. bracket' = <<low, high - cut, low + cut, high>>
      BY <2>4 DEF HighEnd
    <3>2. i \in 1..Coarse /\ \A j \in 1..Coarse : Response(Point(i)) <= Response(Point(j))
      BY <2>2, <2>4, BestCoarseIs
    <3> HIDE DEF i
    <3>3. low \in Lo..Hi /\ high \in Lo..Hi
      BY <3>2, EndsAre
    <3>4. Peaked => score[1] \in low..high
      BY <2>2, <3>2, PeakBetween
    <3>5. Cut3(high - low) \in Shapes
      BY <3>2 DEF RoundingFits
    <3>6. <<high - low - cut, cut, high - low>> \in Shapes
      BY <3>5 DEF Cut3
    <3> HIDE DEF low, high
    <3>7. low \in Int /\ high \in Int
      BY <3>3, TunerAssumption
    <3>8. cut \in Int
      BY <3>7, GoldenBetween
    <3> HIDE DEF cut
    <3>9. a' = low /\ c' = high - cut /\ d' = low + cut /\ b' = high
      BY <3>1 DEF a, b, c, d
    <3>10. c' - a' = high - low - cut /\ d' - a' = cut /\ b' - a' = high - low
      BY <3>7, <3>8, <3>9
    <3>11. <<c' - a', d' - a', b' - a'>> \in Shapes
      BY <3>6, <3>10
    <3>12. Peaked' => score'[1] \in a'..b'
      BY <1>2, <3>4, <3>9
    <3> QED BY <1>2, <2>2, <3>11, <3>12 DEF PeakInv
  <2> QED BY <1>3, <2>3, <2>4
<1>6. ASSUME Narrow PROVE PeakInv(Shapes)'
  <2>1. /\ at = "golden" /\ Probed(c) /\ Probed(d) /\ b - a > Tol
        /\ bracket' = IF Value(c) < Value(d) THEN <<a, d - Golden(d - a), c, d>>
                                             ELSE <<c, d, c + Golden(b - c), b>>
    BY <1>6 DEF Narrow
  <2>2. mode = "local" /\ Probes /\ Inside /\ bracket # <<>>
    BY <2>1 DEF Contested, Stages, TunerInv
  <2>3. /\ a \in Lo..Hi /\ c \in Lo..Hi /\ d \in Lo..Hi /\ b \in Lo..Hi
    BY <2>2 DEF Inside
  <2> DEFINE s == <<c - a, d - a, b - a>>
  <2>4. s \in Shapes /\ (Peaked => score[1] \in a..b)
    BY <2>2 DEF PeakInv
  <2>5. s[1] = c - a /\ s[2] = d - a /\ s[3] = b - a
    OBVIOUS
  <2>6. /\ a \in Int /\ c \in Int /\ d \in Int /\ b \in Int /\ Tol \in Int
    BY <2>3, TunerAssumption
  <2> HIDE DEF s
  <2>7. 0 <= c - a /\ c - a < d - a /\ d - a <= b - a
    BY <2>4, <2>5 DEF RoundingFits
  <2>8. LeftPart(s) \in Shapes /\ RightPart(s) \in Shapes
    BY <2>1, <2>4, <2>5 DEF RoundingFits
  <2>9. c < d
    BY <2>6, <2>7
  <2>10. Value(c) = Response(c) /\ Value(d) = Response(d)
    BY <2>1, <2>2, ValueIs
  <2>11. Peaked => /\ Value(c) < Value(d) => score[1] <= d
                   /\ ~(Value(c) < Value(d)) => c <= score[1]
    BY <2>2, <2>3, <2>9, <2>10, PeakKept
  <2>12. Peaked => score[1] \in Int /\ a <= score[1] /\ score[1] <= b
    BY <2>4, <2>6
  <2>13. CASE Value(c) < Value(d)
    <3> DEFINE g == Golden(d - a)
    <3>1. g \in Int
      BY <2>6, GoldenBetween
    <3>2. LeftPart(s) = <<d - a - g, c - a, d - a>>
      BY <2>5 DEF LeftPart
    <3>3. a' = a /\ c' = d - g /\ d' = c /\ b' = d
      BY <2>1, <2>13 DEF a, b, c, d
    <3> HIDE DEF g
    <3>4. c' - a' = d - a - g /\ d' - a' = c - a /\ b' - a' = d - a
      BY <2>6, <3>1, <3>3
    <3>5. <<c' - a', d' - a', b' - a'>> \in Shapes
      BY <2>8, <3>2, <3>4
    <3>6. Peaked => score[1] \in a..d
      BY <2>6, <2>11, <2>12, <2>13
    <3> QED BY <1>2, <2>2, <3>3, <3>5, <3>6 DEF PeakInv
  <2>14. CASE ~(Value(c) < Value(d))
    <3> DEFINE g == Golden(b - c)
    <3>1. g \in Int
      BY <2>6, GoldenBetween
    <3>2. d - a - (c - a) = d - c /\ b - a - (c - a) = b - c
      BY <2>6
    <3>3. RightPart(s) = <<d - c, g, b - c>>
      BY <2>5, <3>2 DEF RightPart
    <3>4. a' = c /\ c' = d /\ d' = c + g /\ b' = b
      BY <2>1, <2>14 DEF a, b, c, d
    <3> HIDE DEF g
    <3>5. c' - a' = d - c /\ d' - a' = g /\ b' - a' = b - c
      BY <2>6, <3>1, <3>4
    <3>6. <<c' - a', d' - a', b' - a'>> \in Shapes
      BY <2>8, <3>3, <3>5
    <3>7. Peaked => score[1] \in c..b
      BY <2>6, <2>11, <2>12, <2>14
    <3> QED BY <1>2, <2>2, <3>4, <3>6, <3>7 DEF PeakInv
  <2> QED BY <2>13, <2>14
<1>7. ASSUME Tuned PROVE PeakInv(Shapes)'
  <2>1. bracket' = bracket \/ bracket' = <<>>
    BY <1>7 DEF Tuned
  <2> QED BY <1>3, <1>4, <2>1
<1>8. ASSUME NEW k \in 1..Shards, ShardPosts(k) \/ ShardFails(k) PROVE PeakInv(Shapes)'
  <2>1. bracket' = bracket
    BY <1>8 DEF ShardPosts, ShardFails
  <2> QED BY <1>3, <2>1
<1>9. ASSUME Merge \/ MatrixPosts \/ Reduce \/ SweepNext \/ SweepEnds \/ Apply PROVE PeakInv(Shapes)'
  <2>1. bracket' = bracket
    BY <1>9 DEF Merge, MatrixPosts, Reduce, SweepNext, SweepEnds, Apply
  <2> QED BY <1>3, <2>1
<1>10. ASSUME CoarseProbe \/ GoldenProbe \/ Narrowed \/ Cancel \/ Cleared \/ Idle \/ UNCHANGED vars
       PROVE  PeakInv(Shapes)'
  <2>1. bracket' = bracket
    BY <1>10 DEF CoarseProbe, GoldenProbe, Narrowed, Cancel, Cleared, Idle, vars
  <2> QED BY <1>3, <2>1
<1> QED BY <1>5, <1>6, <1>7, <1>8, <1>9, <1>10 DEF Next, Step

(* The bracket's points are in order, and the peak is between its ends; when  *)
(* it is small enough, the best point is in it too.                          *)
LEMMA PeakIsFound ==
  ASSUME NEW Shapes, RoundingFits(Shapes), ContestInv, PeakInv(Shapes)
  PROVE  TunerFinds
<1>1. ASSUME bracket # <<>>
      PROVE  /\ a <= c /\ c < d /\ d <= b /\ (Peaked => score[1] \in a..b)
             /\ a \in Lo..Hi /\ b \in Lo..Hi /\ a \in Int /\ b \in Int
  <2>1. mode = "local" /\ <<c - a, d - a, b - a>> \in Shapes /\ (Peaked => score[1] \in a..b)
    BY <1>1 DEF PeakInv
  <2>2. a \in Lo..Hi /\ c \in Lo..Hi /\ d \in Lo..Hi /\ b \in Lo..Hi
    BY <1>1, <2>1 DEF ContestInv, TunerInv, Inside
  <2>3. a \in Int /\ c \in Int /\ d \in Int /\ b \in Int
    BY <2>2, TunerAssumption
  <2> DEFINE s == <<c - a, d - a, b - a>>
  <2>4. s[1] = c - a /\ s[2] = d - a /\ s[3] = b - a
    OBVIOUS
  <2>5. 0 <= s[1] /\ s[1] < s[2] /\ s[2] <= s[3]
    BY <2>1 DEF RoundingFits
  <2>6. a <= c /\ c < d /\ d <= b
    BY <2>3, <2>4, <2>5
  <2> QED BY <2>1, <2>2, <2>3, <2>6
<1>2. BracketHolds
  BY <1>1 DEF BracketHolds
<1>3. GoldenFinds
  <2> SUFFICES ASSUME at = "tuned", Peaked, bracket # <<>>, b - a <= Tol
               PROVE  BestPoint - score[1] \in -Tol..Tol
    BY DEF GoldenFinds
  <2> DEFINE p == score[1]
             x == BestPoint
  <2>1. mode = "local" /\ Contested /\ Probes /\ Len(log) > 0 /\ Inside
    BY DEF ContestInv, Contested, Stages, TunerInv
  <2>2. Probed(a) /\ Probed(b)
    BY <2>1 DEF Inside
  <2>3. x \in Lo..Hi /\ Response(x) <= Response(a) /\ Response(x) <= Response(b)
    BY <2>1, <2>2, BestPointIs
  <2>4. \A u, v \in Lo..Hi : /\ u < v /\ v <= p => Response(v) < Response(u)
                             /\ u < v /\ p <= u => Response(u) < Response(v)
    BY <2>1, ResponsesAre
  <2>5. p \in a..b /\ a \in Lo..Hi /\ b \in Lo..Hi /\ a \in Int /\ b \in Int
    BY <1>1
  <2>6. Response(x) \in Nat /\ Response(a) \in Nat /\ Response(b) \in Nat
    BY <2>1, <2>3, <2>5, ResponsesAre
  <2> HIDE DEF p, x
  <2>7. p \in Int /\ a <= p /\ p <= b /\ x \in Int /\ Tol \in Int
    BY <2>3, <2>5, TunerAssumption
  <2>8. ~(x < a)
    <3> SUFFICES ASSUME x < a PROVE FALSE
      OBVIOUS
    <3>1. Response(a) < Response(x)
      BY <2>3, <2>4, <2>5, <2>7
    <3> QED BY <2>3, <2>6, <3>1
  <2>9. ~(b < x)
    <3> SUFFICES ASSUME b < x PROVE FALSE
      OBVIOUS
    <3>1. Response(b) < Response(x)
      BY <2>3, <2>4, <2>5, <2>7
    <3> QED BY <2>3, <2>6, <3>1
  <2>10. x - p \in -Tol..Tol
    BY <2>5, <2>7, <2>8, <2>9
  <2> QED BY <2>10 DEF p, x
<1>4. NoLookupError
  BY NothingMissing
<1> QED BY <1>2, <1>3, <1>4 DEF TunerFinds

(* The planner tunes from 50 to 95 percent to 1 percent, from five points.   *)
PlannersTuner == Lo = 500 /\ Hi = 950 /\ Tol = 10 /\ Coarse = 5

PlannersShapes ==
    {<<2, 4, 6>>, <<2, 4, 7>>, <<3, 4, 7>>, <<3, 5, 7>>, <<3, 5, 8>>, <<4, 6, 10>>,
     <<4, 6, 11>>, <<4, 7, 11>>, <<5, 7, 11>>, <<5, 7, 12>>, <<5, 8, 13>>, <<6, 10, 16>>,
     <<6, 10, 17>>, <<6, 11, 17>>, <<7, 11, 17>>, <<7, 12, 20>>, <<8, 13, 20>>, <<10, 16, 26>>,
     <<10, 16, 27>>, <<10, 17, 27>>, <<11, 17, 27>>, <<13, 20, 33>>, <<16, 26, 43>>, <<16, 27, 43>>,
     <<17, 27, 43>>, <<20, 33, 53>>, <<26, 43, 69>>, <<27, 43, 70>>, <<33, 53, 86>>, <<43, 69, 112>>,
     <<43, 70, 113>>, <<53, 86, 139>>, <<86, 139, 225>>}

LEMMA PlannersCuts ==
  /\ Golden(6) = 4
  /\ Golden(7) = 4
  /\ Golden(8) = 5
  /\ Golden(10) = 6
  /\ Golden(11) = 7
  /\ Golden(12) = 7
  /\ Golden(13) = 8
  /\ Golden(16) = 10
  /\ Golden(17) = 11
  /\ Golden(20) = 12
  /\ Golden(26) = 16
  /\ Golden(27) = 17
  /\ Golden(33) = 20
  /\ Golden(43) = 27
  /\ Golden(53) = 33
  /\ Golden(69) = 43
  /\ Golden(70) = 43
  /\ Golden(86) = 53
  /\ Golden(112) = 69
  /\ Golden(113) = 70
  /\ Golden(139) = 86
  /\ Golden(225) = 139
  BY DEF Golden

LEMMA PlannersPoints ==
  ASSUME PlannersTuner
  PROVE  Point(1) = 500 /\ Point(2) = 612 /\ Point(3) = 725 /\ Point(4) = 837 /\ Point(5) = 950
  BY DEF PlannersTuner, Point

LEMMA PlannersRounding ==
  ASSUME PlannersTuner
  PROVE  RoundingFits(PlannersShapes)
<1>1. ASSUME NEW i \in 1..Coarse PROVE Cut3(HighEnd(i) - LowEnd(i)) \in PlannersShapes
  <2>1. i \in 1..5 /\ Coarse = 5
    BY DEF PlannersTuner
  <2>2. /\ LowEnd(i) = (IF i = 1 THEN Point(1) ELSE Point(i - 1))
        /\ HighEnd(i) = (IF i = 5 THEN Point(5) ELSE Point(i + 1))
    BY <2>1, EndsAre
  <2>3. HighEnd(i) - LowEnd(i) \in {112, 113, 225}
    <3>1. i = 1 \/ i = 2 \/ i = 3 \/ i = 4 \/ i = 5
      BY <2>1
    <3> QED BY <2>2, <3>1, PlannersPoints
  <2> DEFINE w == HighEnd(i) - LowEnd(i)
  <2>4. w \in {112, 113, 225}
    BY <2>3
  <2> HIDE DEF w
  <2>5. Cut3(w) \in {<<43, 69, 112>>, <<43, 70, 113>>, <<86, 139, 225>>}
    BY <2>4, PlannersCuts DEF Cut3
  <2>6. Cut3(w) \in PlannersShapes
    BY <2>5 DEF PlannersShapes
  <2> QED BY <2>6 DEF w
<1>2. \A s \in PlannersShapes : 0 <= s[1] /\ s[1] < s[2] /\ s[2] <= s[3]
  BY DEF PlannersShapes
<1>3. ASSUME NEW s \in PlannersShapes, s[3] > 10 PROVE LeftPart(s) \in PlannersShapes /\ RightPart(s) \in PlannersShapes
  <2>1. s \in {<<4, 6, 11>>, <<4, 7, 11>>, <<5, 7, 11>>, <<5, 7, 12>>, <<5, 8, 13>>, <<6, 10, 16>>,
               <<6, 10, 17>>, <<6, 11, 17>>, <<7, 11, 17>>, <<7, 12, 20>>, <<8, 13, 20>>, <<10, 16, 26>>,
               <<10, 16, 27>>, <<10, 17, 27>>, <<11, 17, 27>>, <<13, 20, 33>>, <<16, 26, 43>>, <<16, 27, 43>>,
               <<17, 27, 43>>, <<20, 33, 53>>, <<26, 43, 69>>, <<27, 43, 70>>, <<33, 53, 86>>, <<43, 69, 112>>,
               <<43, 70, 113>>, <<53, 86, 139>>, <<86, 139, 225>>}
    BY <1>3 DEF PlannersShapes
  <2>2. CASE s = <<4, 6, 11>>
    <3>1. LeftPart(s) = <<2, 4, 6>> /\ RightPart(s) = <<2, 4, 7>>
      BY <2>2, PlannersCuts DEF LeftPart, RightPart
    <3> QED BY <3>1 DEF PlannersShapes
  <2>3. CASE s = <<4, 7, 11>>
    <3>1. LeftPart(s) = <<3, 4, 7>> /\ RightPart(s) = <<3, 4, 7>>
      BY <2>3, PlannersCuts DEF LeftPart, RightPart
    <3> QED BY <3>1 DEF PlannersShapes
  <2>4. CASE s = <<5, 7, 11>>
    <3>1. LeftPart(s) = <<3, 5, 7>> /\ RightPart(s) = <<2, 4, 6>>
      BY <2>4, PlannersCuts DEF LeftPart, RightPart
    <3> QED BY <3>1 DEF PlannersShapes
  <2>5. CASE s = <<5, 7, 12>>
    <3>1. LeftPart(s) = <<3, 5, 7>> /\ RightPart(s) = <<2, 4, 7>>
      BY <2>5, PlannersCuts DEF LeftPart, RightPart
    <3> QED BY <3>1 DEF PlannersShapes
  <2>6. CASE s = <<5, 8, 13>>
    <3>1. LeftPart(s) = <<3, 5, 8>> /\ RightPart(s) = <<3, 5, 8>>
      BY <2>6, PlannersCuts DEF LeftPart, RightPart
    <3> QED BY <3>1 DEF PlannersShapes
  <2>7. CASE s = <<6, 10, 16>>
    <3>1. LeftPart(s) = <<4, 6, 10>> /\ RightPart(s) = <<4, 6, 10>>
      BY <2>7, PlannersCuts DEF LeftPart, RightPart
    <3> QED BY <3>1 DEF PlannersShapes
  <2>8. CASE s = <<6, 10, 17>>
    <3>1. LeftPart(s) = <<4, 6, 10>> /\ RightPart(s) = <<4, 7, 11>>
      BY <2>8, PlannersCuts DEF LeftPart, RightPart
    <3> QED BY <3>1 DEF PlannersShapes
  <2>9. CASE s = <<6, 11, 17>>
    <3>1. LeftPart(s) = <<4, 6, 11>> /\ RightPart(s) = <<5, 7, 11>>
      BY <2>9, PlannersCuts DEF LeftPart, RightPart
    <3> QED BY <3>1 DEF PlannersShapes
  <2>10. CASE s = <<7, 11, 17>>
    <3>1. LeftPart(s) = <<4, 7, 11>> /\ RightPart(s) = <<4, 6, 10>>
      BY <2>10, PlannersCuts DEF LeftPart, RightPart
    <3> QED BY <3>1 DEF PlannersShapes
  <2>11. CASE s = <<7, 12, 20>>
    <3>1. LeftPart(s) = <<5, 7, 12>> /\ RightPart(s) = <<5, 8, 13>>
      BY <2>11, PlannersCuts DEF LeftPart, RightPart
    <3> QED BY <3>1 DEF PlannersShapes
  <2>12. CASE s = <<8, 13, 20>>
    <3>1. LeftPart(s) = <<5, 8, 13>> /\ RightPart(s) = <<5, 7, 12>>
      BY <2>12, PlannersCuts DEF LeftPart, RightPart
    <3> QED BY <3>1 DEF PlannersShapes
  <2>13. CASE s = <<10, 16, 26>>
    <3>1. LeftPart(s) = <<6, 10, 16>> /\ RightPart(s) = <<6, 10, 16>>
      BY <2>13, PlannersCuts DEF LeftPart, RightPart
    <3> QED BY <3>1 DEF PlannersShapes
  <2>14. CASE s = <<10, 16, 27>>
    <3>1. LeftPart(s) = <<6, 10, 16>> /\ RightPart(s) = <<6, 11, 17>>
      BY <2>14, PlannersCuts DEF LeftPart, RightPart
    <3> QED BY <3>1 DEF PlannersShapes
  <2>15. CASE s = <<10, 17, 27>>
    <3>1. LeftPart(s) = <<6, 10, 17>> /\ RightPart(s) = <<7, 11, 17>>
      BY <2>15, PlannersCuts DEF LeftPart, RightPart
    <3> QED BY <3>1 DEF PlannersShapes
  <2>16. CASE s = <<11, 17, 27>>
    <3>1. LeftPart(s) = <<6, 11, 17>> /\ RightPart(s) = <<6, 10, 16>>
      BY <2>16, PlannersCuts DEF LeftPart, RightPart
    <3> QED BY <3>1 DEF PlannersShapes
  <2>17. CASE s = <<13, 20, 33>>
    <3>1. LeftPart(s) = <<8, 13, 20>> /\ RightPart(s) = <<7, 12, 20>>
      BY <2>17, PlannersCuts DEF LeftPart, RightPart
    <3> QED BY <3>1 DEF PlannersShapes
  <2>18. CASE s = <<16, 26, 43>>
    <3>1. LeftPart(s) = <<10, 16, 26>> /\ RightPart(s) = <<10, 17, 27>>
      BY <2>18, PlannersCuts DEF LeftPart, RightPart
    <3> QED BY <3>1 DEF PlannersShapes
  <2>19. CASE s = <<16, 27, 43>>
    <3>1. LeftPart(s) = <<10, 16, 27>> /\ RightPart(s) = <<11, 17, 27>>
      BY <2>19, PlannersCuts DEF LeftPart, RightPart
    <3> QED BY <3>1 DEF PlannersShapes
  <2>20. CASE s = <<17, 27, 43>>
    <3>1. LeftPart(s) = <<10, 17, 27>> /\ RightPart(s) = <<10, 16, 26>>
      BY <2>20, PlannersCuts DEF LeftPart, RightPart
    <3> QED BY <3>1 DEF PlannersShapes
  <2>21. CASE s = <<20, 33, 53>>
    <3>1. LeftPart(s) = <<13, 20, 33>> /\ RightPart(s) = <<13, 20, 33>>
      BY <2>21, PlannersCuts DEF LeftPart, RightPart
    <3> QED BY <3>1 DEF PlannersShapes
  <2>22. CASE s = <<26, 43, 69>>
    <3>1. LeftPart(s) = <<16, 26, 43>> /\ RightPart(s) = <<17, 27, 43>>
      BY <2>22, PlannersCuts DEF LeftPart, RightPart
    <3> QED BY <3>1 DEF PlannersShapes
  <2>23. CASE s = <<27, 43, 70>>
    <3>1. LeftPart(s) = <<16, 27, 43>> /\ RightPart(s) = <<16, 27, 43>>
      BY <2>23, PlannersCuts DEF LeftPart, RightPart
    <3> QED BY <3>1 DEF PlannersShapes
  <2>24. CASE s = <<33, 53, 86>>
    <3>1. LeftPart(s) = <<20, 33, 53>> /\ RightPart(s) = <<20, 33, 53>>
      BY <2>24, PlannersCuts DEF LeftPart, RightPart
    <3> QED BY <3>1 DEF PlannersShapes
  <2>25. CASE s = <<43, 69, 112>>
    <3>1. LeftPart(s) = <<26, 43, 69>> /\ RightPart(s) = <<26, 43, 69>>
      BY <2>25, PlannersCuts DEF LeftPart, RightPart
    <3> QED BY <3>1 DEF PlannersShapes
  <2>26. CASE s = <<43, 70, 113>>
    <3>1. LeftPart(s) = <<27, 43, 70>> /\ RightPart(s) = <<27, 43, 70>>
      BY <2>26, PlannersCuts DEF LeftPart, RightPart
    <3> QED BY <3>1 DEF PlannersShapes
  <2>27. CASE s = <<53, 86, 139>>
    <3>1. LeftPart(s) = <<33, 53, 86>> /\ RightPart(s) = <<33, 53, 86>>
      BY <2>27, PlannersCuts DEF LeftPart, RightPart
    <3> QED BY <3>1 DEF PlannersShapes
  <2>28. CASE s = <<86, 139, 225>>
    <3>1. LeftPart(s) = <<53, 86, 139>> /\ RightPart(s) = <<53, 86, 139>>
      BY <2>28, PlannersCuts DEF LeftPart, RightPart
    <3> QED BY <3>1 DEF PlannersShapes
  <2> QED BY <2>1, <2>2, <2>3, <2>4, <2>5, <2>6, <2>7, <2>8, <2>9, <2>10, <2>11, <2>12, <2>13, <2>14, <2>15, <2>16, <2>17, <2>18, <2>19, <2>20, <2>21, <2>22, <2>23, <2>24, <2>25, <2>26, <2>27, <2>28
<1> QED BY <1>1, <1>2, <1>3 DEF RoundingFits, PlannersTuner

-----------------------------------------------------------------------------
(* The theorems about contests.                                             *)

(* "a cloud run of the same contest is byte-identical to a local run"        *)
(* (optimize_service.py), "the incumbent keeps exact ties" (optimizer.py),   *)
(* "picked exactly as the in-process run picks it" (offload.py): whatever is *)
(* contested by however many workers, and in whatever order they answer,     *)
(* fail or are stopped, every candidate is searched once and the winner is   *)
(* that of one process.                                                     *)
THEOREM WorkersChangeNothing == Spec => []ContestsAgree
<1>1. Init => ContestInv
  BY ContestStarts
<1>2. ContestInv /\ [Next]_vars => ContestInv'
  BY ContestStays
<1>3. ContestInv => ContestsAgree
  BY WinnersAreCandidates, OnceEach, SameWinner, WinsFairly, SweepDoes, MatrixDoes
     DEF ContestInv, ContestsAgree
<1> QED BY <1>1, <1>2, <1>3, PTL DEF Spec

(* tune_overlap (contest.py), for every range, tolerance and number of       *)
(* points at which the rounding leaves the inner points in order, and for    *)
(* every response: the bracket never shuts a single peak out, ends on it,    *)
(* and a score that was not probed is never asked for.                       *)
THEOREM TunerFindsThePeak ==
  ASSUME NEW Shapes, RoundingFits(Shapes)
  PROVE  Spec => []TunerFinds
<1> DEFINE Inv == ContestInv /\ PeakInv(Shapes)
<1>1. Init => Inv
  BY ContestStarts, PeakStarts
<1>2. Inv /\ [Next]_vars => Inv'
  BY ContestStays, PeakStays DEF ContestInv
<1>3. Inv => TunerFinds
  BY PeakIsFound
<1> HIDE DEF Inv
<1> QED BY <1>1, <1>2, <1>3, PTL DEF Spec

(* The same for the numbers the planner tunes with (new_engine.py): they are *)
(* among those at which the rounding leaves the points in order.             *)
THEOREM PlannersTunerFindsThePeak ==
  ASSUME PlannersTuner
  PROVE  Spec => []TunerFinds
  BY PlannersRounding, TunerFindsThePeak

-----------------------------------------------------------------------------
(* The theorems about scores.                                               *)

(* In mode "plans" the contest judges two plans of a book, from first to last. *)
Judging == mode = "plans" => score \in Judged

LEMMA JudgingKept == Spec => []Judging
<1>1. Init => Judging
  BY DEF Init, Judging
<1>2. Judging /\ [Next]_vars => Judging'
  <2>1. [Next]_vars => mode' = mode /\ score' = score
    BY DEF Next, Step, Cancel, Cleared, Idle, ShardPosts, ShardFails, Merge, MatrixPosts, Reduce,
           SweepNext, SweepEnds, CoarseProbe, Bracket, GoldenProbe, Narrow, Narrowed, Tuned, Apply,
           contest, vars
  <2> QED BY <2>1 DEF Judging
<1> QED BY <1>1, <1>2, PTL DEF Spec

(* The plans that are judged. *)
LEMMA JudgedPlans ==
  ASSUME mode = "plans", Judging
  PROVE  /\ score.lines \in Books /\ IsBook(score.lines) /\ score.ceiling \in Ceilings
         /\ score.ceiling \in Nat \cup {NoDay}
         /\ score.now \in [DOMAIN score.lines -> Ends] /\ score.found \in [DOMAIN score.lines -> Ends]
         /\ score.now \in [DOMAIN score.lines -> Nat] /\ score.found \in [DOMAIN score.lines -> Nat]
<1>1. PICK book \in Books : score \in [lines : {book}, now : [DOMAIN book -> Ends],
                                       found : [DOMAIN book -> Ends], ceiling : Ceilings]
  BY DEF Judging, Judged
<1>2. /\ score.lines = book /\ score.now \in [DOMAIN book -> Ends]
      /\ score.found \in [DOMAIN book -> Ends] /\ score.ceiling \in Ceilings
  BY <1>1
<1>3. IsBook(book) /\ Ends \subseteq Nat /\ score.ceiling \in Nat \cup {NoDay}
  BY <1>2, BooksAssumption DEF IsBook
<1>4. score.now \in [DOMAIN book -> Nat] /\ score.found \in [DOMAIN book -> Nat]
  BY <1>2, <1>3
<1> QED BY <1>2, <1>3, <1>4

(* "The two scorers must judge a plan identically", whatever the plan. *)
LEMMA ScorersDo == Judging => ScorersAgree
<1> SUFFICES ASSUME Judging, mode = "plans" PROVE ScorersAgree
  BY DEF ScorersAgree
<1> DEFINE lines == score.lines
           plan == score.found
           ceiling == score.ceiling
           m == PlanMetrics(lines, plan, ceiling)
           o == Objective(ComputeMetrics(lines, plan), ceiling)
           x == Max({plan[k] : k \in DOMAIN plan})
<1>1. IsBook(lines) /\ plan \in [DOMAIN lines -> Nat] /\ ceiling \in Nat \cup {NoDay}
  BY JudgedPlans
<1>2. m.ontime = o.ontime /\ m.ceiling = o.ceiling
  BY <1>1, SameLateness DEF PlanMetrics
<1>3. m.promise = o.promise /\ m.target = o.target
  BY <1>1, SameDates DEF PlanMetrics
<1>4. m.makespan = Rounded(100, x)
  BY DEF PlanMetrics, MakespanDays
<1>5. o.makespan = Rounded(10000, x - PlanStart)
  BY DEF Objective, ComputeMetrics
<1>6. x \in Nat
  <2>1. x \in {plan[k] : k \in DOMAIN lines}
    BY <1>1, Makespan
  <2> QED BY <1>1, <2>1
<1>7. 100 * m.makespan - o.makespan - (10000 * PlanStart) \div Minutes \in -52..52
  <2> HIDE DEF x
  <2> QED BY <1>4, <1>5, <1>6, MakespansAgree, BooksAssumption
<1>8. ScorersAgree <=> /\ m.ontime = o.ontime /\ m.ceiling = o.ceiling
                       /\ m.promise = o.promise /\ m.target = o.target
                       /\ 100 * m.makespan - o.makespan - (10000 * PlanStart) \div Minutes \in -52..52
  BY DEF ScorersAgree, Metrics
<1> QED
  <2> HIDE DEF lines, plan, ceiling, m, o, x
  <2> QED BY <1>2, <1>3, <1>7, <1>8

(* "a late day is never free, wherever it sits", whatever the plan. *)
LEMMA LateDaysDo == Judging => LateDayCosts
<1> SUFFICES ASSUME Judging, mode = "plans", NEW k \in DOMAIN score.now,
                    Gap(score.lines, score.now, k) >= 0,
                    Gap(score.lines, score.found, k) > Gap(score.lines, score.now, k),
                    \A j \in DOMAIN score.now \ {k} : score.now[j] = score.found[j]
             PROVE  Beats(Metrics(score.now), Metrics(score.found))
  BY DEF LateDayCosts
<1>1. /\ IsBook(score.lines) /\ score.now \in [DOMAIN score.lines -> Nat]
      /\ score.found \in [DOMAIN score.lines -> Nat] /\ score.ceiling \in Nat \cup {NoDay}
  BY JudgedPlans
<1>2. DOMAIN score.now = DOMAIN score.lines
  BY <1>1
<1> QED BY <1>1, <1>2, LaterIsWorse DEF Metrics

(* The movement shown adds up, whatever the plans. *)
LEMMA MovementDoes == Judging => MovementAddsUp
<1> SUFFICES ASSUME Judging, mode = "plans" PROVE MovementAddsUp
  BY DEF MovementAddsUp
<1>1. /\ IsBook(score.lines) /\ score.now \in [DOMAIN score.lines -> Nat]
      /\ score.found \in [DOMAIN score.lines -> Nat]
  BY JudgedPlans
<1>2. LET before == Without(score.now)
          shown  == QuoteMovement(score.lines, before, score.found)
          days   == [k \in shown.moved |-> Expected(score.found)[k] - Expected(before)[k]]
      IN  shown.after - shown.before <= SumFunction(days)
  BY <1>1, MovementAdds
<1> QED BY <1>2 DEF MovementAddsUp, Without

(* What the admin is shown and what decides a contest, for every book, every *)
(* two plans of it, every ceiling and slack: the search and the contest      *)
(* judge a plan alike, a late day always costs, and the movement shown       *)
(* before an accept accounts for every late day it adds.                    *)
THEOREM ScoresAddUp == Spec => [](ScorersAgree /\ LateDayCosts /\ MovementAddsUp)
<1>1. Judging => ScorersAgree /\ LateDayCosts /\ MovementAddsUp
  BY ScorersDo, LateDaysDo, MovementDoes
<1> QED BY <1>1, JudgingKept, PTL

(* "a plan meeting the date always beats one missing it": so it does, as     *)
(* long as all the other orders can weigh is less than one missed date.     *)
THEOREM MissedDateOutweighs ==
  ASSUME NEW orders \in Nat, NEW committed \in Nat, NEW days \in Nat,
         Outweighed(orders, committed, days)
  PROVE  Spec => []ScoresHonest
<1>1. Judging => MustFinishFirst
  <2> SUFFICES ASSUME Judging, mode = "plans", Metrics(score.now).target = 0,
                      Metrics(score.found).target > 0
               PROVE  Beats(Metrics(score.now), Metrics(score.found))
    BY DEF MustFinishFirst
  <2>1. /\ score.lines \in Books /\ score.now \in [DOMAIN score.lines -> Ends]
        /\ score.found \in [DOMAIN score.lines -> Ends] /\ score.ceiling \in Ceilings
    BY JudgedPlans
  <2>2. TargetBreach(score.lines, score.now) = 0 /\ TargetBreach(score.lines, score.found) > 0
    BY DEF Metrics, PlanMetrics
  <2> QED BY <2>1, <2>2, MeetingBeatsMissing DEF Metrics
<1>2. Judging => ScoresHonest
  BY <1>1, ScorersDo, LateDaysDo, MovementDoes DEF ScoresHonest
<1> QED BY <1>2, JudgingKept, PTL
=============================================================================
