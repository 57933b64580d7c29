------------------------- MODULE FlowDecoderProofs -------------------------
(***************************************************************************)
(* The board of the scheduler, for every shop, book, calendar and set of     *)
(* pins: nobody and no machine is in two places at once, whatever stage      *)
(* planned it, a machining job has its machine to itself from its start to   *)
(* its end, no step starts before one that feeds it, nobody works out of     *)
(* their hours, a repaired step is on its published machine, and a job that  *)
(* is on time is passed on its machine only by one that is ready before it.  *)
(***************************************************************************)
EXTENDS FlowDecoder, FiniteSetTheorems, WellFoundedInduction, TLAPS

-----------------------------------------------------------------------------
(* Numbers                                                                  *)

(* A set of numbers that is not empty has a least one. *)
LEMMA LeastNumber ==
  ASSUME NEW N \in SUBSET Nat, N # {}
  PROVE  \E n \in N : \A m \in N : n <= m
<1>1. PICK n \in N : \A m \in N : ~(<<m, n>> \in OpToRel(<, Nat))
  BY NatLessThanWellFounded, WFMin
<1>2. \A m \in N : ~(m < n)
  BY <1>1 DEF OpToRel
<1> QED BY <1>2

(* One with a bound below has a least one, one with a bound above a greatest. *)
LEMMA LeastAbove ==
  ASSUME NEW S \in SUBSET Int, S # {}, NEW lo \in Int, \A n \in S : lo <= n
  PROVE  Min(S) \in S /\ \A n \in S : Min(S) <= n
<1> DEFINE N == {n - lo : n \in S}
<1>1. N \in SUBSET Nat /\ N # {}
  <2>1. \A n \in S : n - lo \in Nat
    OBVIOUS
  <2>2. \E n \in S : n - lo \in N
    OBVIOUS
  <2> QED BY <2>1, <2>2
<1>2. PICK k \in N : \A m \in N : k <= m
  BY <1>1, LeastNumber
<1>3. PICK n \in S : k = n - lo
  BY <1>2
<1>4. \A m \in S : n <= m
  <2> SUFFICES ASSUME NEW m \in S PROVE n <= m
    OBVIOUS
  <2>1. m - lo \in N
    OBVIOUS
  <2>2. n - lo <= m - lo
    BY <1>2, <1>3, <2>1
  <2> QED BY <2>2
<1> QED BY <1>3, <1>4 DEF Min

(* One with a bound above has a greatest one. *)
LEMMA GreatestBelow ==
  ASSUME NEW S \in SUBSET Int, S # {}, NEW hi \in Int, \A n \in S : n <= hi
  PROVE  Max(S) \in S /\ \A n \in S : n <= Max(S)
<1> DEFINE N == {hi - n : n \in S}
<1>1. N \in SUBSET Nat /\ N # {}
  <2>1. \A n \in S : hi - n \in Nat
    OBVIOUS
  <2>2. \E n \in S : hi - n \in N
    OBVIOUS
  <2> QED BY <2>1, <2>2
<1>2. PICK k \in N : \A m \in N : k <= m
  BY <1>1, LeastNumber
<1>3. PICK n \in S : k = hi - n
  BY <1>2
<1>4. \A m \in S : m <= n
  <2> SUFFICES ASSUME NEW m \in S PROVE m <= n
    OBVIOUS
  <2>1. hi - m \in N
    OBVIOUS
  <2>2. hi - n <= hi - m
    BY <1>2, <1>3, <2>1
  <2> QED BY <2>2
<1> QED BY <1>3, <1>4 DEF Max

(* The least and the greatest of two numbers. *)
LEMMA OfTwo ==
  ASSUME NEW a \in Int, NEW b \in Int
  PROVE  /\ Min({a, b}) = (IF a <= b THEN a ELSE b)
         /\ Max({a, b}) = (IF a <= b THEN b ELSE a)
BY DEF Min, Max

-----------------------------------------------------------------------------
(* Loops                                                                    *)

(* The turns of a loop that stays in a set are a function into that set. *)
IsTurn(F, D, n) == F \in [D \X (1..n) -> D]
AreTurns(a, F, D, n, x) ==
    a \in [0..n -> D] /\ a[0] = x /\ \A i \in 1..n : a[i] = F[<<a[i - 1], i>>]

(* Turns that stay in a set can be made, one after the other. *)
LEMMA TurnsExist ==
  ASSUME NEW D, NEW n \in Nat, NEW F, IsTurn(F, D, n), NEW x \in D
  PROVE  \E a : AreTurns(a, F, D, n, x)
<1> DEFINE Turns(k, a) == a \in [0..k -> D] /\ a[0] = x /\ \A i \in 1..k : a[i] = F[<<a[i - 1], i>>]
           Bad == {k \in 0..n : ~\E a : Turns(k, a)}
<1>1. SUFFICES ASSUME Bad # {} PROVE FALSE
  <2>1. n \in 0..n
    OBVIOUS
  <2> QED BY <2>1 DEF AreTurns
<1>2. PICK k \in Bad : \A m \in Bad : k <= m
  <2>1. Bad \in SUBSET Nat
    OBVIOUS
  <2> HIDE DEF Bad
  <2> QED BY <1>1, <2>1, LeastNumber
<1>3. k # 0
  <2>1. Turns(0, [i \in 0..0 |-> x])
    OBVIOUS
  <2> QED BY <2>1
<1>4. k - 1 \in 0..n /\ k \in 1..n /\ k - 1 \notin Bad
  BY <1>2, <1>3
<1>5. PICK b : Turns(k - 1, b)
  BY <1>4
<1> DEFINE a == [i \in 0..k |-> IF i = k THEN F[<<b[k - 1], k>>] ELSE b[i]]
<1>6. F[<<b[k - 1], k>>] \in D
  BY <1>4, <1>5 DEF IsTurn
<1>7. a \in [0..k -> D]
  BY <1>4, <1>5, <1>6
<1>8. a[0] = x
  BY <1>3, <1>4, <1>5
<1>9. ASSUME NEW i \in 1..k PROVE a[i] = F[<<a[i - 1], i>>]
  <2>1. CASE i = k
    <3>1. k \in 0..k /\ k - 1 \in 0..k /\ k - 1 # k
      BY <1>4
    <3>2. a[k] = F[<<b[k - 1], k>>] /\ a[k - 1] = b[k - 1]
      BY <3>1
    <3> QED BY <2>1, <3>2
  <2>2. CASE i # k
    <3>1. i \in 1..(k - 1) /\ i \in 0..k /\ i - 1 \in 0..k /\ i - 1 # k
      BY <1>4, <2>2
    <3>2. a[i] = b[i] /\ a[i - 1] = b[i - 1]
      BY <2>2, <3>1
    <3> QED BY <1>5, <3>1, <3>2
  <2> QED BY <2>1, <2>2
<1>10. Turns(k, a)
  BY <1>7, <1>8, <1>9
<1> QED BY <1>2, <1>10

(* A property that every turn keeps holds after the last one. *)
LEMMA TurnsStay ==
  ASSUME NEW D, NEW n \in Nat, NEW a, a[0] \in D, \A i \in 1..n : a[i - 1] \in D => a[i] \in D
  PROVE  a[n] \in D
<1> DEFINE Bad == {k \in 0..n : a[k] \notin D}
<1>1. SUFFICES ASSUME Bad # {} PROVE FALSE
  <2>1. n \in 0..n
    OBVIOUS
  <2> QED BY <2>1
<1>2. PICK k \in Bad : \A m \in Bad : k <= m
  <2>1. Bad \in SUBSET Nat
    OBVIOUS
  <2> HIDE DEF Bad
  <2> QED BY <1>1, <2>1, LeastNumber
<1>3. k # 0 /\ k \in 0..n
  OBVIOUS
<1>4. k - 1 \in 0..n /\ k \in 1..n /\ k - 1 \notin Bad
  BY <1>2, <1>3
<1>5. a[k - 1] \in D
  BY <1>4
<1> QED BY <1>4, <1>5

-----------------------------------------------------------------------------
(* Gaps                                                                     *)

Apart(b, g) == b[2] <= g[1] \/ g[2] <= b[1]

(* The end of the gap that begins at t. *)
GapEnd(blocks, to, t) == Min({to} \cup {b[1] : b \in {x \in blocks : x[1] >= t /\ x[2] > x[1]}})

(* A gap ends where it must and before every block that begins after it. *)
LEMMA GapEnds ==
  ASSUME NEW blocks \in SUBSET (Int \X Int), NEW to \in Int, NEW t \in Int
  PROVE  /\ GapEnd(blocks, to, t) \in Int /\ GapEnd(blocks, to, t) <= to
         /\ \A b \in blocks : b[1] >= t /\ b[2] > b[1] => GapEnd(blocks, to, t) <= b[1]
<1> DEFINE S == {to} \cup {b[1] : b \in {x \in blocks : x[1] >= t /\ x[2] > x[1]}}
           lo == IF to <= t THEN to ELSE t
<1>1. S \in SUBSET Int /\ S # {} /\ lo \in Int
  OBVIOUS
<1>2. \A n \in S : lo <= n
  OBVIOUS
<1>3. to \in S /\ \A b \in blocks : b[1] >= t /\ b[2] > b[1] => b[1] \in S
  OBVIOUS
<1> HIDE DEF S, lo
<1>4. Min(S) \in S /\ \A n \in S : Min(S) <= n
  BY <1>1, <1>2, LeastAbove
<1>5. GapEnd(blocks, to, t) = Min(S)
  BY DEF GapEnd, S
<1> QED BY <1>1, <1>3, <1>4, <1>5

IsGap(blocks, from, to, g) ==
    /\ g \in Int \X Int /\ from <= g[1] /\ g[1] < g[2] /\ g[2] <= to
    /\ g[2] = GapEnd(blocks, to, g[1])
    /\ g[1] = from \/ \E b \in blocks : g[1] = b[2]
    /\ \A b \in blocks : b[1] < b[2] => Apart(b, g)

(* A gap is free of every block, and it is the only one that begins there. *)
LEMMA GapFree ==
  ASSUME NEW blocks \in SUBSET (Int \X Int), NEW from \in Int, NEW to \in Int,
         NEW g \in Gaps(blocks, from, to)
  PROVE  IsGap(blocks, from, to, g)
<1> DEFINE cuts == {from} \cup {b[2] : b \in {x \in blocks : x[2] > from /\ x[2] < to}}
           Free(t) == \A b \in blocks : ~(b[1] <= t /\ t < b[2])
<1>1. PICK t \in cuts : /\ t < to /\ Free(t) /\ GapEnd(blocks, to, t) > t
                        /\ g = <<t, GapEnd(blocks, to, t)>>
  BY DEF Gaps, GapEnd
<1>2. t \in Int /\ from <= t /\ (t = from \/ \E b \in blocks : t = b[2])
  OBVIOUS
<1>3. GapEnd(blocks, to, t) \in Int /\ GapEnd(blocks, to, t) <= to
      /\ \A b \in blocks : b[1] >= t /\ b[2] > b[1] => GapEnd(blocks, to, t) <= b[1]
  BY <1>2, GapEnds
<1> DEFINE end == GapEnd(blocks, to, t)
<1> HIDE DEF end, cuts
<1>4. end \in Int /\ end <= to /\ t < end /\ g = <<t, end>>
      /\ \A b \in blocks : b[1] >= t /\ b[2] > b[1] => end <= b[1]
  BY <1>1, <1>2, <1>3 DEF end
<1>5. ASSUME NEW b \in blocks, b[1] < b[2] PROVE Apart(b, g)
  <2>1. b[1] \in Int /\ b[2] \in Int
    OBVIOUS
  <2>2. ~(b[1] <= t /\ t < b[2])
    BY <1>1
  <2>3. b[1] >= t => end <= b[1]
    BY <1>4, <1>5, <2>1
  <2> QED BY <1>2, <1>4, <1>5, <2>1, <2>2, <2>3 DEF Apart
<1>6. g[1] = t /\ g[2] = end /\ g \in Int \X Int
  BY <1>2, <1>4
<1>7. end = GapEnd(blocks, to, t)
  BY DEF end
<1> QED BY <1>2, <1>4, <1>5, <1>6, <1>7 DEF IsGap

(* The gaps between blocks follow each other, and are finitely many. *)
LEMMA GapsFollow ==
  ASSUME NEW blocks \in SUBSET (Int \X Int), \A b \in blocks : b[1] < b[2],
         NEW from \in Int, NEW to \in Int,
         NEW g \in Gaps(blocks, from, to), NEW h \in Gaps(blocks, from, to),
         g[1] <= h[1], g # h
  PROVE  g[2] <= h[1]
<1>1. /\ g \in Int \X Int /\ from <= g[1] /\ g[2] = GapEnd(blocks, to, g[1])
      /\ \A b \in blocks : Apart(b, g)
  <2>1. IsGap(blocks, from, to, g)
    BY GapFree
  <2> QED BY <2>1 DEF IsGap
<1>2. /\ h \in Int \X Int /\ h[2] = GapEnd(blocks, to, h[1])
      /\ h[1] = from \/ \E b \in blocks : h[1] = b[2]
  <2>1. IsGap(blocks, from, to, h)
    BY GapFree
  <2> QED BY <2>1 DEF IsGap
<1>3. g[1] < h[1]
  BY <1>1, <1>2
<1>4. PICK b \in blocks : h[1] = b[2]
  BY <1>1, <1>2, <1>3
<1>5. b[1] < b[2] /\ b[1] \in Int /\ b[2] \in Int /\ g[1] \in Int /\ g[2] \in Int
  BY <1>1
<1> QED BY <1>1, <1>3, <1>4, <1>5 DEF Apart

(* Between two instants there are finitely many gaps. *)
LEMMA GapsFinite ==
  ASSUME NEW blocks \in SUBSET (Int \X Int), NEW from \in Int, NEW to \in Int
  PROVE  IsFiniteSet(Gaps(blocks, from, to)) /\ Cardinality(Gaps(blocks, from, to)) \in Nat
<1>1. Gaps(blocks, from, to) \in SUBSET ((from..to) \X (from..to))
  <2> SUFFICES ASSUME NEW g \in Gaps(blocks, from, to) PROVE g \in (from..to) \X (from..to)
    OBVIOUS
  <2>1. g \in Int \X Int /\ from <= g[1] /\ g[1] < g[2] /\ g[2] <= to
    BY GapFree DEF IsGap
  <2> QED BY <2>1
<1>2. IsFiniteSet((from..to) \X (from..to))
  BY FS_Interval, FS_Product
<1> QED BY <1>1, <1>2, FS_Subset, FS_CardinalityType

-----------------------------------------------------------------------------
(* Keys                                                                     *)

(* Which of two keys of four numbers comes first. *)
LEMMA BeforeFour ==
  ASSUME NEW a1 \in Int, NEW a2 \in Int, NEW a3 \in Int, NEW a4 \in Int,
         NEW b1 \in Int, NEW b2 \in Int, NEW b3 \in Int, NEW b4 \in Int,
         \/ a1 < b1
         \/ a1 = b1 /\ a2 < b2
         \/ a1 = b1 /\ a2 = b2 /\ a3 < b3
         \/ a1 = b1 /\ a2 = b2 /\ a3 = b3 /\ a4 < b4
  PROVE  Before(<<a1, a2, a3, a4>>, <<b1, b2, b3, b4>>)
<1> DEFINE a == <<a1, a2, a3, a4>>
           b == <<b1, b2, b3, b4>>
<1>1. /\ 1 \in DOMAIN a /\ 2 \in DOMAIN a /\ 3 \in DOMAIN a /\ 4 \in DOMAIN a
      /\ a[1] = a1 /\ a[2] = a2 /\ a[3] = a3 /\ a[4] = a4
      /\ b[1] = b1 /\ b[2] = b2 /\ b[3] = b3 /\ b[4] = b4
  OBVIOUS
<1> HIDE DEF a, b
<1>2. CASE a1 < b1
  <2>1. \A m \in 1..(1 - 1) : a[m] = b[m]
    OBVIOUS
  <2> QED BY <1>1, <1>2, <2>1 DEF Before, a, b
<1>3. CASE a1 = b1 /\ a2 < b2
  <2>1. \A m \in 1..(2 - 1) : a[m] = b[m]
    BY <1>1, <1>3
  <2>2. Before(a, b)
    BY <1>1, <1>3, <2>1 DEF Before
  <2> QED BY <2>2 DEF a, b
<1>4. CASE a1 = b1 /\ a2 = b2 /\ a3 < b3
  <2>1. \A m \in 1..(3 - 1) : a[m] = b[m]
    BY <1>1, <1>4
  <2>2. Before(a, b)
    BY <1>1, <1>4, <2>1 DEF Before
  <2> QED BY <2>2 DEF a, b
<1>5. CASE a1 = b1 /\ a2 = b2 /\ a3 = b3 /\ a4 < b4
  <2>1. \A m \in 1..(4 - 1) : a[m] = b[m]
    BY <1>1, <1>5
  <2>2. Before(a, b)
    BY <1>1, <1>5, <2>1 DEF Before
  <2> QED BY <2>2 DEF a, b
<1> QED BY <1>2, <1>3, <1>4, <1>5

(* Which of two keys of two numbers comes first. *)
LEMMA BeforeTwo ==
  ASSUME NEW a1 \in Int, NEW a2 \in Int, NEW b1 \in Int, NEW b2 \in Int,
         a1 < b1 \/ (a1 = b1 /\ a2 < b2)
  PROVE  Before(<<a1, a2>>, <<b1, b2>>)
<1> DEFINE a == <<a1, a2>>
           b == <<b1, b2>>
<1>1. /\ 1 \in DOMAIN a /\ 2 \in DOMAIN a
      /\ a[1] = a1 /\ a[2] = a2 /\ b[1] = b1 /\ b[2] = b2
  OBVIOUS
<1> HIDE DEF a, b
<1>2. CASE a1 < b1
  <2>1. \A m \in 1..(1 - 1) : a[m] = b[m]
    OBVIOUS
  <2>2. Before(a, b)
    BY <1>1, <1>2, <2>1 DEF Before
  <2> QED BY <2>2 DEF a, b
<1>3. CASE a1 = b1 /\ a2 < b2
  <2>1. \A m \in 1..(2 - 1) : a[m] = b[m]
    BY <1>1, <1>3
  <2>2. Before(a, b)
    BY <1>1, <1>3, <2>1 DEF Before
  <2> QED BY <2>2 DEF a, b
<1> QED BY <1>2, <1>3

(* Conversely, of two keys that differ in their last number at the latest. *)
LEMMA FirstOfFour ==
  ASSUME NEW a1 \in Int, NEW a2 \in Int, NEW a3 \in Int, NEW a4 \in Int,
         NEW b1 \in Int, NEW b2 \in Int, NEW b3 \in Int, NEW b4 \in Int,
         Before(<<a1, a2, a3, a4>>, <<b1, b2, b3, b4>>)
  PROVE  \/ a1 < b1
         \/ a1 = b1 /\ a2 < b2
         \/ a1 = b1 /\ a2 = b2 /\ a3 < b3
         \/ a1 = b1 /\ a2 = b2 /\ a3 = b3 /\ a4 < b4
<1> DEFINE a == <<a1, a2, a3, a4>>
           b == <<b1, b2, b3, b4>>
<1>1. /\ DOMAIN a = 1..4
      /\ a[1] = a1 /\ a[2] = a2 /\ a[3] = a3 /\ a[4] = a4
      /\ b[1] = b1 /\ b[2] = b2 /\ b[3] = b3 /\ b[4] = b4
  OBVIOUS
<1> HIDE DEF a, b
<1>2. PICK n \in 1..4 : a[n] < b[n] /\ \A m \in 1..(n - 1) : a[m] = b[m]
  BY <1>1 DEF Before, a, b
<1>3. /\ n > 1 => a[1] = b[1]
      /\ n > 2 => a[2] = b[2]
      /\ n > 3 => a[3] = b[3]
  BY <1>2
<1>4. n = 1 \/ n = 2 \/ n = 3 \/ n = 4
  OBVIOUS
<1> QED BY <1>1, <1>2, <1>3, <1>4

LEMMA FirstOfTwo ==
  ASSUME NEW a1 \in Int, NEW a2 \in Int, NEW b1 \in Int, NEW b2 \in Int,
         Before(<<a1, a2>>, <<b1, b2>>)
  PROVE  a1 < b1 \/ (a1 = b1 /\ a2 < b2)
<1> DEFINE a == <<a1, a2>>
           b == <<b1, b2>>
<1>1. DOMAIN a = 1..2 /\ a[1] = a1 /\ a[2] = a2 /\ b[1] = b1 /\ b[2] = b2
  OBVIOUS
<1> HIDE DEF a, b
<1>2. PICK n \in 1..2 : a[n] < b[n] /\ \A m \in 1..(n - 1) : a[m] = b[m]
  BY <1>1 DEF Before, a, b
<1>3. n > 1 => a[1] = b[1]
  BY <1>2
<1>4. n = 1 \/ n = 2
  OBVIOUS
<1> QED BY <1>1, <1>2, <1>3, <1>4

(* Which of two keys of one number comes first. *)
LEMMA BeforeOne ==
  ASSUME NEW a1 \in Int, NEW b1 \in Int, a1 < b1
  PROVE  Before(<<a1>>, <<b1>>)
<1> DEFINE a == <<a1>>
           b == <<b1>>
<1>1. 1 \in DOMAIN a /\ a[1] = a1 /\ b[1] = b1
  OBVIOUS
<1> HIDE DEF a, b
<1>2. \A m \in 1..(1 - 1) : a[m] = b[m]
  OBVIOUS
<1>3. Before(a, b)
  BY <1>1, <1>2 DEF Before
<1> QED BY <1>3 DEF a, b

(* Some member has the least number. *)
LEMMA LeastOf ==
  ASSUME NEW S, S # {}, NEW f \in [S -> Nat]
  PROVE  \E x \in S : \A y \in S : f[x] <= f[y]
<1> DEFINE N == {f[x] : x \in S}
<1>1. N \in SUBSET Nat /\ N # {}
  OBVIOUS
<1>2. PICK n \in N : \A m \in N : n <= m
  BY <1>1, LeastNumber
<1>3. PICK x \in S : n = f[x]
  BY <1>2
<1> QED BY <1>2, <1>3

(* Members that differ in their keys have a least one. *)
LEMMA LeastByFour ==
  ASSUME NEW S, S # {}, NEW a \in [S -> Nat], NEW b \in [S -> Nat], NEW c \in [S -> Nat], NEW d \in [S -> Nat],
         \A x, y \in S : a[x] = a[y] /\ b[x] = b[y] /\ c[x] = c[y] /\ d[x] = d[y] => x = y
  PROVE  \E x \in S : \A y \in S \ {x} : Before(<<a[x], b[x], c[x], d[x]>>, <<a[y], b[y], c[y], d[y]>>)
<1>1. PICK A \in SUBSET S : A # {} /\ \A x \in A : \A y \in S : a[x] < a[y] \/ (y \in A /\ a[x] = a[y])
  <2> DEFINE T == {x \in S : \A y \in S : a[x] <= a[y]}
  <2>1. T # {}
    BY LeastOf
  <2>2. \A x \in T : \A y \in S : a[x] < a[y] \/ (y \in T /\ a[x] = a[y])
    <3> SUFFICES ASSUME NEW x \in T, NEW y \in S, ~(a[x] < a[y]) PROVE y \in T /\ a[x] = a[y]
      OBVIOUS
    <3>1. a[x] = a[y]
      OBVIOUS
    <3> QED BY <3>1
  <2> HIDE DEF T
  <2>3. T \in SUBSET S
    BY DEF T
  <2> QED BY <2>1, <2>2, <2>3
<1>2. PICK B \in SUBSET A : B # {} /\ \A x \in B : \A y \in A : b[x] < b[y] \/ (y \in B /\ b[x] = b[y])
  <2> DEFINE T == {x \in A : \A y \in A : b[x] <= b[y]}
             f == [x \in A |-> b[x]]
  <2>1. T # {}
    <3>1. f \in [A -> Nat]
      OBVIOUS
    <3> HIDE DEF f
    <3>2. \E x \in A : \A y \in A : f[x] <= f[y]
      BY <1>1, <3>1, LeastOf
    <3> QED BY <3>2 DEF f
  <2>2. \A x \in T : \A y \in A : b[x] < b[y] \/ (y \in T /\ b[x] = b[y])
    <3> SUFFICES ASSUME NEW x \in T, NEW y \in A, ~(b[x] < b[y]) PROVE y \in T /\ b[x] = b[y]
      OBVIOUS
    <3>1. b[x] = b[y]
      OBVIOUS
    <3> QED BY <3>1
  <2>3. T \in SUBSET A
    OBVIOUS
  <2> HIDE DEF T
  <2> QED BY <2>1, <2>2, <2>3
<1>3. PICK C \in SUBSET B : C # {} /\ \A x \in C : \A y \in B : c[x] < c[y] \/ (y \in C /\ c[x] = c[y])
  <2> DEFINE T == {x \in B : \A y \in B : c[x] <= c[y]}
             f == [x \in B |-> c[x]]
  <2>1. T # {}
    <3>1. f \in [B -> Nat]
      OBVIOUS
    <3> HIDE DEF f
    <3>2. \E x \in B : \A y \in B : f[x] <= f[y]
      BY <1>2, <3>1, LeastOf
    <3> QED BY <3>2 DEF f
  <2>2. \A x \in T : \A y \in B : c[x] < c[y] \/ (y \in T /\ c[x] = c[y])
    <3> SUFFICES ASSUME NEW x \in T, NEW y \in B, ~(c[x] < c[y]) PROVE y \in T /\ c[x] = c[y]
      OBVIOUS
    <3>1. c[x] = c[y]
      OBVIOUS
    <3> QED BY <3>1
  <2>3. T \in SUBSET B
    OBVIOUS
  <2> HIDE DEF T
  <2> QED BY <2>1, <2>2, <2>3
<1>4. PICK x \in C : \A y \in C : d[x] <= d[y]
  <2> DEFINE f == [x \in C |-> d[x]]
  <2>1. f \in [C -> Nat]
    OBVIOUS
  <2> HIDE DEF f
  <2>2. \E x \in C : \A y \in C : f[x] <= f[y]
    BY <1>3, <2>1, LeastOf
  <2> QED BY <2>2 DEF f
<1>5. x \in A /\ x \in B /\ x \in S
  BY <1>4
<1>6. ASSUME NEW y \in S \ {x}
      PROVE  Before(<<a[x], b[x], c[x], d[x]>>, <<a[y], b[y], c[y], d[y]>>)
  <2>1. \/ a[x] < a[y]
        \/ a[x] = a[y] /\ b[x] < b[y]
        \/ a[x] = a[y] /\ b[x] = b[y] /\ c[x] < c[y]
        \/ a[x] = a[y] /\ b[x] = b[y] /\ c[x] = c[y] /\ y \in C
    BY <1>1, <1>2, <1>3, <1>5
  <2>2. y \in C => d[x] < d[y] \/ d[x] = d[y]
    <3>1. d[x] \in Nat /\ d[y] \in Nat
      BY <1>5
    <3> QED BY <1>4, <3>1
  <2>3. ~(a[x] = a[y] /\ b[x] = b[y] /\ c[x] = c[y] /\ d[x] = d[y])
    BY <1>5
  <2>4. /\ a[x] \in Int /\ b[x] \in Int /\ c[x] \in Int /\ d[x] \in Int
        /\ a[y] \in Int /\ b[y] \in Int /\ c[y] \in Int /\ d[y] \in Int
    BY <1>5
  <2>5. \/ a[x] < a[y]
        \/ a[x] = a[y] /\ b[x] < b[y]
        \/ a[x] = a[y] /\ b[x] = b[y] /\ c[x] < c[y]
        \/ a[x] = a[y] /\ b[x] = b[y] /\ c[x] = c[y] /\ d[x] < d[y]
    BY <2>1, <2>2, <2>3
  <2> QED BY <2>4, <2>5, BeforeFour, ZenonT(60)
<1> QED BY <1>5, <1>6

(* The same for keys of two numbers. *)
LEMMA LeastByTwo ==
  ASSUME NEW S, S # {}, NEW a \in [S -> Nat], NEW b \in [S -> Nat],
         \A x, y \in S : a[x] = a[y] /\ b[x] = b[y] => x = y
  PROVE  \E x \in S : \A y \in S \ {x} : Before(<<a[x], b[x]>>, <<a[y], b[y]>>)
<1> DEFINE T == {x \in S : \A y \in S : a[x] <= a[y]}
           f == [x \in T |-> b[x]]
<1>1. T # {}
  BY LeastOf
<1>2. PICK x \in T : \A y \in T : b[x] <= b[y]
  <2>1. f \in [T -> Nat]
    OBVIOUS
  <2> HIDE DEF f, T
  <2>2. \E x \in T : \A y \in T : f[x] <= f[y]
    BY <1>1, <2>1, LeastOf
  <2> QED BY <2>2 DEF f
<1>3. ASSUME NEW y \in S \ {x} PROVE Before(<<a[x], b[x]>>, <<a[y], b[y]>>)
  <2>1. a[x] \in Int /\ b[x] \in Int /\ a[y] \in Int /\ b[y] \in Int /\ x \in S
    OBVIOUS
  <2>2. a[x] < a[y] \/ (a[x] = a[y] /\ y \in T)
    <3>1. a[x] <= a[y] /\ (a[x] = a[y] => \A z \in S : a[y] <= a[z])
      OBVIOUS
    <3> QED BY <2>1, <3>1
  <2>3. y \in T => b[x] <= b[y]
    BY <1>2
  <2>4. ~(a[x] = a[y] /\ b[x] = b[y])
    OBVIOUS
  <2> HIDE DEF T
  <2>5. a[x] < a[y] \/ (a[x] = a[y] /\ b[x] < b[y])
    BY <2>1, <2>2, <2>3, <2>4
  <2> QED BY <2>1, <2>5, BeforeTwo
<1> QED BY <1>3

-----------------------------------------------------------------------------
(* Windows                                                                  *)

(* Members of a finite set in a strict order have the ranks 0, 1, 2... *)
LEMMA Ranked ==
  ASSUME NEW S, IsFiniteSet(S), NEW ahead \in [S -> SUBSET S],
         \A x \in S : x \notin ahead[x],
         \A x, y \in S : x = y \/ x \in ahead[y] \/ y \in ahead[x],
         \A x, y, z \in S : x \in ahead[y] /\ y \in ahead[z] => x \in ahead[z],
         NEW i \in 1..Cardinality(S)
  PROVE  \E x \in S : Cardinality(ahead[x]) = i - 1
<1> DEFINE n == Cardinality(S)
           rank == [x \in S |-> Cardinality(ahead[x])]
<1>1. n \in Nat
  BY FS_CardinalityType
<1>2. ASSUME NEW x \in S
      PROVE  rank[x] \in 0..(n - 1) /\ IsFiniteSet(ahead[x])
  <2>1. ahead[x] \in SUBSET S /\ ahead[x] # S
    OBVIOUS
  <2>2. IsFiniteSet(ahead[x]) /\ Cardinality(ahead[x]) <= n /\ Cardinality(ahead[x]) # n
    BY <2>1, FS_Subset
  <2> QED BY <1>1, <2>2, FS_CardinalityType
<1>3. ASSUME NEW x \in S, NEW y \in S, x \in ahead[y]
      PROVE  rank[x] < rank[y]
  <2>1. ahead[x] \in SUBSET ahead[y] /\ ahead[x] # ahead[y]
    BY <1>3
  <2>2. Cardinality(ahead[x]) <= Cardinality(ahead[y]) /\ Cardinality(ahead[x]) # Cardinality(ahead[y])
    BY <1>2, <2>1, FS_Subset
  <2> QED BY <1>2, <2>2
<1>4. rank \in Injection(S, 0..(n - 1))
  <2>1. rank \in [S -> 0..(n - 1)]
    BY <1>2
  <2>2. \A x, y \in S : x # y => rank[x] # rank[y]
    BY <1>2, <1>3
  <2> QED BY <2>1, <2>2 DEF Injection, IsInjective
<1>5. rank \in Surjection(S, 0..(n - 1))
  <2>1. IsFiniteSet(0..(n - 1)) /\ Cardinality(0..(n - 1)) = n
    <3>1. 0 \in Int /\ n - 1 \in Int /\ (IF 0 > n - 1 THEN 0 ELSE (n - 1) - 0 + 1) = n
      BY <1>1
    <3> HIDE DEF n
    <3> QED BY <3>1, FS_Interval
  <2> QED BY <1>4, <2>1, FS_Injection
<1>6. i - 1 \in 0..(n - 1)
  BY <1>1
<1>7. \E x \in S : rank[x] = i - 1
  BY <1>5, <1>6 DEF Surjection
<1> QED BY <1>7

(* What a function makes of a finite set is finite. *)
LEMMA ImageFinite ==
  ASSUME NEW S, IsFiniteSet(S), NEW f
  PROVE  IsFiniteSet({f[x] : x \in S})
<1> DEFINE T == {f[x] : x \in S}
           g == [x \in S |-> f[x]]
<1>1. g \in [S -> T] /\ \A y \in T : \E x \in S : g[x] = y
  OBVIOUS
<1> HIDE DEF g, T
<1>2. g \in Surjection(S, T)
  BY <1>1 DEF Surjection
<1>3. IsFiniteSet(T)
  BY <1>2, FS_Surjection
<1> QED BY <1>3 DEF T

Kinds == {"day", "night"}
Window == [shift : Int \X Kinds, start : Int, end : Int]

(* What is open of a shift. *)
LEMMA ShiftOpen ==
  ASSUME NEW day \in Int, NEW k \in Kinds
  PROVE  /\ IsFiniteSet(WithoutBreaks(ShiftWindow(day, k)))
         /\ WithoutBreaks(ShiftWindow(day, k)) \in SUBSET Window
         /\ \A v, w \in WithoutBreaks(ShiftWindow(day, k)) :
              v.shift = <<day, k>> /\ (v.start = w.start => v = w)
<1> DEFINE w == ShiftWindow(day, k)
           breaks == BreaksOf(w)
           gaps == Gaps(breaks, w.start, w.end)
           f == [g \in gaps |-> [shift |-> <<day, k>>, start |-> g[1], end |-> g[2]]]
<1>1. \A d \in Int : Midnight(d) \in Int
  BY HoursAssumption DEF Midnight
<1>2. w \in Window /\ w.shift = <<day, k>> /\ DOMAIN w = {"shift", "start", "end"}
  BY <1>1, HoursAssumption DEF ShiftWindow, Window
<1>3. breaks \in SUBSET (Int \X Int)
  <2>1. w.shift[1] \in Int
    BY <1>2
  <2> HIDE DEF w
  <2>2. \A d \in {w.shift[1], w.shift[1] + 1} : d \in Int /\ d + 1 \in Int
    BY <2>1
  <2>3. \A b \in MealBreaks : b[1] \in Int /\ b[2] \in Int
    BY HoursAssumption
  <2> QED BY <1>1, <2>2, <2>3 DEF BreaksOf
<1>4. w.start \in Int /\ w.end \in Int
  BY <1>2 DEF Window
<1>5. IsFiniteSet(gaps)
  BY <1>3, <1>4, GapsFinite
<1>6. \A g \in gaps : g[1] \in Int /\ g[2] \in Int /\ g[2] = GapEnd(breaks, w.end, g[1])
  <2> SUFFICES ASSUME NEW g \in gaps PROVE g[1] \in Int /\ g[2] \in Int /\ g[2] = GapEnd(breaks, w.end, g[1])
    OBVIOUS
  <2> HIDE DEF breaks, w
  <2>1. IsGap(breaks, w.start, w.end, g)
    BY <1>3, <1>4, GapFree
  <2> QED BY <2>1 DEF IsGap
<1>7. WithoutBreaks(w) = {f[g] : g \in gaps}
  <2>1. WithoutBreaks(w) = {[shift |-> w.shift, start |-> g[1], end |-> g[2]] : g \in gaps}
    BY DEF WithoutBreaks, Pieces
  <2> HIDE DEF gaps, w
  <2>2. \A g \in gaps : f[g] = [shift |-> w.shift, start |-> g[1], end |-> g[2]]
    BY <1>2
  <2> HIDE DEF f
  <2> QED BY <2>1, <2>2
<1>8. IsFiniteSet({f[g] : g \in gaps})
  <2> HIDE DEF f, gaps
  <2> QED BY <1>5, ImageFinite
<1>9. \A g \in gaps : f[g] \in Window /\ f[g].shift = <<day, k>> /\ f[g].start = g[1] /\ f[g].end = g[2]
  <2> HIDE DEF gaps
  <2> QED BY <1>6 DEF Window
<1>10. ASSUME NEW g \in gaps, NEW h \in gaps, f[g].start = f[h].start PROVE f[g] = f[h]
  <2> HIDE DEF gaps, breaks, w
  <2>1. g[1] = h[1] /\ g[2] = h[2]
    BY <1>6, <1>9, <1>10
  <2> QED BY <2>1
<1> HIDE DEF f, gaps, w
<1> QED BY <1>7, <1>8, <1>9, <1>10 DEF w

(* The windows of a machine, in any order, and those before a window. *)
KindsOn(m, day) ==
    IF ~IsWorkingDay(day) THEN {} ELSE IF m \in NightMachines THEN {"day", "night"} ELSE {"day"}
OpenOn(m, day) == UNION {WithoutBreaks(ShiftWindow(day, k)) : k \in KindsOn(m, day)}
Open(m) == UNION {OpenOn(m, day) : day \in 0..(LookAhead - 1)}
Earlier(v, w) ==
    \/ v.shift[1] < w.shift[1]
    \/ v.shift[1] = w.shift[1] /\ v.shift[2] = "day" /\ w.shift[2] = "night"
    \/ v.shift = w.shift /\ v.start < w.start
Ahead(m, w) == {v \in Open(m) : Earlier(v, w)}

(* What a machine has open are windows. *)
LEMMA OpenTyped ==
  ASSUME NEW m, NEW w \in Open(m)
  PROVE  w \in Window
<1>1. PICK day \in 0..(LookAhead - 1) : w \in OpenOn(m, day)
  BY DEF Open
<1>2. PICK k \in KindsOn(m, day) : w \in WithoutBreaks(ShiftWindow(day, k))
  BY <1>1 DEF OpenOn
<1>3. day \in Int /\ k \in Kinds
  BY DEF KindsOn, Kinds
<1> QED BY <1>2, <1>3, ShiftOpen

(* Every window of a machine is one of its open hours. *)
LEMMA WindowsTyped ==
  ASSUME NEW m
  PROVE  /\ IterWindows(m) = [n \in 1..Cardinality(Open(m)) |-> IterWindows(m)[n]]
         /\ Cardinality(Open(m)) \in Nat
         /\ \A n \in 1..Cardinality(Open(m)) : IterWindows(m)[n] \in Window /\ IterWindows(m)[n] \in Open(m)
<1> DEFINE days == 0..(LookAhead - 1)
           open == Open(m)
           ahead == [w \in open |-> Ahead(m, w)]
<1>1. \A day : KindsOn(m, day) \in SUBSET Kinds /\ IsFiniteSet(KindsOn(m, day))
  <2>1. IsFiniteSet({}) /\ IsFiniteSet({"day"}) /\ IsFiniteSet({"day", "night"})
    <3>1. {"day", "night"} = {"day"} \cup {"night"}
      OBVIOUS
    <3> QED BY <3>1, FS_EmptySet, FS_Singleton, FS_AddElement
  <2> QED BY <2>1 DEF KindsOn, Kinds
<1>2. ASSUME NEW day \in days
      PROVE  /\ IsFiniteSet(OpenOn(m, day)) /\ OpenOn(m, day) \in SUBSET Window
             /\ \A v, w \in OpenOn(m, day) : v.shift[1] = day /\ (v.shift = w.shift /\ v.start = w.start => v = w)
  <2> DEFINE f == [k \in KindsOn(m, day) |-> WithoutBreaks(ShiftWindow(day, k))]
  <2>1. day \in Int
    OBVIOUS
  <2>2. \A k \in KindsOn(m, day) :
           /\ IsFiniteSet(f[k]) /\ f[k] \in SUBSET Window
           /\ \A v, w \in f[k] : v.shift = <<day, k>> /\ (v.start = w.start => v = w)
    <3> SUFFICES ASSUME NEW k \in KindsOn(m, day)
                 PROVE  /\ IsFiniteSet(f[k]) /\ f[k] \in SUBSET Window
                        /\ \A v, w \in f[k] : v.shift = <<day, k>> /\ (v.start = w.start => v = w)
      OBVIOUS
    <3>1. k \in Kinds
      BY <1>1
    <3> QED BY <2>1, <3>1, ShiftOpen
  <2>3. OpenOn(m, day) = UNION {f[k] : k \in KindsOn(m, day)}
    BY DEF OpenOn
  <2> HIDE DEF f
  <2>4. IsFiniteSet({f[k] : k \in KindsOn(m, day)})
    BY <1>1, ImageFinite
  <2>5. IsFiniteSet(OpenOn(m, day))
    BY <2>2, <2>3, <2>4, FS_UNION
  <2>6. ASSUME NEW v \in OpenOn(m, day), NEW w \in OpenOn(m, day), v.shift = w.shift, v.start = w.start
        PROVE  v = w
    <3>1. PICK k \in KindsOn(m, day) : v \in f[k]
      BY <2>3
    <3>2. PICK l \in KindsOn(m, day) : w \in f[l]
      BY <2>3
    <3>3. k = l
      <4>1. <<day, k>> = <<day, l>>
        BY <2>2, <2>6, <3>1, <3>2
      <4> QED BY <4>1
    <3> QED BY <2>2, <2>6, <3>1, <3>2, <3>3
  <2> QED BY <2>2, <2>3, <2>5, <2>6
<1>3. IsFiniteSet(open) /\ open \in SUBSET Window
  <2> DEFINE f == [day \in days |-> OpenOn(m, day)]
  <2>1. open = UNION {f[day] : day \in days}
    BY DEF Open
  <2>2. \A day \in days : IsFiniteSet(f[day]) /\ f[day] \in SUBSET Window
    BY <1>2
  <2>3. IsFiniteSet(days)
    BY HoursAssumption, FS_Interval
  <2> HIDE DEF f, days, open
  <2>4. IsFiniteSet({f[day] : day \in days})
    BY <2>3, ImageFinite
  <2>5. IsFiniteSet(open)
    BY <2>1, <2>2, <2>4, FS_UNION
  <2> QED BY <2>1, <2>2, <2>5
<1>4. \A v, w \in open : v.shift = w.shift /\ v.start = w.start => v = w
  <2> SUFFICES ASSUME NEW v \in open, NEW w \in open, v.shift = w.shift, v.start = w.start
               PROVE  v = w
    OBVIOUS
  <2>1. PICK d \in days : v \in OpenOn(m, d)
    BY DEF Open
  <2>2. PICK e \in days : w \in OpenOn(m, e)
    BY DEF Open
  <2>3. d = e
    BY <1>2, <2>1, <2>2
  <2> QED BY <1>2, <2>1, <2>2, <2>3
<1>5. \A w \in open : /\ w.start \in Int /\ w.shift[1] \in Int /\ w.shift[2] \in Kinds
                      /\ w.shift = <<w.shift[1], w.shift[2]>>
  BY <1>3 DEF Window
<1>6. ahead \in [open -> SUBSET open] /\ \A v, w \in open : v \in ahead[w] <=> v \in Ahead(m, w)
  BY DEF Ahead
<1>7. \A v, w \in open : v \in ahead[w] <=> Earlier(v, w)
  BY <1>6 DEF Ahead
<1> HIDE DEF ahead, open
<1>8. \A w \in open : w \notin ahead[w]
  BY <1>5, <1>7 DEF Earlier
<1>9. ASSUME NEW v \in open, NEW w \in open, v # w, v \notin ahead[w], w \notin ahead[v] PROVE FALSE
  <2>1. v.shift[1] = w.shift[1]
    BY <1>5, <1>7, <1>9 DEF Earlier
  <2>2. v.shift[2] = w.shift[2]
    BY <1>5, <1>7, <1>9, <2>1 DEF Earlier, Kinds
  <2>3. v.shift = w.shift
    BY <1>5, <2>1, <2>2
  <2>4. v.start = w.start
    BY <1>5, <1>7, <1>9, <2>3 DEF Earlier
  <2> QED BY <1>4, <1>9, <2>3, <2>4
<1>10. ASSUME NEW u \in open, NEW v \in open, NEW w \in open, u \in ahead[v], v \in ahead[w]
       PROVE  u \in ahead[w]
  <2>1. /\ u.shift[1] \in Int /\ v.shift[1] \in Int /\ w.shift[1] \in Int
        /\ u.start \in Int /\ v.start \in Int /\ w.start \in Int
    BY <1>5
  <2> QED BY <1>7, <1>10, <2>1 DEF Earlier
<1>11. \A n \in 1..Cardinality(open) : \E w \in open : Cardinality(ahead[w]) = n - 1
  BY <1>3, <1>6, <1>8, <1>9, <1>10, Ranked
<1>12. \A w \in open : ahead[w] = Ahead(m, w)
  BY DEF ahead
<1>13. IterWindows(m) = [n \in 1..Cardinality(open) |-> CHOOSE w \in open : Cardinality(Ahead(m, w)) = n - 1]
  BY DEF IterWindows, open, Open, OpenOn, KindsOn, Ahead, Earlier
<1>14. \A n \in 1..Cardinality(open) : IterWindows(m)[n] \in open
  <2> SUFFICES ASSUME NEW n \in 1..Cardinality(open) PROVE IterWindows(m)[n] \in open
    OBVIOUS
  <2>1. \E w \in open : Cardinality(Ahead(m, w)) = n - 1
    BY <1>11, <1>12
  <2> QED BY <1>13, <2>1
<1>15. Cardinality(open) \in Nat
  BY <1>3, FS_CardinalityType
<1>16. IterWindows(m) = [n \in 1..Cardinality(open) |-> IterWindows(m)[n]]
  BY <1>13
<1> QED BY <1>3, <1>14, <1>15, <1>16 DEF open

-----------------------------------------------------------------------------
(* The hours                                                                *)

(* Settings under which the hours of a day do not run into each other: a night
   shift, and a break that crosses midnight, are over before the first shift
   of the next day.  Nothing in the code refuses others. *)
HoursSound ==
    /\ SecondEnd > FirstEnd \/ SecondEnd <= FirstStart
    /\ \A b \in MealBreaks : b[1] < b[2] \/ b[2] <= FirstStart

(* A day follows the one before it. *)
LEMMA Midnights ==
  ASSUME NEW day \in Int
  PROVE  Midnight(day) \in Int /\ Midnight(day + 1) = Midnight(day) + DayTicks
BY HoursAssumption DEF Midnight

(* The day and the clock time of an instant between two midnights. *)
LEMMA OnTheClock ==
  ASSUME NEW day \in Int, NEW t \in Int, Midnight(day) <= t, t < Midnight(day + 1)
  PROVE  DayOf(t) = day /\ Clock(t) = t - Midnight(day)
<1> DEFINE n == t + FirstStart
           q == n \div DayTicks
           r == n % DayTicks
<1>1. DayTicks \in Nat /\ DayTicks > 0 /\ FirstStart \in Int /\ n \in Int
  BY HoursAssumption
<1> HIDE DEF n
<1>2. q \in Int /\ r \in Int /\ 0 <= r /\ r < DayTicks /\ n = q * DayTicks + r
  BY <1>1
<1>3. day * DayTicks <= n /\ n < day * DayTicks + DayTicks
  BY <1>1, Midnights DEF Midnight, n
<1> HIDE DEF q, r
<1>4. ASSUME NEW a \in Int, NEW b \in Int, a < b PROVE a * DayTicks + DayTicks <= b * DayTicks
  <2>1. (b - a - 1) \in Nat
    BY <1>4
  <2>2. (b - a - 1) * DayTicks >= 0
    BY <1>1, <2>1
  <2>3. (b - a - 1) * DayTicks = b * DayTicks - a * DayTicks - DayTicks
    BY <1>1
  <2>4. a * DayTicks \in Int /\ b * DayTicks \in Int
    BY <1>1
  <2> QED BY <1>1, <2>2, <2>3, <2>4
<1>5. q * DayTicks \in Int /\ day * DayTicks \in Int
  BY <1>1, <1>2
<1>6. q = day
  <2>1. ~(q < day)
    <3>1. q < day => q * DayTicks + DayTicks <= day * DayTicks
      BY <1>2, <1>4
    <3> QED BY <1>1, <1>2, <1>3, <1>5, <3>1
  <2>2. ~(day < q)
    <3>1. day < q => day * DayTicks + DayTicks <= q * DayTicks
      BY <1>2, <1>4
    <3> QED BY <1>1, <1>2, <1>3, <1>5, <3>1
  <2> QED BY <1>2, <2>1, <2>2
<1>7. r = t - Midnight(day)
  BY <1>1, <1>2, <1>5, <1>6 DEF Midnight, n
<1> QED BY <1>6, <1>7 DEF DayOf, Clock, n, q, r

(* When a shift has hold of an instant, by the clock. *)
ByDay(day, t) == DayOf(t) = day /\ FirstStart <= Clock(t) /\ Clock(t) < FirstEnd
ByNight(day, t) ==
    \/ DayOf(t) = day /\ FirstEnd <= Clock(t)
    \/ DayOf(t) = day + 1 /\ Clock(t) < SecondEnd /\ SecondEnd <= FirstStart

(* The hours of a shift, by the clock. *)
LEMMA ShiftHours ==
  ASSUME HoursSound, NEW day \in Int, NEW k \in Kinds, NEW t \in Int, Holds(ShiftWindow(day, k), t)
  PROVE  /\ IF k = "day" THEN ByDay(day, t) ELSE ByNight(day, t)
         /\ Clock(t) \in Int /\ DayOf(t) \in {day, day + 1}
         /\ t = Midnight(DayOf(t)) + Clock(t) /\ 0 <= Clock(t) /\ Clock(t) < DayTicks
<1>1. /\ Midnight(day) \in Int /\ Midnight(day + 1) = Midnight(day) + DayTicks
      /\ Midnight(day + 2) = Midnight(day) + DayTicks + DayTicks
  <2>1. day + 1 \in Int /\ (day + 1) + 1 = day + 2
    OBVIOUS
  <2>2. Midnight((day + 1) + 1) = Midnight(day + 1) + DayTicks
    BY <2>1, Midnights
  <2> QED BY <2>1, <2>2, Midnights
<1>2. /\ DayTicks \in Nat /\ FirstStart \in Nat /\ FirstEnd \in Nat /\ SecondEnd \in Nat
      /\ FirstStart < FirstEnd /\ FirstEnd < DayTicks /\ SecondEnd < DayTicks
      /\ SecondEnd > FirstEnd \/ SecondEnd <= FirstStart
  BY HoursAssumption DEF HoursSound
<1>3. CASE k = "day"
  <2>1. Midnight(day) + FirstStart <= t /\ t < Midnight(day) + FirstEnd
    BY <1>3 DEF Holds, ShiftWindow
  <2>2. Midnight(day) <= t /\ t < Midnight(day + 1)
    BY <1>1, <1>2, <2>1
  <2>3. DayOf(t) = day /\ Clock(t) = t - Midnight(day)
    BY <2>2, OnTheClock
  <2> QED BY <1>1, <1>2, <1>3, <2>1, <2>3 DEF ByDay
<1>4. CASE k = "night" /\ t < Midnight(day + 1)
  <2>1. Midnight(day) + FirstEnd <= t
    BY <1>4 DEF Holds, ShiftWindow
  <2>2. Midnight(day) <= t
    BY <1>1, <1>2, <2>1
  <2>3. DayOf(t) = day /\ Clock(t) = t - Midnight(day)
    BY <1>4, <2>2, OnTheClock
  <2> QED BY <1>1, <1>2, <1>4, <2>1, <2>3 DEF ByNight
<1>5. CASE k = "night" /\ ~(t < Midnight(day + 1))
  <2>1. SecondEnd <= FirstStart /\ t < Midnight(day + 1) + SecondEnd
    <3>1. CASE SecondEnd > FirstEnd
      <4>1. t < Midnight(day) + SecondEnd
        BY <1>5, <3>1 DEF Holds, ShiftWindow
      <4> QED BY <1>1, <1>2, <1>5, <4>1
    <3>2. CASE ~(SecondEnd > FirstEnd)
      <4>1. t < Midnight(day + 1) + SecondEnd
        BY <1>5, <3>2 DEF Holds, ShiftWindow
      <4> QED BY <1>2, <3>2, <4>1
    <3> QED BY <3>1, <3>2
  <2>2. Midnight(day + 1) <= t /\ t < Midnight(day + 2)
    BY <1>1, <1>2, <1>5, <2>1
  <2>3. DayOf(t) = day + 1 /\ Clock(t) = t - Midnight(day + 1)
    <3>1. day + 1 \in Int /\ (day + 1) + 1 = day + 2
      OBVIOUS
    <3> QED BY <2>2, <3>1, OnTheClock
  <2> QED BY <1>1, <1>2, <1>5, <2>1, <2>2, <2>3 DEF ByNight
<1> QED BY <1>3, <1>4, <1>5 DEF Kinds

(* No instant is in two shifts. *)
LEMMA OneShift ==
  ASSUME HoursSound, NEW t \in Int, NEW d \in Int, NEW e \in Int, NEW k \in Kinds, NEW l \in Kinds,
         Holds(ShiftWindow(d, k), t), Holds(ShiftWindow(e, l), t)
  PROVE  d = e /\ k = l
<1>1. FirstStart \in Nat /\ FirstEnd \in Nat /\ SecondEnd \in Nat /\ FirstStart < FirstEnd
  BY HoursAssumption
<1>2. /\ IF k = "day" THEN ByDay(d, t) ELSE ByNight(d, t)
      /\ Clock(t) \in Int
  BY ShiftHours
<1>3. IF l = "day" THEN ByDay(e, t) ELSE ByNight(e, t)
  BY ShiftHours
<1> QED BY <1>1, <1>2, <1>3 DEF ByDay, ByNight, Kinds

(* The shift an instant is in is the one that has hold of it. *)
LEMMA ShiftIs ==
  ASSUME HoursSound, NEW t \in Int, NEW d \in Int, NEW k \in Kinds, Holds(ShiftWindow(d, k), t)
  PROVE  ShiftKeyFor(t) = <<d, k>>
<1> DEFINE of(day) == {l \in {"day", "night"} : Holds(ShiftWindow(day, l), t)}
           today_ == DayOf(t)
<1>1. today_ \in {d, d + 1}
  BY ShiftHours
<1>2. ShiftKeyFor(t) = IF of(today_) # {} THEN <<today_, CHOOSE l \in of(today_) : TRUE>>
                       ELSE IF of(today_ - 1) # {} THEN <<today_ - 1, CHOOSE l \in of(today_ - 1) : TRUE>>
                       ELSE NoShift
  BY DEF ShiftKeyFor
<1>3. of(d) = {k} /\ \A e \in Int : e # d => of(e) = {}
  BY OneShift DEF Kinds
<1> HIDE DEF of, today_
<1>4. CASE today_ = d
  BY <1>2, <1>3, <1>4
<1>5. CASE today_ = d + 1
  <2>1. today_ \in Int /\ today_ # d /\ today_ - 1 = d
    BY <1>5
  <2>2. of(today_) = {} /\ of(today_ - 1) = {k}
    BY <1>3, <2>1
  <2> QED BY <1>2, <2>1, <2>2
<1> QED BY <1>1, <1>4, <1>5

(* What is left of a shift without its breaks is in no break. *)
LEMMA NoBreak ==
  ASSUME HoursSound, NEW day \in Int, NEW k \in Kinds, NEW t \in Int, Holds(ShiftWindow(day, k), t),
         \A b \in BreaksOf(ShiftWindow(day, k)) : ~(b[1] <= t /\ t < b[2])
  PROVE  ~InBreak(t)
<1>1. /\ IF k = "day" THEN ByDay(day, t) ELSE ByNight(day, t)
      /\ Clock(t) \in Int /\ DayOf(t) \in {day, day + 1}
      /\ t = Midnight(DayOf(t)) + Clock(t) /\ 0 <= Clock(t) /\ Clock(t) < DayTicks
  BY ShiftHours
<1>2. /\ DayTicks \in Nat /\ FirstStart \in Nat /\ FirstEnd \in Nat /\ SecondEnd \in Nat
      /\ FirstStart < FirstEnd
  BY HoursAssumption
<1>3. \A d \in Int : Midnight(d) \in Int /\ Midnight(d + 1) = Midnight(d) + DayTicks
  BY Midnights
<1>4. ASSUME NEW b \in MealBreaks, NEW d \in {day, day + 1},
             Midnight(d) + b[1] <= t, t < Midnight(IF b[2] > b[1] THEN d ELSE d + 1) + b[2]
      PROVE  FALSE
  <2> DEFINE c == <<Midnight(d) + b[1], Midnight(IF b[2] > b[1] THEN d ELSE d + 1) + b[2]>>
  <2>1. ShiftWindow(day, k).shift[1] = day
    BY DEF ShiftWindow
  <2>2. c \in BreaksOf(ShiftWindow(day, k))
    BY <2>1 DEF BreaksOf
  <2> QED BY <1>4, <2>2
<1> SUFFICES ASSUME NEW b \in MealBreaks,
                    IF b[1] < b[2] THEN Clock(t) \in b[1]..(b[2] - 1) ELSE Clock(t) >= b[1] \/ Clock(t) < b[2]
             PROVE  FALSE
  BY DEF InBreak
<1>5. /\ b[1] \in Nat /\ b[2] \in Nat /\ b[1] < DayTicks /\ b[2] < DayTicks
      /\ b[1] < b[2] \/ b[2] <= FirstStart
  BY HoursAssumption DEF HoursSound
<1>6. PICK d \in {day, day + 1} : d = DayOf(t)
  BY <1>1
<1>7. d \in Int /\ d - 1 \in Int /\ (d - 1) + 1 = d
  OBVIOUS
<1>8. /\ Midnight(d) \in Int /\ Midnight(d + 1) = Midnight(d) + DayTicks
      /\ Midnight(d) = Midnight(d - 1) + DayTicks /\ t = Midnight(d) + Clock(t)
  <2>1. Midnight((d - 1) + 1) = Midnight(d - 1) + DayTicks
    BY <1>3, <1>7
  <2> QED BY <1>1, <1>3, <1>6, <1>7, <2>1
<1>9. CASE b[1] < b[2]
  <2>1. Midnight(d) + b[1] <= t /\ t < Midnight(d) + b[2]
    BY <1>1, <1>5, <1>8, <1>9
  <2> QED BY <1>4, <1>5, <1>9, <2>1
<1>10. CASE ~(b[1] < b[2]) /\ Clock(t) >= b[1]
  <2>1. Midnight(d) + b[1] <= t /\ t < Midnight(d + 1) + b[2]
    BY <1>1, <1>2, <1>5, <1>8, <1>10
  <2> QED BY <1>4, <1>5, <1>10, <2>1
<1>11. CASE ~(b[1] < b[2]) /\ Clock(t) < b[2]
  <2>1. Clock(t) < FirstStart
    BY <1>1, <1>2, <1>5, <1>11
  <2>2. d = day + 1
    BY <1>1, <1>2, <1>6, <2>1 DEF ByDay, ByNight
  <2>3. d - 1 = day /\ Midnight(day) \in Int
    BY <1>3, <2>2
  <2>4. Midnight(day) + b[1] <= t /\ t < Midnight(day + 1) + b[2]
    BY <1>1, <1>2, <1>5, <1>8, <1>11, <2>2, <2>3
  <2> QED BY <1>4, <1>5, <1>11, <2>4
<1> QED BY <1>9, <1>10, <1>11

(* Whatever is open is open by the clock, on a working day, outside the breaks,
   and in the shift it is booked under. *)
LEMMA OpenHours ==
  ASSUME HoursSound, NEW m, NEW w \in Open(m), NEW t \in Int, w.start <= t, t < w.end
  PROVE  /\ ~InBreak(t) /\ ShiftKeyFor(t) = w.shift /\ IsWorkingDay(w.shift[1])
         /\ w.shift[1] \in Int /\ w.shift[2] \in Kinds
         /\ IF w.shift[2] = "day" THEN ByDay(w.shift[1], t) ELSE ByNight(w.shift[1], t)
         /\ Clock(t) \in Int
<1>1. PICK day \in 0..(LookAhead - 1) : \E k \in KindsOn(m, day) : w \in WithoutBreaks(ShiftWindow(day, k))
  BY DEF Open, OpenOn
<1>2. PICK k \in KindsOn(m, day) : w \in WithoutBreaks(ShiftWindow(day, k))
  BY <1>1
<1>3. day \in Int /\ k \in Kinds /\ IsWorkingDay(day)
  BY <1>2 DEF KindsOn, Kinds
<1> DEFINE s == ShiftWindow(day, k)
           breaks == BreaksOf(s)
<1>4. \A d \in Int : d + 1 \in Int /\ Midnight(d) \in Int /\ Midnight(d + 1) = Midnight(d) + DayTicks
  BY Midnights
<1>5. s.shift = <<day, k>> /\ s.start \in Int /\ s.end \in Int
  BY <1>3, <1>4, HoursAssumption DEF ShiftWindow
<1>6. PICK g \in Gaps(breaks, s.start, s.end) : w = [shift |-> s.shift, start |-> g[1], end |-> g[2]]
  BY <1>2 DEF WithoutBreaks, Pieces
<1>7. breaks \in SUBSET (Int \X Int) /\ \A b \in breaks : b[1] < b[2]
  <2>1. s.shift[1] = day
    BY <1>5
  <2>2. \A b \in MealBreaks : b[1] \in Nat /\ b[2] \in Nat /\ b[1] < DayTicks
    BY HoursAssumption
  <2>3. DayTicks \in Nat
    BY HoursAssumption
  <2> SUFFICES ASSUME NEW c \in breaks PROVE c \in Int \X Int /\ c[1] < c[2]
    OBVIOUS
  <2> HIDE DEF s
  <2>4. PICK b \in MealBreaks, d \in {day, day + 1} :
          c = <<Midnight(d) + b[1], Midnight(IF b[2] > b[1] THEN d ELSE d + 1) + b[2]>>
    BY <2>1 DEF BreaksOf
  <2>5. d \in Int /\ Midnight(d) \in Int /\ Midnight(d + 1) = Midnight(d) + DayTicks
    BY <1>3, <1>4
  <2>6. b[1] \in Nat /\ b[2] \in Nat /\ b[1] < DayTicks
    BY <2>2
  <2>7. CASE b[2] > b[1]
    <3>1. c = <<Midnight(d) + b[1], Midnight(d) + b[2]>>
      BY <2>4, <2>7
    <3> QED BY <2>5, <2>6, <2>7, <3>1
  <2>8. CASE ~(b[2] > b[1])
    <3>1. c = <<Midnight(d) + b[1], Midnight(d + 1) + b[2]>>
      BY <2>4, <2>8
    <3> QED BY <2>3, <2>5, <2>6, <2>8, <3>1
  <2> QED BY <2>7, <2>8
<1>8. /\ g[1] \in Int /\ g[2] \in Int /\ s.start <= g[1] /\ g[2] <= s.end
      /\ \A b \in breaks : Apart(b, g)
  <2> HIDE DEF s, breaks
  <2>1. IsGap(breaks, s.start, s.end, g)
    BY <1>5, <1>6, <1>7, GapFree
  <2> QED BY <1>7, <2>1 DEF IsGap
<1>9. w.shift = <<day, k>> /\ w.start = g[1] /\ w.end = g[2]
  BY <1>5, <1>6
<1>10. Holds(s, t)
  <2> HIDE DEF s
  <2> QED BY <1>5, <1>8, <1>9 DEF Holds
<1>11. \A b \in breaks : ~(b[1] <= t /\ t < b[2])
  <2> HIDE DEF s, breaks
  <2>1. g[1] <= t /\ t < g[2]
    BY <1>9
  <2>2. \A b \in breaks : b[1] \in Int /\ b[2] \in Int
    BY <1>7
  <2> QED BY <1>8, <2>1, <2>2 DEF Apart
<1>12. ~InBreak(t)
  BY <1>3, <1>10, <1>11, NoBreak
<1>13. ShiftKeyFor(t) = <<day, k>>
  BY <1>3, <1>10, ShiftIs
<1>14. (IF k = "day" THEN ByDay(day, t) ELSE ByNight(day, t)) /\ Clock(t) \in Int
  BY <1>3, <1>10, ShiftHours
<1>15. w.shift[1] = day /\ w.shift[2] = k
  BY <1>9
<1> QED BY <1>3, <1>9, <1>12, <1>13, <1>14, <1>15

-----------------------------------------------------------------------------
(* Laying work on a machine                                                 *)

(* The board of a decode: time that is taken, and who was last where. *)
Blocks == {b \in Nat \X Nat : b[1] < b[2]}
Board ==
    /\ shop \in Shops
    /\ spans \in [Machines -> SUBSET Blocks] /\ occupied \in [Machines -> SUBSET Blocks]
    /\ booked \in [People -> SUBSET Blocks]
    /\ manned \in [Machines \X Shifts -> People \cup {Nobody}]
Busy(m) == spans[m] \cup occupied[m]

(* Everybody on the board may be there: they may run the machine, and are on
   that shift and not on leave. *)
Rostered == \A a \in Machines \X Shifts : manned[a] \in Eligible(a[1], a[2]) \cup {Nobody}

(* From an instant to another a machine that is in service is open in a shift. *)
OpenFrom(m, shift, from, to) ==
    /\ IsMachineAvailable(shop.down, m, shift[1])
    /\ \E w \in Open(m) : w.shift = shift /\ w.start <= from /\ to <= w.end

(* A stretch of work, one after the other, each clear of what is taken and in
   the hours of whoever works it while the board is rostered. *)
Segment == [start : Nat, end : Nat, who : People, shift : Int \X Kinds]
Off(b, from, to) == b[2] <= from \/ to <= b[1]
Clear(g, m) ==
    /\ \A b \in Busy(m) : Off(b, g.start, g.end)
    /\ \A b \in booked[g.who] : Off(b, g.start, g.end)
    /\ OpenFrom(m, g.shift, g.start, g.end)
    /\ Rostered => g.who \in Eligible(m, g.shift)
Chain(segs) == \A i, j \in DOMAIN segs : i < j => segs[i].end <= segs[j].start
Fits(segs, m, lo, hi) ==
    \A n \in DOMAIN segs : /\ lo <= segs[n].start /\ segs[n].start < segs[n].end /\ segs[n].end <= hi
                           /\ Clear(segs[n], m)

(* Work on m begun at lo, laid up to hi and never beyond `at`; of the `dur` it
   takes nothing is left out while nothing is laid. *)
Work == [at : Nat, left : Nat, segs : Seq(Segment)]
Laid(m, lo, at, hi, dur) ==
    {w \in Work : /\ at <= w.at /\ Chain(w.segs) /\ Fits(w.segs, m, lo, hi)
                  /\ \A n \in DOMAIN w.segs : w.segs[n].end <= w.at
                  /\ w.segs = <<>> => w.left = dur}

(* A stretch somebody may man is free of what they are booked for. *)
IsStretch(c, at, until) ==
    /\ c.who \in People /\ c.at \in Nat /\ c.to \in Nat
    /\ at <= c.at /\ c.at < c.to /\ c.to <= until
    /\ c.to = GapEnd(booked[c.who], until, c.at)
    /\ c = [who |-> c.who, at |-> c.at, to |-> c.to]
    /\ \A b \in booked[c.who] : Off(b, c.at, c.to)

(* The stretches offered to those who may man a window are free of their bookings. *)
LEMMA StretchFree ==
  ASSUME Board, NEW m, NEW shift, NEW at \in Nat, NEW until \in Int, NEW remaining \in Nat,
         NEW owner \in People \cup {Nobody}, NEW c \in Stretches(m, shift, at, until, remaining, owner)
  PROVE  IsStretch(c, at, until) /\ c.who \in Eligible(m, shift) \cup {owner}
<1>1. PICK p \in (Eligible(m, shift) \cup {owner}) \ {Nobody} :
         \E g \in Gaps(booked[p], at, until) : c = [who |-> p, at |-> g[1], to |-> g[2]]
  BY DEF Stretches
<1>2. p \in People
  BY DEF Eligible, Pool, EffectiveShift
<1>3. booked[p] \in SUBSET (Int \X Int) /\ at \in Int /\ \A b \in booked[p] : b[1] < b[2]
  BY <1>2 DEF Board, Blocks
<1>3a. PICK g \in Gaps(booked[p], at, until) : c = [who |-> p, at |-> g[1], to |-> g[2]]
  BY <1>1
<1>4. IsGap(booked[p], at, until, g)
  BY <1>1, <1>3, GapFree
<1>5. c.who = p /\ c.at = g[1] /\ c.to = g[2]
  BY <1>3a
<1>6. g[1] \in Nat /\ g[2] \in Nat
  BY <1>4 DEF IsGap
<1> QED BY <1>2, <1>3, <1>3a, <1>4, <1>5, <1>6 DEF IsStretch, IsGap, Apart, Off

(* The next stretch is one of those found. *)
LEMMA NextFound ==
  ASSUME Board, NEW found, found # {}, NEW at \in Nat, NEW until \in Int, NEW owner,
         \A c \in found : IsStretch(c, at, until)
  PROVE  NextStretch(found, owner) \in found
<1> DEFINE a == [c \in found |-> c.at]
           b == [c \in found |-> IF c.who = owner THEN 0 ELSE 1]
           s == [c \in found |-> Cardinality(shop.skill[c.who])]
           d == [c \in found |-> c.who]
<1>1. a \in [found -> Nat] /\ b \in [found -> Nat] /\ d \in [found -> Nat]
  BY DecoderAssumption DEF IsStretch
<1>2. s \in [found -> Nat]
  <2>1. ASSUME NEW p \in People PROVE Cardinality(shop.skill[p]) \in Nat
    <3>1. shop.skill[p] \in SUBSET Machines
      BY DecoderAssumption DEF Board
    <3> QED BY <3>1, DecoderAssumption, FS_Subset, FS_CardinalityType
  <2> QED BY <2>1 DEF IsStretch
<1>3. ASSUME NEW x \in found, NEW y \in found, a[x] = a[y], d[x] = d[y] PROVE x = y
  <2>1. x.at = y.at /\ x.who = y.who
    BY <1>3
  <2>2. x.to = y.to
    BY <2>1 DEF IsStretch
  <2> QED BY <2>1, <2>2 DEF IsStretch
<1>4. \E x \in found : \A y \in found \ {x} : Before(<<a[x], b[x], s[x], d[x]>>, <<a[y], b[y], s[y], d[y]>>)
  <2> HIDE DEF a, b, s, d
  <2>1. \A x, y \in found : a[x] = a[y] /\ b[x] = b[y] /\ s[x] = s[y] /\ d[x] = d[y] => x = y
    BY <1>3
  <2> QED BY <1>1, <1>2, <2>1, LeastByFour
<1>5. \E x \in found : \A y \in found \ {x} :
         Before(<<x.at, IF x.who = owner THEN 0 ELSE 1, Cardinality(shop.skill[x.who]), x.who>>,
                <<y.at, IF y.who = owner THEN 0 ELSE 1, Cardinality(shop.skill[y.who]), y.who>>)
  BY <1>4
<1> QED BY <1>5 DEF NextStretch, Least

(* A stretch is manned to its end or until the work is done. *)
LEMMA StretchEnd ==
  ASSUME NEW work \in Nat, work # 0, NEW from \in Nat, NEW to \in Nat, from < to
  PROVE  LET end == Min({to, from + work})
         IN end \in Nat /\ from < end /\ end <= to /\ end - from <= work
<1>1. to \in Int /\ from + work \in Int
  OBVIOUS
<1>2. Min({to, from + work}) = IF to <= from + work THEN to ELSE from + work
  BY <1>1, OfTwo
<1> QED BY <1>2

(* A sequence, one element on. *)
LEMMA Appended ==
  ASSUME NEW S, NEW q \in Seq(S), NEW e \in S
  PROVE  /\ Append(q, e) \in Seq(S) /\ Append(q, e) # <<>>
         /\ DOMAIN Append(q, e) = DOMAIN q \cup {Len(q) + 1} /\ Append(q, e)[Len(q) + 1] = e
         /\ \A n \in DOMAIN q : Append(q, e)[n] = q[n] /\ n < Len(q) + 1 /\ n \in Nat
         /\ Len(q) + 1 \in Nat
OBVIOUS

(* One more stretch of work in a free run. *)
LEMMA ManningFits ==
  ASSUME Board, NEW m \in Machines, NEW lo \in Nat, NEW from \in Nat, NEW hi \in Int, NEW dur,
         lo <= from, \A b \in Busy(m) : Off(b, from, hi),
         NEW work \in Laid(m, lo, from, hi, dur), work.left # 0,
         NEW shift \in Int \X Kinds, NEW until \in Int, until <= hi, OpenFrom(m, shift, from, until),
         NEW s, IsStretch(s, work.at, until), Rostered => s.who \in Eligible(m, shift)
  PROVE  Manning(work, shift, s) \in Laid(m, lo, from, hi, dur)
<1> DEFINE end == Min({s.to, s.at + work.left})
           g == [start |-> s.at, end |-> end, who |-> s.who, shift |-> shift]
           after == Manning(work, shift, s)
<1>1. /\ work \in Work /\ from <= work.at /\ Chain(work.segs) /\ Fits(work.segs, m, lo, hi)
      /\ \A n \in DOMAIN work.segs : work.segs[n].end <= work.at
  BY DEF Laid
<1>1a. from <= work.at
  BY <1>1
<1>2. work.at \in Nat /\ work.left \in Nat /\ work.segs \in Seq(Segment)
  BY <1>1 DEF Work
<1>3. /\ s.who \in People /\ s.at \in Nat /\ s.to \in Nat
      /\ work.at <= s.at /\ s.at < s.to /\ s.to <= until
  BY DEF IsStretch
<1>3a. \A b \in booked[s.who] : Off(b, s.at, s.to)
  BY DEF IsStretch
<1>4. end \in Nat /\ s.at < end /\ end <= s.to /\ end - s.at <= work.left
  BY <1>2, <1>3, StretchEnd
<1> HIDE DEF end
<1>5. g \in Segment /\ g.start = s.at /\ g.end = end /\ g.who = s.who /\ g.shift = shift
  BY <1>3, <1>4 DEF Segment
<1>6. Clear(g, m) /\ lo <= g.start /\ g.start < g.end /\ g.end <= hi
  <2>1. ASSUME NEW b \in Busy(m) PROVE Off(b, g.start, g.end)
    <3>1. b[1] \in Int /\ b[2] \in Int
      BY DEF Busy, Board, Blocks
    <3>2. Off(b, from, hi)
      OBVIOUS
    <3>3. from <= g.start
      BY <1>1a, <1>2, <1>3, <1>5
    <3>3a. g.end <= hi
      BY <1>3, <1>4, <1>5
    <3>4. from \in Int /\ g.start \in Int /\ g.end \in Int
      BY <1>3, <1>4, <1>5
    <3> HIDE DEF g
    <3> QED BY <3>1, <3>2, <3>3, <3>3a, <3>4 DEF Off
  <2>2. ASSUME NEW b \in booked[g.who] PROVE Off(b, g.start, g.end)
    <3>1. b[1] \in Int /\ b[2] \in Int /\ Off(b, s.at, s.to)
      BY <1>3, <1>3a, <1>5 DEF Board, Blocks
    <3>2. s.at \in Int /\ s.to \in Int /\ g.start = s.at /\ g.end \in Int /\ g.end <= s.to
      BY <1>3, <1>4, <1>5
    <3> HIDE DEF g
    <3> QED BY <3>1, <3>2 DEF Off
  <2>3. lo <= g.start /\ g.start < g.end /\ g.end <= hi
    BY <1>1a, <1>2, <1>3, <1>4, <1>5
  <2>4. OpenFrom(m, g.shift, g.start, g.end)
    <3>1. PICK w \in Open(m) : w.shift = shift /\ w.start <= from /\ until <= w.end
      BY DEF OpenFrom
    <3>2. w.start \in Int /\ w.end \in Int
      BY <3>1, OpenTyped DEF Window
    <3>3. from <= g.start /\ g.end <= until /\ g.start \in Int /\ g.end \in Int
      <4>1. from <= s.at /\ end <= until /\ s.at \in Int /\ end \in Int
        BY <1>1a, <1>2, <1>3, <1>4
      <4> HIDE DEF g
      <4> QED BY <4>1, <1>5
    <3>4. w.start <= g.start /\ g.end <= w.end
      BY <3>1, <3>2, <3>3
    <3> QED BY <1>5, <3>1, <3>4 DEF OpenFrom
  <2>5. Rostered => g.who \in Eligible(m, g.shift)
    BY <1>5
  <2> HIDE DEF g
  <2> QED BY <2>1, <2>2, <2>3, <2>4, <2>5 DEF Clear
<1>7. after = [at |-> end, left |-> work.left - (end - s.at), segs |-> Append(work.segs, g)]
  BY DEF Manning, end
<1> HIDE DEF g
<1>8. /\ Append(work.segs, g) \in Seq(Segment) /\ Append(work.segs, g) # <<>>
      /\ DOMAIN Append(work.segs, g) = DOMAIN work.segs \cup {Len(work.segs) + 1}
      /\ Append(work.segs, g)[Len(work.segs) + 1] = g
      /\ \A n \in DOMAIN work.segs : Append(work.segs, g)[n] = work.segs[n] /\ n < Len(work.segs) + 1 /\ n \in Nat
      /\ Len(work.segs) + 1 \in Nat
  BY <1>2, <1>5, Appended
<1> DEFINE segs == Append(work.segs, g)
           last == Len(work.segs) + 1
<1> HIDE DEF segs, last
<1>9. /\ segs \in Seq(Segment) /\ segs # <<>> /\ last \in Nat
      /\ DOMAIN segs = DOMAIN work.segs \cup {last} /\ segs[last] = g
      /\ \A n \in DOMAIN work.segs : segs[n] = work.segs[n] /\ n < last /\ n \in Nat
  BY <1>8 DEF segs, last
<1>10. Fits(segs, m, lo, hi)
  BY <1>1, <1>6, <1>9 DEF Fits
<1>11. \A n \in DOMAIN work.segs : work.segs[n] \in Segment
  BY <1>2
<1>12. \A n \in DOMAIN segs : segs[n].end <= end
  <2>1. segs[last].end <= end
    BY <1>4, <1>5, <1>9
  <2>2. ASSUME NEW n \in DOMAIN work.segs PROVE segs[n].end <= end
    <3>1. work.segs[n].end \in Nat /\ work.segs[n].end <= work.at /\ segs[n] = work.segs[n]
      BY <1>1, <1>9, <1>11 DEF Segment
    <3>2. work.at \in Nat /\ work.at <= end
      BY <1>2, <1>3, <1>4
    <3> QED BY <1>4, <3>1, <3>2
  <2> QED BY <1>9, <2>1, <2>2
<1>13. Chain(segs)
  <2> SUFFICES ASSUME NEW i \in DOMAIN segs, NEW j \in DOMAIN segs, i < j PROVE segs[i].end <= segs[j].start
    BY DEF Chain
  <2>1. i \in DOMAIN work.segs
    BY <1>9
  <2>2. CASE j = last
    <3>1. work.segs[i].end \in Nat /\ work.segs[i].end <= work.at /\ segs[i] = work.segs[i]
      BY <1>1, <1>9, <1>11, <2>1 DEF Segment
    <3>2. segs[j].start = s.at
      BY <1>5, <1>9, <2>2
    <3>3. work.at \in Nat /\ s.at \in Nat /\ work.at <= s.at
      BY <1>2, <1>3
    <3> QED BY <3>1, <3>2, <3>3
  <2>3. CASE j \in DOMAIN work.segs
    BY <1>1, <1>9, <2>1, <2>3 DEF Chain
  <2> QED BY <1>9, <2>2, <2>3
<1>14. after = [at |-> end, left |-> work.left - (end - s.at), segs |-> segs]
  BY <1>7 DEF segs
<1>15. work.left - (end - s.at) \in Nat /\ from <= end
  <2>1. work.left - (end - s.at) \in Nat
    BY <1>2, <1>3, <1>4
  <2>2. from <= end
    BY <1>1a, <1>2, <1>3, <1>4
  <2> QED BY <2>1, <2>2
<1> HIDE DEF after
<1>16. after \in Work /\ after.at = end /\ after.segs = segs
  BY <1>4, <1>9, <1>14, <1>15 DEF Work
<1>17. after \in Laid(m, lo, from, hi, dur)
  BY <1>9, <1>10, <1>12, <1>13, <1>15, <1>16 DEF Laid
<1> QED BY <1>17 DEF after

(* The windows' shifts are those the board is kept for. *)
LEMMA WindowsKnown ==
  ASSUME NEW m \in Machines
  PROVE  /\ Len(Windows[m]) \in Nat
         /\ \A n \in 1..Len(Windows[m]) : /\ Windows[m][n] \in Window /\ Windows[m][n].shift \in Shifts
                                         /\ Windows[m][n] \in Open(m)
<1>1. Windows[m] = IterWindows(m)
  BY DEF Windows
<1> DEFINE ws == IterWindows(m)
           n == Cardinality(Open(m))
<1>2. ws = [i \in 1..n |-> ws[i]] /\ n \in Nat /\ \A i \in 1..n : ws[i] \in Window /\ ws[i] \in Open(m)
  BY WindowsTyped
<1> HIDE DEF ws, n
<1>3. Len(ws) = n /\ DOMAIN ws = 1..n
  BY <1>2
<1>4. Windows[m] = ws
  BY <1>1 DEF ws
<1>5. \A i \in DOMAIN Windows[m] : Windows[m][i].shift \in Shifts
  BY DEF Shifts
<1> QED BY <1>2, <1>3, <1>4, <1>5

(* Everybody mans a window of a machine in stretches that are clear. *)
LEMMA ManFits ==
  ASSUME Board, NEW m \in Machines, NEW lo \in Nat, NEW from \in Nat, NEW hi \in Int, NEW dur,
         lo <= from, \A b \in Busy(m) : Off(b, from, hi),
         NEW work \in Laid(m, lo, from, hi, dur),
         NEW shift \in Int \X Kinds, shift \in Shifts, NEW until \in Int, until <= hi,
         OpenFrom(m, shift, from, until),
         NEW preferred \in People \cup {Nobody}, preferred \in Eligible(m, shift) \cup {Nobody}
  PROVE  Man(m, shift, until, work, preferred) \in Laid(m, lo, from, hi, dur)
<1> DEFINE Own == {q \in People \cup {Nobody} : Rostered => q \in Eligible(m, shift) \cup {Nobody}}
           D == [work : Laid(m, lo, from, hi, dur), owner : Own]
           Turn(st) == ManNext(m, shift, until, st)
           n == work.left
           x == [work |-> work, owner |-> IF preferred # Nobody THEN preferred ELSE manned[<<m, shift>>]]
           F == [y \in D \X (1..n) |-> Turn(y[1])]
           P(h) == h = [i \in 0..n |-> IF i = 0 THEN x ELSE Turn(h[i - 1])]
           c == CHOOSE h : P(h)
<1>1. ASSUME NEW st \in D PROVE Turn(st) \in D
  <2> DEFINE found == IF st.work.left = 0 THEN {}
                      ELSE Stretches(m, shift, st.work.at, until, st.work.left, st.owner)
             s == NextStretch(found, st.owner)
  <2>1. /\ st.work \in Laid(m, lo, from, hi, dur) /\ st.owner \in People \cup {Nobody}
        /\ Rostered => st.owner \in Eligible(m, shift) \cup {Nobody}
    OBVIOUS
  <2>2. st.work.at \in Nat /\ st.work.left \in Nat
    BY <2>1 DEF Laid, Work
  <2>3. CASE found = {}
    BY <2>3 DEF ManNext
  <2>4. CASE found # {}
    <3>1. st.work.left # 0 /\ found = Stretches(m, shift, st.work.at, until, st.work.left, st.owner)
      BY <2>4
    <3>2. \A k \in found : IsStretch(k, st.work.at, until) /\ k.who \in Eligible(m, shift) \cup {st.owner}
      BY <2>1, <2>2, <3>1, StretchFree
    <3> HIDE DEF found
    <3>3. s \in found
      BY <2>2, <2>4, <3>2, NextFound
    <3>4. IsStretch(s, st.work.at, until) /\ s.who \in Eligible(m, shift) \cup {st.owner}
      BY <3>2, <3>3
    <3> HIDE DEF s
    <3>4a. s.who \in People /\ s.who # Nobody
      BY <3>4, DecoderAssumption DEF IsStretch
    <3>4b. Rostered => s.who \in Eligible(m, shift)
      BY <2>1, <3>4, <3>4a
    <3>5. Manning(st.work, shift, s) \in Laid(m, lo, from, hi, dur)
      BY <2>1, <3>1, <3>4, <3>4b, ManningFits
    <3>6. s.who \in Own
      BY <3>4a, <3>4b
    <3>7. Turn(st) = [work |-> Manning(st.work, shift, s), owner |-> s.who]
      BY <2>4 DEF ManNext, found, s
    <3> QED BY <3>5, <3>6, <3>7
  <2> QED BY <2>3, <2>4
<1>2. x \in D
  <2>1. <<m, shift>> \in Machines \X Shifts /\ <<m, shift>>[1] = m /\ <<m, shift>>[2] = shift
    OBVIOUS
  <2>2. manned[<<m, shift>>] \in People \cup {Nobody}
    BY <2>1 DEF Board
  <2>3. Rostered => manned[<<m, shift>>] \in Eligible(m, shift) \cup {Nobody}
    BY <2>1 DEF Rostered
  <2> DEFINE owner == IF preferred # Nobody THEN preferred ELSE manned[<<m, shift>>]
  <2>4. owner \in Own
    BY <2>2, <2>3
  <2> HIDE DEF owner, Own
  <2> QED BY <2>4 DEF owner
<1>3. n \in Nat
  BY DEF Laid, Work
<1> HIDE DEF D, Own, n, x, Turn
<1>4. IsTurn(F, D, n)
  BY <1>1 DEF IsTurn
<1>4a. \A y \in D, i \in 1..n : F[<<y, i>>] = Turn(y)
  OBVIOUS
<1> HIDE DEF F
<1>5. PICK a : AreTurns(a, F, D, n, x)
  BY <1>2, <1>3, <1>4, TurnsExist
<1>6. P(a)
  <2>1. \A i \in 1..n : i - 1 \in 0..n
    BY <1>3
  <2>2. \A i \in 1..n : a[i - 1] \in D
    BY <1>5, <2>1 DEF AreTurns
  <2>3. \A i \in 1..n : a[i] = Turn(a[i - 1])
    BY <1>4a, <1>5, <2>2 DEF AreTurns
  <2>4. \A i \in 0..n : i # 0 => i \in 1..n
    BY <1>3
  <2> QED BY <1>5, <2>3, <2>4 DEF AreTurns
<1>7. P(c)
  BY <1>6
<1> HIDE DEF c
<1>8. c[0] = x /\ \A i \in 1..n : c[i] = Turn(c[i - 1])
  BY <1>3, <1>7
<1>9. c[n] \in D
  <2>1. \A i \in 1..n : c[i - 1] \in D => c[i] \in D
    BY <1>1, <1>8
  <2> QED BY <1>2, <1>3, <1>8, <2>1, TurnsStay
<1>10. Man(m, shift, until, work, preferred) = c[n].work
  BY DEF Man, Loop, c, n, x, Turn
<1> QED BY <1>9, <1>10 DEF D

(* Those who worked a published step, told apart by when they began. *)
IsPin(pin) ==
    /\ pin.who \in People \cup {Nobody} /\ pin.staff \in SUBSET Segment
    /\ \A g, h \in pin.staff : g.start = h.start => g = h

(* The preferred person of a window is somebody who may be there, or nobody. *)
LEMMA PreferredKnown ==
  ASSUME NEW pin, IsPin(pin), NEW m, NEW w
  PROVE  Preferred(pin, m, w) \in People \cup {Nobody} /\ Preferred(pin, m, w) \in Eligible(m, w.shift) \cup {Nobody}
<1> DEFINE then == {g \in pin.staff : /\ g.start < w.end /\ g.end > w.start
                                      /\ g.who \in Eligible(m, w.shift)}
           f == [g \in then |-> g.start]
<1>1. then \in SUBSET Segment /\ \A g, h \in then : g.start = h.start => g = h
  BY DEF IsPin
<1>2. CASE then # {}
  <2>1. f \in [then -> Nat]
    BY <1>1 DEF Segment
  <2> HIDE DEF then
  <2>2. PICK x \in then : \A y \in then : f[x] <= f[y]
    <3> HIDE DEF f
    <3> QED BY <1>2, <2>1, LeastOf
  <2>3. ASSUME NEW y \in then \ {x} PROVE Before(<<x.start>>, <<y.start>>)
    <3>1. x.start \in Int /\ y.start \in Int
      BY <1>1 DEF Segment
    <3>2. x.start < y.start
      BY <1>1, <2>2, <3>1
    <3> QED BY <3>1, <3>2, BeforeOne
  <2>4. Least(then, LAMBDA g : <<g.start>>) \in then
    BY <2>3 DEF Least
  <2>5. Least(then, LAMBDA g : <<g.start>>).who \in People
    BY <1>1, <2>4 DEF Segment
  <2>6. Least(then, LAMBDA g : <<g.start>>).who \in Eligible(m, w.shift)
    BY <2>4 DEF then
  <2> QED BY <1>2, <2>5, <2>6 DEF Preferred, then
<1>3. CASE then = {}
  BY <1>3 DEF Preferred, IsPin
<1> QED BY <1>2, <1>3

(* A run: a stretch of time in which nothing is on the machine. *)
IsRun(m, run) == run \in Nat \X Int /\ run[1] < run[2] /\ \A b \in Busy(m) : Off(b, run[1], run[2])

(* Walking on to a later instant changes nothing that is laid. *)
LEMMA LaidLater ==
  ASSUME NEW m, NEW lo, NEW from \in Nat, NEW hi, NEW dur, NEW work \in Laid(m, lo, from, hi, dur),
         NEW at \in Int
  PROVE  [work EXCEPT !.at = Max({work.at, at})] \in Laid(m, lo, from, hi, dur)
<1>1. work \in Work /\ work.at \in Nat /\ from <= work.at
  BY DEF Laid, Work
<1>2. Max({work.at, at}) \in Nat /\ work.at <= Max({work.at, at})
  <2>0. work.at \in Int
    BY <1>1
  <2>1. Max({work.at, at}) = IF work.at <= at THEN at ELSE work.at
    BY <2>0, OfTwo
  <2> QED BY <1>1, <2>1
<1> DEFINE later == Max({work.at, at})
           after == [work EXCEPT !.at = later]
<1> HIDE DEF later
<1>3. /\ after \in Work /\ after.at = later /\ after.left = work.left /\ after.segs = work.segs
  BY <1>1, <1>2 DEF Work, later
<1>4. \A n \in DOMAIN work.segs : work.segs[n].end <= later
  <2> SUFFICES ASSUME NEW n \in DOMAIN work.segs PROVE work.segs[n].end <= later
    OBVIOUS
  <2>1. work.segs[n].end <= work.at /\ work.segs[n] \in Segment
    BY DEF Laid, Work
  <2>2. work.segs[n].end \in Nat
    BY <2>1 DEF Segment
  <2> QED BY <1>1, <1>2, <2>1, <2>2 DEF later
<1> HIDE DEF after
<1>5. from <= later
  BY <1>1, <1>2 DEF later
<1>6. after \in Laid(m, lo, from, hi, dur)
  BY <1>3, <1>4, <1>5 DEF Laid
<1> QED BY <1>6 DEF after, later

(* A window of a run is manned in stretches that are clear, inside the run. *)
LEMMA WindowFits ==
  ASSUME Board, NEW m \in Machines, NEW lo \in Nat, NEW run, IsRun(m, run), NEW dur,
         lo <= run[1], NEW work \in Laid(m, lo, run[1], run[2], dur),
         NEW pin, IsPin(pin), NEW w \in Window, w.shift \in Shifts, w \in Open(m)
  PROVE  LayWindow(m, run, pin, work, w) \in Laid(m, lo, run[1], run[2], dur)
<1> DEFINE at == [work EXCEPT !.at = Max({work.at, w.start})]
           until == Min({w.end, run[2]})
           preferred == Preferred(pin, m, w)
           got == Man(m, w.shift, until, at, preferred)
<1>1. /\ run[1] \in Nat /\ run[2] \in Int /\ \A b \in Busy(m) : Off(b, run[1], run[2])
      /\ w.start \in Int /\ w.end \in Int /\ w.shift \in Int \X Kinds
  BY DEF IsRun, Window
<1>2. at \in Laid(m, lo, run[1], run[2], dur)
  BY <1>1, LaidLater
<1>3. until \in Int /\ until <= run[2] /\ until <= w.end
  <2>1. until = IF w.end <= run[2] THEN w.end ELSE run[2]
    BY <1>1, OfTwo
  <2> QED BY <1>1, <2>1
<1>4. preferred \in People \cup {Nobody} /\ preferred \in Eligible(m, w.shift) \cup {Nobody}
  BY PreferredKnown
<1>5. at.at \in Nat /\ run[1] <= at.at /\ w.start <= at.at
  <2>1. work.at \in Int
    BY DEF Laid, Work
  <2>2. at.at = Max({work.at, w.start})
    BY DEF Laid, Work
  <2> HIDE DEF at
  <2>3. at.at = IF work.at <= w.start THEN w.start ELSE work.at
    BY <1>1, <2>1, <2>2, OfTwo
  <2>4. at.at \in Nat /\ run[1] <= at.at
    BY <1>2 DEF Laid, Work
  <2> QED BY <1>1, <2>1, <2>3, <2>4
<1> HIDE DEF at, until, preferred
<1>6. ASSUME Walked(m, run, w) PROVE got \in Laid(m, lo, run[1], run[2], dur)
  <2> DEFINE from == at.at
  <2>1. from \in Nat /\ run[1] <= from /\ lo <= from /\ from <= from
    BY <1>1, <1>5
  <2>2. at \in Laid(m, lo, from, run[2], dur)
    BY <1>2, <2>1 DEF Laid
  <2>3. \A b \in Busy(m) : Off(b, from, run[2])
    <3> SUFFICES ASSUME NEW b \in Busy(m) PROVE Off(b, from, run[2])
      OBVIOUS
    <3>1. b[1] \in Int /\ b[2] \in Int
      BY DEF Busy, Board, Blocks
    <3> QED BY <1>1, <2>1, <3>1 DEF Off
  <2>4. OpenFrom(m, w.shift, from, until)
    BY <1>3, <1>5, <1>6 DEF OpenFrom, Walked
  <2> HIDE DEF from
  <2>5. got \in Laid(m, lo, from, run[2], dur)
    BY <1>1, <1>3, <1>4, <2>1, <2>2, <2>3, <2>4, ManFits
  <2> HIDE DEF got
  <2>6. got.at \in Nat
    BY <2>5 DEF Laid, Work
  <2>7. run[1] <= got.at
    BY <1>1, <2>1, <2>5, <2>6 DEF Laid
  <2> QED BY <2>5, <2>7 DEF Laid
<1> HIDE DEF got
<1>7. ASSUME Walked(m, run, w)
      PROVE  [got EXCEPT !.at = Max({got.at, w.end})] \in Laid(m, lo, run[1], run[2], dur)
  BY <1>1, <1>6, <1>7, LaidLater
<1>8. LayWindow(m, run, pin, work, w) = IF work.left = 0 \/ ~Walked(m, run, w) THEN work
                                        ELSE [got EXCEPT !.at = Max({got.at, w.end})]
  BY DEF LayWindow, got, at, until, preferred
<1> QED BY <1>7, <1>8

(* A run is walked window by window. *)
LEMMA WindowsFit ==
  ASSUME Board, NEW m \in Machines, NEW lo \in Nat, NEW run, IsRun(m, run), NEW dur,
         lo <= run[1], NEW at, NEW work \in Laid(m, lo, at, run[1], dur), NEW pin, IsPin(pin)
  PROVE  LayWindows(m, run, work, pin) \in Laid(m, lo, run[1], run[2], dur)
<1> DEFINE D == Laid(m, lo, run[1], run[2], dur)
           Turn(st, i) == LayWindow(m, run, pin, st, Windows[m][i])
           n == Len(Windows[m])
           x == [work EXCEPT !.at = run[1]]
           F == [y \in D \X (1..n) |-> Turn(y[1], y[2])]
           P(h) == h = [i \in 0..n |-> IF i = 0 THEN x ELSE Turn(h[i - 1], i)]
           c == CHOOSE h : P(h)
<1>1. n \in Nat /\ \A i \in 1..n : Windows[m][i] \in Window /\ Windows[m][i].shift \in Shifts /\ Windows[m][i] \in Open(m)
  BY WindowsKnown
<1>2. ASSUME NEW st \in D, NEW i \in 1..n PROVE Turn(st, i) \in D
  BY <1>1, WindowFits
<1>3. x \in D
  <2>0. run[1] \in Nat /\ run[2] \in Int /\ run[1] < run[2]
    BY DEF IsRun
  <2>1. /\ work \in Work /\ Chain(work.segs) /\ Fits(work.segs, m, lo, run[1])
        /\ work.segs = <<>> => work.left = dur
    BY DEF Laid
  <2>2. /\ x \in Work /\ x.at = run[1] /\ x.left = work.left /\ x.segs = work.segs
    BY <2>0, <2>1 DEF Work
  <2>3. \A k \in DOMAIN work.segs : work.segs[k].end <= run[1] /\ work.segs[k].end <= run[2]
    <3> SUFFICES ASSUME NEW k \in DOMAIN work.segs
                 PROVE  work.segs[k].end <= run[1] /\ work.segs[k].end <= run[2]
      OBVIOUS
    <3>1. work.segs[k].end <= run[1] /\ work.segs[k] \in Segment
      BY <2>1 DEF Fits, Work
    <3>2. work.segs[k].end \in Nat
      BY <3>1 DEF Segment
    <3> QED BY <2>0, <3>1, <3>2
  <2>4. Fits(work.segs, m, lo, run[2])
    BY <2>1, <2>3 DEF Fits
  <2> HIDE DEF x
  <2>5. run[1] <= run[1]
    BY <2>0
  <2> QED BY <2>1, <2>2, <2>3, <2>4, <2>5 DEF Laid
<1> HIDE DEF D, n, x, Turn
<1>4. IsTurn(F, D, n)
  BY <1>2 DEF IsTurn
<1>4a. \A y \in D, i \in 1..n : F[<<y, i>>] = Turn(y, i)
  OBVIOUS
<1> HIDE DEF F
<1>5. PICK a : AreTurns(a, F, D, n, x)
  BY <1>1, <1>3, <1>4, TurnsExist
<1>6. P(a)
  <2>1. \A i \in 1..n : i - 1 \in 0..n
    BY <1>1
  <2>2. \A i \in 1..n : a[i - 1] \in D
    BY <1>5, <2>1 DEF AreTurns
  <2>3. \A i \in 1..n : a[i] = Turn(a[i - 1], i)
    BY <1>4a, <1>5, <2>2 DEF AreTurns
  <2>4. \A i \in 0..n : i # 0 => i \in 1..n
    BY <1>1
  <2> QED BY <1>5, <2>3, <2>4 DEF AreTurns
<1>7. P(c)
  BY <1>6
<1> HIDE DEF c
<1>8. c[0] = x /\ \A i \in 1..n : c[i] = Turn(c[i - 1], i)
  BY <1>1, <1>7
<1>9. c[n] \in D
  <2>1. \A i \in 1..n : c[i - 1] \in D => c[i] \in D
    BY <1>2, <1>8
  <2> QED BY <1>1, <1>3, <1>8, <2>1, TurnsStay
<1>10. LayWindows(m, run, work, pin) = c[n]
  BY DEF LayWindows, Loop, c, n, x, Turn
<1> QED BY <1>9, <1>10 DEF D

(* The free runs of a machine follow each other and hold nothing that is on it. *)
LEMMA RunsFree ==
  ASSUME Board, NEW m \in Machines, NEW from \in Nat
  PROVE  /\ \A r \in FreeRuns(m, from) : IsRun(m, r) /\ from <= r[1] /\ r[2] <= Horizon
         /\ \A r, q \in FreeRuns(m, from) : r[1] <= q[1] /\ r # q => r[2] <= q[1]
         /\ Cardinality(FreeRuns(m, from)) \in Nat
<1>1. Busy(m) \in SUBSET (Int \X Int) /\ \A b \in Busy(m) : b[1] < b[2]
  BY DEF Board, Busy, Blocks
<1>2. from \in Int /\ Horizon \in Int /\ FreeRuns(m, from) = Gaps(Busy(m), from, Horizon)
  BY DecoderAssumption DEF FreeRuns, Busy
<1>3. \A r \in FreeRuns(m, from) : IsGap(Busy(m), from, Horizon, r)
  BY <1>1, <1>2, GapFree
<1>4. \A r \in FreeRuns(m, from) : IsRun(m, r) /\ from <= r[1] /\ r[2] <= Horizon
  BY <1>1, <1>3 DEF IsGap, IsRun, Apart, Off
<1>5. \A r, q \in FreeRuns(m, from) : r[1] <= q[1] /\ r # q => r[2] <= q[1]
  BY <1>1, <1>2, GapsFollow
<1>6. Cardinality(FreeRuns(m, from)) \in Nat
  BY <1>1, <1>2, GapsFinite
<1> QED BY <1>4, <1>5, <1>6

(* Work that is whole lies within one run. *)
Within(segs, r) == \A n \in DOMAIN segs : r[1] <= segs[n].start /\ segs[n].end <= r[2]
OneRun(m, kind, w) ==
    Whole(m, kind) => w.segs = <<>> \/ (w.left = 0 /\ \E r : IsRun(m, r) /\ Within(w.segs, r))

(* What is laid around the jobs already there. *)
LaidAround(m, kind, from, dur, runs) ==
    {st \in [runs : SUBSET runs, work : Laid(m, from, from, Horizon, dur)] :
       /\ \A r \in st.runs, n \in DOMAIN st.work.segs : st.work.segs[n].end <= r[1]
       /\ OneRun(m, kind, st.work)}

(* One more run: work that is whole goes into it whole, or not at all. *)
LEMMA LayInFits ==
  ASSUME Board, NEW m \in Machines, NEW kind, NEW from \in Nat, NEW dur, NEW pin, IsPin(pin),
         NEW st \in LaidAround(m, kind, from, dur, FreeRuns(m, from))
  PROVE  LayInNext(m, kind, pin, st) \in LaidAround(m, kind, from, dur, FreeRuns(m, from))
<1> DEFINE all == FreeRuns(m, from)
           run == CHOOSE r \in st.runs : \A x \in st.runs : r[1] <= x[1]
           got == LayWindows(m, run, st.work, pin)
<1>1. /\ st \in [runs : SUBSET all, work : Laid(m, from, from, Horizon, dur)]
      /\ \A r \in st.runs, n \in DOMAIN st.work.segs : st.work.segs[n].end <= r[1]
      /\ OneRun(m, kind, st.work)
  BY DEF LaidAround
<1>2. /\ \A r \in all : IsRun(m, r) /\ from <= r[1] /\ r[2] <= Horizon
      /\ \A r, q \in all : r[1] <= q[1] /\ r # q => r[2] <= q[1]
  BY RunsFree
<1>3. CASE st.runs = {} \/ st.work.left = 0
  BY <1>3 DEF LayInNext
<1>4. CASE ~(st.runs = {} \/ st.work.left = 0)
  <2> HIDE DEF all
  <2>1. st.runs \in SUBSET all /\ st.runs # {} /\ st.work.left # 0 /\ st.work \in Laid(m, from, from, Horizon, dur)
    BY <1>1, <1>4
  <2>2. run \in st.runs /\ \A x \in st.runs : run[1] <= x[1]
    <3> DEFINE f == [r \in st.runs |-> r[1]]
    <3>1. f \in [st.runs -> Nat]
      BY <1>2, <2>1 DEF IsRun
    <3>2. \E r \in st.runs : \A x \in st.runs : f[r] <= f[x]
      <4> HIDE DEF f
      <4> QED BY <2>1, <3>1, LeastOf
    <3> QED BY <3>2
  <2> HIDE DEF run
  <2>3. IsRun(m, run) /\ from <= run[1] /\ run[2] <= Horizon /\ run[1] \in Nat /\ run[2] \in Int /\ run[1] < run[2]
    BY <1>2, <2>1, <2>2 DEF IsRun
  <2>4. /\ st.work \in Work /\ Chain(st.work.segs) /\ Fits(st.work.segs, m, from, Horizon)
        /\ \A n \in DOMAIN st.work.segs : st.work.segs[n].end <= st.work.at
        /\ st.work.segs = <<>> => st.work.left = dur
        /\ from <= st.work.at
    BY <2>1 DEF Laid
  <2>5. Fits(st.work.segs, m, from, run[1])
    BY <1>1, <2>2, <2>4 DEF Fits
  <2>6. st.work \in Laid(m, from, from, run[1], dur)
    BY <2>4, <2>5 DEF Laid
  <2>7. got \in Laid(m, from, run[1], run[2], dur)
    BY <2>3, <2>6, WindowsFit
  <2>8. Whole(m, kind) => Within(got.segs, run)
    <3> SUFFICES ASSUME Whole(m, kind) PROVE Within(got.segs, run)
      OBVIOUS
    <3>1. st.work.segs = <<>>
      BY <1>1, <2>1 DEF OneRun
    <3>2. st.work \in Laid(m, run[1], from, run[1], dur)
      BY <2>4, <3>1 DEF Laid, Fits
    <3>3. run[1] <= run[1]
      BY <2>3
    <3>4. got \in Laid(m, run[1], run[1], run[2], dur)
      BY <2>3, <3>2, <3>3, WindowsFit
    <3> QED BY <3>4 DEF Laid, Fits, Within
  <2> HIDE DEF got
  <2>9. /\ got \in Work /\ Chain(got.segs) /\ Fits(got.segs, m, from, run[2])
        /\ \A n \in DOMAIN got.segs : got.segs[n].end <= got.at
        /\ got.segs = <<>> => got.left = dur
        /\ run[1] <= got.at
    BY <2>7 DEF Laid
  <2>10. \A n \in DOMAIN got.segs : got.segs[n].end <= run[2] /\ got.segs[n].end \in Nat
    <3>1. \A n \in DOMAIN got.segs : got.segs[n] \in Segment
      BY <2>9 DEF Work
    <3> QED BY <2>9, <3>1 DEF Fits, Segment
  <2>11. got \in Laid(m, from, from, Horizon, dur)
    <3>1. Horizon \in Nat /\ got.at \in Nat
      BY <2>9, DecoderAssumption DEF Work
    <3>2. Fits(got.segs, m, from, Horizon)
      BY <2>3, <2>9, <2>10, <3>1 DEF Fits
    <3>3. from <= got.at
      BY <2>3, <2>9, <3>1
    <3> QED BY <2>9, <3>2, <3>3 DEF Laid
  <2> DEFINE work == IF ~Whole(m, kind) \/ got.left = 0 THEN got ELSE st.work
  <2>12. LayInNext(m, kind, pin, st) = [runs |-> st.runs \ {run}, work |-> work]
    BY <1>4 DEF LayInNext, run, got
  <2>13. work \in Laid(m, from, from, Horizon, dur) /\ OneRun(m, kind, work)
    BY <1>1, <2>1, <2>3, <2>8, <2>11 DEF OneRun
  <2>14. \A r \in st.runs \ {run}, n \in DOMAIN work.segs : work.segs[n].end <= r[1]
    <3> SUFFICES ASSUME NEW r \in st.runs \ {run}, NEW n \in DOMAIN work.segs PROVE work.segs[n].end <= r[1]
      OBVIOUS
    <3>1. CASE work = st.work
      BY <1>1, <3>1
    <3>2. CASE work = got
      <4>1. run[2] <= r[1]
        BY <1>2, <2>1, <2>2
      <4>2. r[1] \in Int
        BY <1>2, <2>1 DEF IsRun
      <4>3. got.segs[n].end <= run[2] /\ got.segs[n].end \in Nat
        BY <2>10, <3>2
      <4> QED BY <2>3, <3>2, <4>1, <4>2, <4>3
    <3> QED BY <3>1, <3>2
  <2> HIDE DEF work
  <2>15. [runs |-> st.runs \ {run}, work |-> work] \in LaidAround(m, kind, from, dur, all)
    BY <2>1, <2>13, <2>14 DEF LaidAround
  <2> QED BY <2>12, <2>15 DEF all
<1> QED BY <1>3, <1>4

(* Work laid on a machine from an instant on. *)
LEMMA LaidOn ==
  ASSUME Board, NEW m \in Machines, NEW kind, NEW from \in Nat, NEW dur \in Nat, NEW pin, IsPin(pin)
  PROVE  /\ LayOn(m, from, dur, kind, pin) \in Laid(m, from, from, Horizon, dur)
         /\ OneRun(m, kind, LayOn(m, from, dur, kind, pin))
<1> DEFINE all == FreeRuns(m, from)
           D == LaidAround(m, kind, from, dur, all)
           Turn(st) == LayInNext(m, kind, pin, st)
           n == Cardinality(all)
           work == [at |-> from, left |-> dur, segs |-> <<>>]
           x == [runs |-> all, work |-> work]
           F == [y \in D \X (1..n) |-> Turn(y[1])]
           P(h) == h = [i \in 0..n |-> IF i = 0 THEN x ELSE Turn(h[i - 1])]
           c == CHOOSE h : P(h)
<1>1. n \in Nat
  BY RunsFree
<1>2. ASSUME NEW st \in D PROVE Turn(st) \in D
  BY LayInFits
<1>3. x \in D
  <2>1. work \in Work /\ work.segs = <<>> /\ work.at = from /\ work.left = dur
    BY DEF Work
  <2> HIDE DEF work
  <2>2. from <= from /\ DOMAIN work.segs = {}
    BY <2>1
  <2>3. work \in Laid(m, from, from, Horizon, dur)
    BY <2>1, <2>2 DEF Laid, Fits, Chain
  <2>4. OneRun(m, kind, work)
    BY <2>1 DEF OneRun
  <2> QED BY <2>2, <2>3, <2>4 DEF LaidAround
<1>3a. \A st \in D : st.work \in Laid(m, from, from, Horizon, dur) /\ OneRun(m, kind, st.work)
  BY DEF LaidAround
<1> HIDE DEF D, n, x, Turn
<1>4. IsTurn(F, D, n)
  BY <1>2 DEF IsTurn
<1>4a. \A y \in D, i \in 1..n : F[<<y, i>>] = Turn(y)
  OBVIOUS
<1> HIDE DEF F
<1>5. PICK a : AreTurns(a, F, D, n, x)
  BY <1>1, <1>3, <1>4, TurnsExist
<1>6. P(a)
  <2>1. \A i \in 1..n : i - 1 \in 0..n
    BY <1>1
  <2>2. \A i \in 1..n : a[i - 1] \in D
    BY <1>5, <2>1 DEF AreTurns
  <2>3. \A i \in 1..n : a[i] = Turn(a[i - 1])
    BY <1>4a, <1>5, <2>2 DEF AreTurns
  <2>4. \A i \in 0..n : i # 0 => i \in 1..n
    BY <1>1
  <2> QED BY <1>5, <2>3, <2>4 DEF AreTurns
<1>7. P(c)
  BY <1>6
<1> HIDE DEF c
<1>8. c[0] = x /\ \A i \in 1..n : c[i] = Turn(c[i - 1])
  BY <1>1, <1>7
<1>9. c[n] \in D
  <2>1. \A i \in 1..n : c[i - 1] \in D => c[i] \in D
    BY <1>2, <1>8
  <2> QED BY <1>1, <1>3, <1>8, <2>1, TurnsStay
<1>10. LayOn(m, from, dur, kind, pin) = c[n].work
  BY DEF LayOn, LayAround, Loop, c, n, x, Turn
<1> QED BY <1>3a, <1>9, <1>10

-----------------------------------------------------------------------------
(* Where an operation would go                                              *)

(* What decode knows of the orders it plans. *)
Book ==
    /\ route \in Books /\ orders \in SUBSET Jobs /\ today \in Starts
    /\ idx \in [Jobs -> Nat] /\ ready \in [Jobs -> Nat] /\ prevEnd \in [Jobs -> Nat]
    /\ \A k \in Jobs : idx[k] \in 1..(Len(route[k]) + 1) /\ today <= ready[k]
    /\ sent \in [Jobs -> Nat \cup {NotSent}]
    /\ \A k \in Jobs : \A n \in DOMAIN route[k] : left[k][n] \in Nat
Pinned ==
    \A s \in DOMAIN pins : IsPin(pins[s]) /\ pins[s].rank \in Nat /\ pins[s].start \in Nat

(* A placement: a milestone, nowhere, or a job of some stretches on a machine. *)
Spot == [machine : Machines \cup {NoMachine, Unrunnable}, start : Nat, end : Nat, segs : Seq(Segment)]
IsJob(p) ==
    /\ p.segs # <<>> /\ Chain(p.segs) /\ p.start < p.end /\ p.end <= Horizon
    /\ p.start = p.segs[1].start /\ p.end = p.segs[Len(p.segs)].end
    /\ \A n \in DOMAIN p.segs : /\ p.segs[n].start < p.segs[n].end
                                /\ p.start <= p.segs[n].start /\ p.segs[n].end <= p.end
IsPlaced(p) ==
    /\ p \in Spot /\ p.machine # Unrunnable /\ p.start <= p.end
    /\ p.machine = NoMachine => p.segs = <<>>
    /\ p.machine # NoMachine => IsJob(p)

(* One that may be committed: its stretches are clear, and a machining job's
   are in one run. *)
MayGo(k, p) ==
    /\ IsPlaced(p)
    /\ p.machine # NoMachine =>
         /\ \A n \in DOMAIN p.segs : Clear(p.segs[n], p.machine)
         /\ Op(Step(k)).kind = "machining" =>
              \E r : IsRun(p.machine, r) /\ r[1] <= p.start /\ p.end <= r[2]

(* A step runs on a machine unless nothing is owed or others do it; a published
   one on its own only. *)
Runs(s) == Duration(s) # 0 /\ Op(s).kind # "outsourced"
Suits(k, m) ==
    /\ m # NoMachine <=> Runs(Step(k))
    /\ m \in Machines /\ Step(k) \in DOMAIN pins => m = pins[Step(k)].machine
SpotsFrom(k, from) ==
    {p \in Spot : /\ Suits(k, p.machine)
                  /\ p.machine = Unrunnable \/ (from <= p.start /\ MayGo(k, p))}

(* The next operation of an order that is not done is one of its routing. *)
LEMMA OperationKnown ==
  ASSUME Book, NEW k \in Remaining
  PROVE  /\ k \in Jobs /\ k \in Nat /\ Op(Step(k)) \in Operation
         /\ Step(k) = <<k, idx[k]>> /\ idx[k] \in DOMAIN route[k] /\ route[k] \in Seq(Operation)
         /\ Owed(Step(k)) \in Nat /\ Duration(Step(k)) \in Nat
<1>1. k \in Jobs /\ idx[k] <= Len(route[k])
  BY DEF Remaining, Book
<1>2. route[k] \in Seq(Operation) /\ k \in Nat
  BY <1>1, DecoderAssumption DEF Book
<1>3. idx[k] \in 1..Len(route[k]) /\ idx[k] \in DOMAIN route[k]
  BY <1>1, <1>2 DEF Book
<1>4. Step(k) = <<k, idx[k]>> /\ Op(Step(k)) = route[k][idx[k]] /\ Owed(Step(k)) = left[k][idx[k]]
  BY DEF Step, Op, Owed
<1>5. Op(Step(k)) \in Operation /\ Owed(Step(k)) \in Nat
  BY <1>1, <1>2, <1>3, <1>4 DEF Book
<1>6. Duration(Step(k)) \in Nat
  <2> DEFINE op == Op(Step(k))
             owed == Owed(Step(k))
  <2> HIDE DEF op, owed
  <2>1. op.cycle \in Nat /\ owed \in Nat /\ op.kind \in InHouse \cup {"outsourced", "dispatch"}
    BY <1>5 DEF Operation, op, owed
  <2>2. owed * op.cycle \in Nat /\ Setup \in Nat
    BY <2>1, DecoderAssumption
  <2>3. Duration(Step(k)) \in {0, owed * op.cycle, Setup + owed * op.cycle, op.cycle}
    BY <2>1 DEF Duration, InHouse, op, owed
  <2> QED BY <2>1, <2>2, <2>3
<1> QED BY <1>1, <1>2, <1>3, <1>4, <1>5, <1>6

(* Work that is laid, all of it, is a job. *)
LEMMA JobLaid ==
  ASSUME Board, Book, NEW k \in Remaining, NEW m \in Machines, NEW from \in Nat, NEW dur \in Nat \ {0},
         NEW work \in Laid(m, from, from, Horizon, dur), OneRun(m, Op(Step(k)).kind, work), work.left = 0,
         Suits(k, m)
  PROVE  /\ Last(work.segs).end \in Nat
         /\ [machine |-> m, start |-> Head(work.segs).start, end |-> Last(work.segs).end, segs |-> work.segs]
              \in SpotsFrom(k, from)
<1> DEFINE segs == work.segs
           z == Len(segs)
           p == [machine |-> m, start |-> Head(segs).start, end |-> Last(segs).end, segs |-> segs]
<1>1. /\ segs \in Seq(Segment) /\ Chain(segs) /\ Fits(segs, m, from, Horizon)
      /\ segs # <<>>
  BY DEF Laid, Work
<1> HIDE DEF segs
<1>2. z \in Nat /\ 1 \in DOMAIN segs /\ z \in DOMAIN segs /\ DOMAIN segs = 1..z
      /\ Head(segs) = segs[1] /\ Last(segs) = segs[z]
  BY <1>1 DEF Last
<1>3. \A n \in DOMAIN segs : segs[n] \in Segment /\ segs[n].start \in Nat /\ segs[n].end \in Nat
  <2>1. \A g \in Segment : g.start \in Nat /\ g.end \in Nat
    BY DEF Segment
  <2>2. \A n \in DOMAIN segs : segs[n] \in Segment
    BY <1>1
  <2> QED BY <2>1, <2>2
<1>4. \A n \in DOMAIN segs : from <= segs[n].start /\ segs[n].start < segs[n].end /\ Clear(segs[n], m)
  BY <1>1 DEF Fits
<1>5. ASSUME NEW n \in DOMAIN segs PROVE segs[1].start <= segs[n].start /\ segs[n].end <= segs[z].end
  <2>1. n = 1 \/ segs[1].end <= segs[n].start
    BY <1>1, <1>2 DEF Chain
  <2>2. n = z \/ segs[n].end <= segs[z].start
    BY <1>1, <1>2 DEF Chain
  <2>3. /\ segs[1].start \in Nat /\ segs[1].end \in Nat /\ segs[1].start < segs[1].end
        /\ segs[z].start \in Nat /\ segs[z].end \in Nat /\ segs[z].start < segs[z].end
    BY <1>2, <1>3, <1>4
  <2>4. segs[n].start \in Nat /\ segs[n].end \in Nat
    BY <1>3
  <2>5. segs[1].start <= segs[n].start
    BY <2>1, <2>3, <2>4
  <2>6. segs[n].end <= segs[z].end
    BY <2>2, <2>3, <2>4
  <2> QED BY <2>5, <2>6
<1>6. p.machine = m /\ p.start = segs[1].start /\ p.end = segs[z].end /\ p.segs = segs
  BY <1>2
<1>7. p \in Spot
  BY <1>1, <1>2, <1>3 DEF Spot
<1> HIDE DEF z
<1>8. p.start < p.end /\ p.end <= Horizon
  <2>1. segs[1].start < segs[1].end /\ segs[1].end <= segs[z].end /\ segs[z].end <= Horizon
    BY <1>1, <1>2, <1>4, <1>5 DEF Fits
  <2> QED BY <1>2, <1>3, <1>6, <2>1
<1> HIDE DEF p
<1>9. IsJob(p)
  BY <1>1, <1>4, <1>5, <1>6, <1>8 DEF IsJob, z
<1>10. p.machine # NoMachine /\ p.machine # Unrunnable
  BY <1>6, DecoderAssumption
<1>11. p.start \in Nat /\ p.end \in Nat /\ p.start <= p.end /\ from <= p.start
  BY <1>2, <1>3, <1>4, <1>6, <1>8
<1>12. IsPlaced(p)
  BY <1>7, <1>9, <1>10, <1>11 DEF IsPlaced
<1>13. ASSUME Op(Step(k)).kind = "machining"
       PROVE  \E r : IsRun(m, r) /\ r[1] <= p.start /\ p.end <= r[2]
  <2>1. PICK r : IsRun(m, r) /\ Within(segs, r)
    BY <1>1, <1>13 DEF OneRun, Whole, segs
  <2>2. r[1] <= segs[1].start /\ segs[z].end <= r[2]
    BY <1>2, <2>1 DEF Within
  <2> QED BY <1>6, <2>1, <2>2
<1>14. MayGo(k, p)
  BY <1>4, <1>6, <1>12, <1>13 DEF MayGo
<1>15. p \in SpotsFrom(k, from)
  BY <1>6, <1>7, <1>11, <1>14 DEF SpotsFrom
<1>16. Last(segs).end \in Nat
  BY <1>2, <1>3
<1> QED BY <1>15, <1>16 DEF p, segs

(* The machine that finishes soonest is one of those that can be staffed. *)
LEMMA SoonestKnown ==
  ASSUME NEW op, NEW spots, NEW runnable,
         \A x \in runnable : /\ x.option \in Nat /\ Last(x.work.segs).end \in Nat
                             /\ [machine |-> op.on[x.option], start |-> Head(x.work.segs).start,
                                 end |-> Last(x.work.segs).end, segs |-> x.work.segs] \in spots,
         \A x, y \in runnable : x.option = y.option => x = y,
         [machine |-> Unrunnable, start |-> 0, end |-> Horizon, segs |-> <<>>] \in spots
  PROVE  Soonest(op, runnable) \in spots
<1>1. CASE runnable = {}
  BY <1>1 DEF Soonest
<1>2. CASE runnable # {}
  <2> DEFINE a == [x \in runnable |-> Last(x.work.segs).end]
             b == [x \in runnable |-> x.option]
             best == Least(runnable, LAMBDA x : <<Last(x.work.segs).end, x.option>>)
  <2>1. a \in [runnable -> Nat] /\ b \in [runnable -> Nat]
    OBVIOUS
  <2>2. \E x \in runnable : \A y \in runnable \ {x} : Before(<<a[x], b[x]>>, <<a[y], b[y]>>)
    <3>1. \A x, y \in runnable : a[x] = a[y] /\ b[x] = b[y] => x = y
      OBVIOUS
    <3> HIDE DEF a, b
    <3> QED BY <1>2, <2>1, <3>1, LeastByTwo
  <2>3. \E x \in runnable : \A y \in runnable \ {x} :
           Before(<<Last(x.work.segs).end, x.option>>, <<Last(y.work.segs).end, y.option>>)
    BY <2>2
  <2>4. best \in runnable
    BY <2>3 DEF Least
  <2>5. Soonest(op, runnable) =
          [machine |-> op.on[best.option], start |-> Head(best.work.segs).start,
           end |-> Last(best.work.segs).end, segs |-> best.work.segs]
    BY <1>2 DEF Soonest
  <2> HIDE DEF best
  <2> QED BY <2>4, <2>5
<1> QED BY <1>1, <1>2

(* A step with no machine may go anywhere. *)
LEMMA MilestoneGoes ==
  ASSUME NEW k, NEW from \in Nat, NEW end \in Nat, from <= end, ~Runs(Step(k))
  PROVE  Milestone(from, end) \in SpotsFrom(k, from)
<1> DEFINE p == Milestone(from, end)
<1>1. p = [machine |-> NoMachine, start |-> from, end |-> end, segs |-> <<>>]
  BY DEF Milestone
<1> HIDE DEF p
<1>2. p \in Spot /\ p.machine = NoMachine /\ p.start = from /\ p.end = end /\ p.segs = <<>>
  BY <1>1 DEF Spot
<1>3. NoMachine # Unrunnable
  BY DEF NoMachine, Unrunnable
<1>4. IsPlaced(p) /\ MayGo(k, p)
  BY <1>2, <1>3 DEF IsPlaced, MayGo
<1>5. from <= p.start
  BY <1>2
<1>6. Suits(k, p.machine)
  BY <1>2, DecoderAssumption DEF Suits
<1> QED BY <1>2, <1>4, <1>5, <1>6 DEF SpotsFrom, p

(* Wherever an operation would go, it may go there. *)
LEMMA OperationFits ==
  ASSUME Board, Book, Pinned, NEW k \in Remaining, NEW from \in Nat
  PROVE  PlaceOperation(k, from) \in SpotsFrom(k, from)
<1> DEFINE s == Step(k)
           op == Op(s)
           dur == Duration(s)
           pin == IF s \in DOMAIN pins THEN pins[s] ELSE NoPin
           options == {n \in DOMAIN op.on : s \in DOMAIN pins => op.on[n] = pins[s].machine}
           at == Max({from, today})
           f == [n \in options |-> [option |-> n, work |-> LayOn(op.on[n], at, dur, op.kind, pin)]]
           runnable == {x \in {f[n] : n \in options} : x.work.left = 0}
           place == PlaceOperation(k, from)
<1>1. op \in Operation /\ dur \in Nat /\ k \in Jobs
  BY OperationKnown
<1>2. /\ op.on \in Seq(Machines) /\ op.cycle \in Nat
      /\ \A n \in options : n \in Nat /\ op.on[n] \in Machines
  BY <1>1 DEF Operation
<1>3. at \in Nat /\ from <= at
  <2>1. today \in Nat
    BY DecoderAssumption DEF Book
  <2>2. at = IF from <= today THEN today ELSE from
    BY <2>1, OfTwo
  <2> QED BY <2>1, <2>2
<1>4. IsPin(pin)
  <2>1. IsPin(NoPin)
    BY DEF IsPin, NoPin
  <2> QED BY <2>1 DEF Pinned
<1>5. /\ place = CASE dur = 0 -> Milestone(from, from)
                   [] op.kind = "outsourced" /\ dur > 0 ->
                        Milestone(from, IF AtVendor(s) THEN Max({from, sent[k] + op.cycle}) ELSE from + op.cycle)
                   [] OTHER -> Soonest(op, runnable)
  BY DEF PlaceOperation
<1> HIDE DEF pin, at, place
<1>6. CASE dur = 0
  <2>1. place = Milestone(from, from)
    BY <1>5, <1>6
  <2>2. from <= from
    OBVIOUS
  <2>3. ~Runs(Step(k))
    BY <1>6 DEF Runs
  <2> QED BY <2>1, <2>2, <2>3, MilestoneGoes DEF place
<1>7. CASE dur > 0 /\ op.kind = "outsourced"
  <2> DEFINE end == IF AtVendor(s) THEN Max({from, sent[k] + op.cycle}) ELSE from + op.cycle
  <2>1. place = Milestone(from, end)
    <3> HIDE DEF s, op, dur, runnable
    <3> QED BY <1>1, <1>5, <1>7
  <2>2. end \in Nat /\ from <= end
    <3>1. CASE AtVendor(s)
      <4>1. sent[s[1]] # NotSent /\ s[1] = k
        BY <3>1, OperationKnown DEF AtVendor
      <4>2. sent[k] \in Nat
        BY <1>1, <4>1 DEF Book
      <4> DEFINE back == sent[k] + op.cycle
      <4>3. back \in Nat
        BY <1>2, <4>2
      <4>4. end = Max({from, back})
        BY <3>1
      <4> HIDE DEF back, end
      <4>5. end = IF from <= back THEN back ELSE from
        BY <4>3, <4>4, OfTwo
      <4> QED BY <4>3, <4>5
    <3>2. CASE ~AtVendor(s)
      BY <1>2, <3>2
    <3> QED BY <3>1, <3>2
  <2>3. ~Runs(Step(k))
    BY <1>7 DEF Runs
  <2> HIDE DEF end
  <2> QED BY <2>1, <2>2, <2>3, MilestoneGoes DEF place
<1>8. CASE dur > 0 /\ op.kind # "outsourced"
  <2>1. place = Soonest(op, runnable)
    <3> HIDE DEF s, op, dur, runnable
    <3> QED BY <1>1, <1>5, <1>8
  <2>1a. Runs(Step(k))
    BY <1>8 DEF Runs
  <2> DEFINE spots == SpotsFrom(k, from)
  <2>2. ASSUME NEW x \in runnable
        PROVE  /\ x.option \in Nat /\ Last(x.work.segs).end \in Nat /\ x = f[x.option]
               /\ [machine |-> op.on[x.option], start |-> Head(x.work.segs).start,
                   end |-> Last(x.work.segs).end, segs |-> x.work.segs] \in spots
    <3>1. PICK n \in options : x = f[n]
      OBVIOUS
    <3> DEFINE m == op.on[n]
               work == LayOn(m, at, dur, op.kind, pin)
    <3>2. x.option = n /\ x.work = work /\ work.left = 0 /\ n \in Nat /\ m \in Machines
      BY <1>2, <3>1
    <3>3. work \in Laid(m, at, at, Horizon, dur) /\ OneRun(m, op.kind, work)
      BY <1>1, <1>3, <1>4, <3>2, LaidOn
    <3>4. dur \in Nat \ {0}
      BY <1>1, <1>8
    <3>4a. Suits(k, m)
      <4>1. s \in DOMAIN pins => m = pins[s].machine
        OBVIOUS
      <4>2. m # NoMachine
        BY <3>2, DecoderAssumption
      <4> HIDE DEF m
      <4> QED BY <2>1a, <4>1, <4>2 DEF Suits
    <3> HIDE DEF work, m, dur, options, f
    <3>5. /\ Last(work.segs).end \in Nat
          /\ [machine |-> m, start |-> Head(work.segs).start, end |-> Last(work.segs).end, segs |-> work.segs]
                \in SpotsFrom(k, at)
      BY <1>3, <3>2, <3>3, <3>4, <3>4a, JobLaid
    <3>6. SpotsFrom(k, at) \in SUBSET SpotsFrom(k, from)
      <4>1. \A p \in Spot : at <= p.start => from <= p.start
        BY <1>3 DEF Spot
      <4> QED BY <4>1 DEF SpotsFrom
    <3> QED BY <3>1, <3>2, <3>5, <3>6 DEF m
  <2>3. [machine |-> Unrunnable, start |-> 0, end |-> Horizon, segs |-> <<>>] \in spots
    <3> DEFINE p == [machine |-> Unrunnable, start |-> 0, end |-> Horizon, segs |-> <<>>]
    <3>1. p \in Spot /\ p.machine = Unrunnable
      BY DecoderAssumption DEF Spot
    <3>1a. Suits(k, Unrunnable)
      <4>1. Unrunnable # NoMachine
        BY DEF NoMachine, Unrunnable
      <4> QED BY <2>1a, <4>1, DecoderAssumption DEF Suits
    <3> HIDE DEF p
    <3>2. p \in spots
      BY <3>1, <3>1a DEF SpotsFrom
    <3> QED BY <3>2 DEF p
  <2> HIDE DEF runnable, spots, f
  <2>4. Soonest(op, runnable) \in spots
    BY <2>2, <2>3, SoonestKnown
  <2> QED BY <2>1, <2>4 DEF spots, place
<1> HIDE DEF dur
<1> QED BY <1>1, <1>6, <1>7, <1>8

(* A set of placements that a push stays in, the guard stays in. *)
LEMMA GuardedIn ==
  ASSUME NEW k, NEW D, NEW p \in D, \A st \in D : PushOn(k, st) \in D
  PROVE  Guarded(k, p) \in D
<1> DEFINE Turn(st) == PushOn(k, st)
           n == GuardPasses
           F == [y \in D \X (1..n) |-> Turn(y[1])]
           P(h) == h = [i \in 0..n |-> IF i = 0 THEN p ELSE Turn(h[i - 1])]
           c == CHOOSE h : P(h)
<1>1. n \in Nat
  BY DecoderAssumption
<1>2. \A st \in D : Turn(st) \in D
  OBVIOUS
<1> HIDE DEF n, Turn
<1>4. IsTurn(F, D, n)
  BY <1>2 DEF IsTurn
<1>4a. \A y \in D, i \in 1..n : F[<<y, i>>] = Turn(y)
  OBVIOUS
<1> HIDE DEF F
<1>5. PICK a : AreTurns(a, F, D, n, p)
  BY <1>1, <1>4, TurnsExist
<1>6. P(a)
  <2>1. \A i \in 1..n : i - 1 \in 0..n
    BY <1>1
  <2>2. \A i \in 1..n : a[i - 1] \in D
    BY <1>5, <2>1 DEF AreTurns
  <2>3. \A i \in 1..n : a[i] = Turn(a[i - 1])
    BY <1>4a, <1>5, <2>2 DEF AreTurns
  <2>4. \A i \in 0..n : i # 0 => i \in 1..n
    BY <1>1
  <2> QED BY <1>5, <2>3, <2>4 DEF AreTurns
<1>7. P(c)
  BY <1>6
<1> HIDE DEF c
<1>8. c[0] = p /\ \A i \in 1..n : c[i] = Turn(c[i - 1])
  BY <1>1, <1>7
<1>9. c[n] \in D
  <2>1. \A i \in 1..n : c[i - 1] \in D => c[i] \in D
    BY <1>2, <1>8
  <2> QED BY <1>1, <1>8, <2>1, TurnsStay
<1>10. Guarded(k, p) = c[n]
  BY DEF Guarded, Loop, c, n, Turn
<1> QED BY <1>9, <1>10

(* The guard only moves work on. *)
LEMMA GuardedFits ==
  ASSUME Board, Book, Pinned, NEW k \in Remaining, NEW from \in Nat, NEW p \in SpotsFrom(k, from)
  PROVE  Guarded(k, p) \in SpotsFrom(k, from)
<1>1. ASSUME NEW st \in SpotsFrom(k, from) PROVE PushOn(k, st) \in SpotsFrom(k, from)
  <2> DEFINE later == st.start + (prevEnd[k] - st.end)
  <2>1. CASE st.machine \in {NoMachine, Unrunnable} \/ st.end >= prevEnd[k]
    BY <2>1 DEF PushOn
  <2>2. CASE ~(st.machine \in {NoMachine, Unrunnable} \/ st.end >= prevEnd[k])
    <3>1. st \in Spot /\ from <= st.start /\ k \in Jobs
      BY <2>2, OperationKnown DEF SpotsFrom
    <3>2. st.start \in Nat /\ st.end \in Nat /\ prevEnd[k] \in Nat
      BY <3>1 DEF Spot, Book
    <3>3. later \in Nat /\ from <= later
      BY <2>2, <3>1, <3>2
    <3>4. PushOn(k, st) = PlaceOperation(k, later)
      BY <2>2 DEF PushOn
    <3> HIDE DEF later
    <3>5. PlaceOperation(k, later) \in SpotsFrom(k, later)
      BY <3>3, OperationFits
    <3>6. SpotsFrom(k, later) \in SUBSET SpotsFrom(k, from)
      <4>1. \A q \in Spot : later <= q.start => from <= q.start
        BY <3>3 DEF Spot
      <4> QED BY <4>1 DEF SpotsFrom
    <3> QED BY <3>4, <3>5, <3>6
  <2> QED BY <2>1, <2>2
<1> QED BY <1>1, GuardedIn

(* What cannot be staffed stays so. *)
LEMMA GuardedFails ==
  ASSUME NEW k, NEW p, p.machine = Unrunnable
  PROVE  Guarded(k, p) = p
<1>1. \A st \in {p} : PushOn(k, st) \in {p}
  BY DEF PushOn
<1>2. Guarded(k, p) \in {p}
  BY <1>1, GuardedIn
<1> QED BY <1>2

-----------------------------------------------------------------------------
(* Which operation goes                                                     *)

Choice == {pl \in [Remaining -> Spot] : \A k \in Remaining : pl[k] \in SpotsFrom(k, ready[k])}

(* Every candidate may go where it would be placed. *)
LEMMA PlacementsFit ==
  ASSUME Board, Book, Pinned
  PROVE  Placements \in Choice
<1>1. \A k \in Remaining : PlaceOperation(k, ready[k]) \in SpotsFrom(k, ready[k])
  <2> SUFFICES ASSUME NEW k \in Remaining PROVE PlaceOperation(k, ready[k]) \in SpotsFrom(k, ready[k])
    OBVIOUS
  <2>1. ready[k] \in Nat
    BY OperationKnown DEF Book
  <2> QED BY <2>1, OperationFits
<1>2. \A k \in Remaining : PlaceOperation(k, ready[k]) \in Spot
  BY <1>1 DEF SpotsFrom
<1> QED BY <1>1, <1>2 DEF Placements, Choice

(* So may those that were pushed on. *)
LEMMA SettledFits ==
  ASSUME Board, Book, Pinned, NEW some, NEW pl \in Choice
  PROVE  Settled(some, pl) \in Choice
<1>1. DOMAIN pl = Remaining /\ \A k \in Remaining : pl[k] \in Spot /\ pl[k] \in SpotsFrom(k, ready[k])
  BY DEF Choice
<1>2. \A k \in Remaining : Guarded(k, pl[k]) \in SpotsFrom(k, ready[k])
  <2> SUFFICES ASSUME NEW k \in Remaining PROVE Guarded(k, pl[k]) \in SpotsFrom(k, ready[k])
    OBVIOUS
  <2>1. ready[k] \in Nat
    BY OperationKnown DEF Book
  <2> QED BY <1>1, <2>1, GuardedFits
<1> DEFINE f == [k \in Remaining |-> IF k \in some THEN Guarded(k, pl[k]) ELSE pl[k]]
<1>3. Settled(some, pl) = f
  BY <1>1 DEF Settled
<1>4. \A k \in Remaining : f[k] \in SpotsFrom(k, ready[k])
  BY <1>1, <1>2
<1>5. \A k \in Remaining : f[k] \in Spot
  BY <1>4 DEF SpotsFrom
<1> QED BY <1>3, <1>4, <1>5 DEF Choice

(* The published order ranks any orders there are. *)
LEMMA ReplayRanks ==
  ASSUME Book, Pinned, NEW pl \in Choice, NEW S \in SUBSET Remaining, S # {}
  PROVE  \E x \in S : \A y \in S \ {x} : Before(ReplayKey(x, pl), ReplayKey(y, pl))
<1> DEFINE Free(k) == pl[k].machine = NoMachine
           InPlan(k) == Step(k) \in DOMAIN pins
           a == [k \in S |-> IF Free(k) THEN 0 ELSE IF InPlan(k) THEN 1 ELSE 2]
           b == [k \in S |-> IF Free(k) THEN 0 ELSE IF InPlan(k) THEN pins[Step(k)].rank ELSE 0]
           c == [k \in S |-> IF Free(k) THEN pl[k].start
                             ELSE IF InPlan(k) THEN pins[Step(k)].start ELSE pl[k].start]
           d == [k \in S |-> k]
<1>1. \A k \in S : pl[k].start \in Nat /\ k \in Nat
  BY OperationKnown DEF Choice, Spot
<1>2. a \in [S -> Nat] /\ b \in [S -> Nat] /\ c \in [S -> Nat] /\ d \in [S -> Nat]
  BY <1>1 DEF Pinned
<1>3. \A x, y \in S : a[x] = a[y] /\ b[x] = b[y] /\ c[x] = c[y] /\ d[x] = d[y] => x = y
  OBVIOUS
<1>4. \A x \in S : ReplayKey(x, pl) = <<a[x], b[x], c[x], d[x]>>
  BY DEF ReplayKey
<1> HIDE DEF a, b, c, d
<1>5. \E x \in S : \A y \in S \ {x} : Before(<<a[x], b[x], c[x], d[x]>>, <<a[y], b[y], c[y], d[y]>>)
  BY <1>2, <1>3, LeastByFour
<1> QED BY <1>4, <1>5

(* What is published and owed has somebody to run it, on its own machine. *)
Owing ==
    /\ \A s \in DOMAIN pins : Queued(s) => Runs(s)
    /\ \A s \in DOMAIN placed :
         /\ s[2] \in DOMAIN route[s[1]]
         /\ placed[s].machine # NoMachine <=> Runs(s)
         /\ s \in DOMAIN pins /\ Runs(s) => placed[s].machine = pins[s].machine
    /\ phase = "plan" => \A k \in Jobs : \A n \in DOMAIN route[k] : left[k][n] = Qty

(* The key of a published step is its place in the published order. *)
LEMMA QueuedKey ==
  ASSUME Book, Pinned, Owing, NEW pl \in Choice, NEW k \in Remaining, Queued(Step(k))
  PROVE  /\ ReplayKey(k, pl) = <<1, pins[Step(k)].rank, pins[Step(k)].start, k>>
         /\ OrderKey(Step(k)) = <<pins[Step(k)].rank, pins[Step(k)].start>>
         /\ pins[Step(k)].rank \in Int /\ pins[Step(k)].start \in Int /\ k \in Int
<1>1. Step(k) \in DOMAIN pins /\ Runs(Step(k))
  BY DEF Queued, Owing
<1>2. pl[k].machine # NoMachine
  BY <1>1 DEF Choice, SpotsFrom, Suits
<1>3. pins[Step(k)].rank \in Int /\ pins[Step(k)].start \in Int /\ k \in Int
  BY <1>1, OperationKnown DEF Pinned
<1> QED BY <1>1, <1>2, <1>3 DEF ReplayKey, OrderKey

(* Among published steps the rank, the start and the order decide. *)
Comes(r1, z1, i, r2, z2, j) == r1 < r2 \/ (r1 = r2 /\ z1 < z2) \/ (r1 = r2 /\ z1 = z2 /\ i < j)
LEMMA AmongQueued ==
  ASSUME NEW one \in Int, NEW r1 \in Int, NEW z1 \in Int, NEW i \in Int,
         NEW r2 \in Int, NEW z2 \in Int, NEW j \in Int
  PROVE  Before(<<one, r1, z1, i>>, <<one, r2, z2, j>>) <=> Comes(r1, z1, i, r2, z2, j)
<1>1. ~(one < one)
  OBVIOUS
<1>2. ASSUME Before(<<one, r1, z1, i>>, <<one, r2, z2, j>>)
      PROVE  r1 < r2 \/ (r1 = r2 /\ z1 < z2) \/ (r1 = r2 /\ z1 = z2 /\ i < j)
  <2>1. \/ one < one
        \/ one = one /\ r1 < r2
        \/ one = one /\ r1 = r2 /\ z1 < z2
        \/ one = one /\ r1 = r2 /\ z1 = z2 /\ i < j
    BY <1>2, FirstOfFour, ZenonT(60)
  <2> QED BY <1>1, <2>1
<1>3. ASSUME r1 < r2 \/ (r1 = r2 /\ z1 < z2) \/ (r1 = r2 /\ z1 = z2 /\ i < j)
      PROVE  Before(<<one, r1, z1, i>>, <<one, r2, z2, j>>)
  BY <1>3, BeforeFour
<1> QED BY <1>2, <1>3 DEF Comes

(* That is transitive. *)
LEMMA ComesFirst ==
  ASSUME NEW r1 \in Int, NEW z1 \in Int, NEW i \in Int, NEW r2 \in Int, NEW z2 \in Int, NEW j \in Int,
         NEW r3 \in Int, NEW z3 \in Int, NEW k \in Int
  PROVE  Comes(r1, z1, i, r2, z2, j) /\ Comes(r2, z2, j, r3, z3, k) => Comes(r1, z1, i, r3, z3, k)
BY DEF Comes

(* So a published step's key compares by its place in the published order. *)
LEMMA QueuedComes ==
  ASSUME Book, Pinned, Owing, NEW pl \in Choice,
         NEW i \in Remaining, Queued(Step(i)), NEW j \in Remaining, Queued(Step(j))
  PROVE  Before(ReplayKey(i, pl), ReplayKey(j, pl)) <=>
           Comes(pins[Step(i)].rank, pins[Step(i)].start, i, pins[Step(j)].rank, pins[Step(j)].start, j)
<1>1. PICK one \in Int : one = 1
  OBVIOUS
<1>2. PICK r1 \in Int, z1 \in Int :
        r1 = pins[Step(i)].rank /\ z1 = pins[Step(i)].start /\ ReplayKey(i, pl) = <<one, r1, z1, i>> /\ i \in Int
  BY <1>1, QueuedKey
<1>3. PICK r2 \in Int, z2 \in Int :
        r2 = pins[Step(j)].rank /\ z2 = pins[Step(j)].start /\ ReplayKey(j, pl) = <<one, r2, z2, j>> /\ j \in Int
  BY <1>1, QueuedKey
<1>4. i \in Int /\ j \in Int
  BY <1>2, <1>3
<1>5. Before(<<one, r1, z1, i>>, <<one, r2, z2, j>>) <=> Comes(r1, z1, i, r2, z2, j)
  BY <1>4, AmongQueued
<1> QED BY <1>2, <1>3, <1>5

(* Of two of them the one published first comes first. *)
LEMMA QueuedBefore ==
  ASSUME Book, Pinned, Owing, NEW pl \in Choice,
         NEW i \in Remaining, Queued(Step(i)), NEW j \in Remaining, Queued(Step(j)),
         Before(OrderKey(Step(i)), OrderKey(Step(j)))
  PROVE  /\ Before(ReplayKey(i, pl), ReplayKey(j, pl))
         /\ ~Before(ReplayKey(j, pl), ReplayKey(i, pl))
<1>1. PICK r1 \in Int, z1 \in Int :
        r1 = pins[Step(i)].rank /\ z1 = pins[Step(i)].start /\ OrderKey(Step(i)) = <<r1, z1>> /\ i \in Int
  BY QueuedKey
<1>2. PICK r2 \in Int, z2 \in Int :
        r2 = pins[Step(j)].rank /\ z2 = pins[Step(j)].start /\ OrderKey(Step(j)) = <<r2, z2>> /\ j \in Int
  BY QueuedKey
<1>3. Before(<<r1, z1>>, <<r2, z2>>) /\ i \in Int /\ j \in Int
  BY <1>1, <1>2
<1>4. r1 < r2 \/ (r1 = r2 /\ z1 < z2)
  BY <1>3, FirstOfTwo
<1>5. Comes(r1, z1, i, r2, z2, j) /\ ~Comes(r2, z2, j, r1, z1, i)
  BY <1>4 DEF Comes
<1>6. /\ Before(ReplayKey(i, pl), ReplayKey(j, pl)) <=> Comes(r1, z1, i, r2, z2, j)
      /\ Before(ReplayKey(j, pl), ReplayKey(i, pl)) <=> Comes(r2, z2, j, r1, z1, i)
  BY <1>1, <1>2, QueuedComes
<1> QED BY <1>5, <1>6

(* And what comes before a first one comes before a later one. *)
LEMMA QueuedChain ==
  ASSUME Book, Pinned, Owing, NEW pl \in Choice, NEW i \in Remaining, Queued(Step(i)),
         NEW j \in Remaining, Queued(Step(j)), NEW k \in Remaining, Queued(Step(k)),
         Before(ReplayKey(i, pl), ReplayKey(j, pl)), Before(ReplayKey(j, pl), ReplayKey(k, pl))
  PROVE  Before(ReplayKey(i, pl), ReplayKey(k, pl))
<1>1. PICK r1 \in Int, z1 \in Int : r1 = pins[Step(i)].rank /\ z1 = pins[Step(i)].start /\ i \in Int
  BY QueuedKey
<1>2. PICK r2 \in Int, z2 \in Int : r2 = pins[Step(j)].rank /\ z2 = pins[Step(j)].start /\ j \in Int
  BY QueuedKey
<1>3. PICK r3 \in Int, z3 \in Int : r3 = pins[Step(k)].rank /\ z3 = pins[Step(k)].start /\ k \in Int
  BY QueuedKey
<1>4. Comes(r1, z1, i, r2, z2, j) /\ Comes(r2, z2, j, r3, z3, k)
  BY <1>1, <1>2, <1>3, QueuedComes
<1>5. Comes(r1, z1, i, r3, z3, k)
  BY <1>1, <1>2, <1>3, <1>4, ComesFirst
<1> QED BY <1>1, <1>3, <1>5, QueuedComes

(* When an order could begin. *)
LEMMA ReachedKnown ==
  ASSUME Book, NEW k \in Remaining
  PROVE  Reached(k) \in Nat /\ (\A n \in Nat : ready[k] <= n => Reached(k) <= n)
<1>1. k \in Jobs /\ ready \in [Jobs -> Nat] /\ today \in Starts /\ today <= ready[k]
  BY OperationKnown DEF Book
<1>2. ready[k] \in Nat /\ today \in Nat /\ ready[k] \in Int /\ today \in Int
  BY <1>1, DecoderAssumption
<1>3. Reached(k) = IF ready[k] <= today THEN today ELSE ready[k]
  BY <1>2, OfTwo DEF Reached
<1> QED BY <1>1, <1>2, <1>3

(* An order may go: one that is published before it on its machine, next in its
   order and on time, is ready later, and somebody late gave way. *)
Earned(c) ==
    Queued(Step(c)) =>
      \A k \in Remaining \ {c} : Passed(k, Step(c)) =>
        /\ Reached(c) < Reached(k)
        /\ \E late \in Remaining \ {c, k} : Late(late) /\ pins[Step(late)].machine = pins[Step(c)].machine

(* A turn of the giving way. *)
Ways ==
    {w \in [key : Remaining, aside : SUBSET Remaining, pl : Choice, decided : BOOLEAN] :
       (\A a \in w.aside : Late(a)) /\ (Earned(w.key) \/ Fails(w.pl))}

(* Pushing others on staffs nobody. *)
LEMMA SettledFails ==
  ASSUME NEW some, NEW pl \in Choice, Fails(pl)
  PROVE  Fails(Settled(some, pl))
<1>1. PICK k \in Remaining : pl[k].machine = Unrunnable
  BY DEF Fails
<1>2. k \in DOMAIN pl
  BY DEF Choice
<1>3. Settled(some, pl)[k] = pl[k]
  BY <1>1, <1>2, GuardedFails DEF Settled
<1> QED BY <1>1, <1>3 DEF Fails

(* Of those who could go before j, the first in published order may go in the
   place of a late one. *)
LEMMA UpEarned ==
  ASSUME Book, Pinned, Owing, NEW st \in Ways, Late(st.key), NEW pl \in Choice, ~Fails(pl),
         NEW j \in Rivals(st.key),
         NEW up, up = {i \in Rivals(st.key) \ st.aside :
                         Before(ReplayKey(i, pl), ReplayKey(j, pl)) /\ Reached(i) <= pl[j].start},
         NEW c \in up, \A i \in up \ {c} : Before(ReplayKey(c, pl), ReplayKey(i, pl))
  PROVE  c \in Remaining /\ Earned(c)
<1>1. /\ c \in Rivals(st.key) /\ c \in Remaining /\ c # st.key /\ Queued(Step(c)) /\ Queued(Step(j)) /\ j \in Remaining
      /\ pins[Step(c)].machine = pins[Step(st.key)].machine
      /\ Before(ReplayKey(c, pl), ReplayKey(j, pl)) /\ Reached(c) <= pl[j].start
  BY DEF Rivals
<1>2. st.key \in Remaining /\ \A a \in st.aside : Late(a)
  BY DEF Ways
<1>3. ASSUME NEW k \in Remaining \ {c}, Passed(k, Step(c))
      PROVE  /\ Reached(c) < Reached(k)
             /\ \E late \in Remaining \ {c, k} : Late(late) /\ pins[Step(late)].machine = pins[Step(c)].machine
  <2>1. /\ Queued(Step(k)) /\ pins[Step(k)].machine = pins[Step(c)].machine
        /\ Before(OrderKey(Step(k)), OrderKey(Step(c))) /\ ~Late(k)
    BY <1>3 DEF Passed
  <2>2. k # st.key /\ k \notin st.aside /\ k \in Rivals(st.key)
    BY <1>1, <1>2, <2>1 DEF Rivals
  <2>3. Before(ReplayKey(k, pl), ReplayKey(c, pl)) /\ ~Before(ReplayKey(c, pl), ReplayKey(k, pl))
    BY <1>1, <2>1, QueuedBefore
  <2>4. Before(ReplayKey(k, pl), ReplayKey(j, pl))
    BY <1>1, <2>1, <2>3, QueuedChain
  <2>5. ~(Reached(k) <= pl[j].start)
    BY <2>2, <2>3, <2>4
  <2>6. Reached(k) \in Nat /\ Reached(c) \in Nat /\ pl[j].start \in Nat
    BY <1>1, ReachedKnown DEF Choice, Spot
  <2>7. Reached(c) < Reached(k)
    BY <1>1, <2>5, <2>6
  <2> QED BY <1>1, <1>2, <2>2, <2>7
<1> QED BY <1>1, <1>3 DEF Earned

(* When nobody could, j may go itself. *)
LEMMA NextEarned ==
  ASSUME Book, Pinned, Owing, NEW st \in Ways, Late(st.key), NEW pl \in Choice, ~Fails(pl),
         NEW j \in Rivals(st.key), Reached(j) <= pl[j].start,
         ~\E i \in Rivals(st.key) \ st.aside :
             Before(ReplayKey(i, pl), ReplayKey(j, pl)) /\ Reached(i) <= pl[j].start
  PROVE  Earned(j)
<1>1. j \in Remaining /\ j # st.key /\ Queued(Step(j)) /\ pins[Step(j)].machine = pins[Step(st.key)].machine
  BY DEF Rivals
<1>2. st.key \in Remaining /\ \A a \in st.aside : Late(a)
  BY DEF Ways
<1>3. ASSUME NEW k \in Remaining \ {j}, Passed(k, Step(j))
      PROVE  /\ Reached(j) < Reached(k)
             /\ \E late \in Remaining \ {j, k} : Late(late) /\ pins[Step(late)].machine = pins[Step(j)].machine
  <2>1. /\ Queued(Step(k)) /\ pins[Step(k)].machine = pins[Step(j)].machine
        /\ Before(OrderKey(Step(k)), OrderKey(Step(j))) /\ ~Late(k)
    BY <1>3 DEF Passed
  <2>2. k # st.key /\ k \notin st.aside /\ k \in Rivals(st.key)
    BY <1>1, <1>2, <2>1 DEF Rivals
  <2>3. Before(ReplayKey(k, pl), ReplayKey(j, pl))
    BY <1>1, <2>1, QueuedBefore
  <2>4. ~(Reached(k) <= pl[j].start)
    BY <2>2, <2>3
  <2>5. Reached(k) \in Nat /\ Reached(j) \in Nat /\ pl[j].start \in Nat
    BY <1>1, ReachedKnown DEF Choice, Spot
  <2>6. Reached(j) < Reached(k)
    BY <2>4, <2>5
  <2> QED BY <1>1, <1>2, <2>2, <2>6
<1> QED BY <1>1, <1>3 DEF Earned

(* Work elsewhere goes first only if it passes nobody on its own machine. *)
LEMMA ElsewhereEarned ==
  ASSUME Book, NEW pl \in Choice, NEW g \in Remaining, ~JumpsItsMachine(g, pl)
  PROVE  Earned(g)
<1> SUFFICES ASSUME Queued(Step(g)), NEW k \in Remaining \ {g}, Passed(k, Step(g))
             PROVE  FALSE
  BY DEF Earned
<1>1. /\ Queued(Step(k)) /\ pins[Step(k)].machine = pins[Step(g)].machine
      /\ Before(OrderKey(Step(k)), OrderKey(Step(g))) /\ ~Late(k)
  BY DEF Passed
<1>2. Step(k) = <<k, idx[k]>> /\ idx[k] \in Nat
  BY OperationKnown DEF Book
<1>3. Step(k) \in Queue(pins[Step(g)].machine)
  BY <1>1 DEF Queue, Queued
<1>4. idx[k] <= idx[k]
  BY <1>2
<1> QED BY <1>1, <1>2, <1>3, <1>4 DEF JumpsItsMachine

(* Whoever is let through is one of the candidates and may go. *)
LEMMA LetThroughFits ==
  ASSUME Board, Book, Pinned, Owing, NEW st \in Ways, Late(st.key), NEW j \in Rivals(st.key), NEW pl \in Choice,
         Fails(st.pl) => Fails(pl), Fails(pl) \/ Reached(j) <= pl[j].start
  PROVE  LetThrough(st, j, pl) \in Ways
<1> DEFINE up == {i \in Rivals(st.key) \ st.aside :
                     Before(ReplayKey(i, pl), ReplayKey(j, pl)) /\ Reached(i) <= pl[j].start}
           rest == Remaining \ (st.aside \cup {st.key} \cup Rivals(st.key))
           Key(k) == ReplayKey(k, pl)
           stays == [st EXCEPT !.pl = pl, !.decided = TRUE]
           Yields(to) == [key |-> to, aside |-> st.aside \cup {st.key}, pl |-> pl, decided |-> FALSE]
<1>0. /\ st.key \in Remaining /\ st.aside \in SUBSET Remaining /\ j \in Remaining
      /\ \A a \in st.aside \cup {st.key} : Late(a)
  BY DEF Ways, Rivals
<1>1. stays \in Ways
  BY DEF Ways
<1>2. \A to \in Remaining : Earned(to) \/ Fails(pl) => Yields(to) \in Ways
  BY <1>0 DEF Ways
<1>3. up # {} => Least(up, Key) \in Remaining /\ (Earned(Least(up, Key)) \/ Fails(pl))
  <2>1. up \in SUBSET Remaining
    BY DEF Rivals
  <2>2. up # {} => \E x \in up : \A y \in up \ {x} : Before(ReplayKey(x, pl), ReplayKey(y, pl))
    <3> HIDE DEF up
    <3> QED BY <2>1, ReplayRanks
  <2>3. up # {} => /\ Least(up, Key) \in up
                   /\ \A y \in up \ {Least(up, Key)} : Before(ReplayKey(Least(up, Key), pl), ReplayKey(y, pl))
    BY <2>2 DEF Least
  <2>4. PICK some : some = up
    OBVIOUS
  <2> SUFFICES ASSUME up # {}, ~Fails(pl) PROVE Least(up, Key) \in Remaining /\ Earned(Least(up, Key))
    BY <2>1, <2>3
  <2>5. PICK c \in up : c = Least(up, Key) /\ \A y \in up \ {c} : Before(ReplayKey(c, pl), ReplayKey(y, pl))
    BY <2>3
  <2>6. c \in Remaining /\ Earned(c)
    BY <2>5, UpEarned
  <2> QED BY <2>5, <2>6
<1>4. rest # {} => Least(rest, Key) \in Remaining
  <2>1. rest \in SUBSET Remaining
    OBVIOUS
  <2>2. rest # {} => \E x \in rest : \A y \in rest \ {x} : Before(ReplayKey(x, pl), ReplayKey(y, pl))
    <3> HIDE DEF rest
    <3> QED BY <2>1, ReplayRanks
  <2>3. rest # {} => Least(rest, Key) \in rest
    BY <2>2 DEF Least
  <2> QED BY <2>1, <2>3
<1>4a. ~JumpsItsMachine(Least(rest, Key), pl) /\ rest # {} => Earned(Least(rest, Key))
  BY <1>4, ElsewhereEarned
<1>4b. up = {} => Earned(j) \/ Fails(pl)
  BY NextEarned
<1>5. \/ LetThrough(st, j, pl) = stays
      \/ up # {} /\ LetThrough(st, j, pl) = Yields(Least(up, Key))
      \/ rest # {} /\ ~JumpsItsMachine(Least(rest, Key), pl) /\ LetThrough(st, j, pl) = Yields(Least(rest, Key))
      \/ up = {} /\ LetThrough(st, j, pl) = Yields(j)
  BY DEF LetThrough
<1> HIDE DEF stays, Yields, up, rest
<1> QED BY <1>0, <1>1, <1>2, <1>3, <1>4, <1>4a, <1>4b, <1>5

(* Who steps aside lets through somebody who is ready soon enough. *)
LEMMA StepAsideFits ==
  ASSUME Board, Book, Pinned, Owing, NEW st \in Ways, Late(st.key), NEW pl \in Choice,
         Fails(st.pl) => Fails(pl)
  PROVE  StepAside(st, pl) \in Ways
<1> DEFINE ahead == {k \in Rivals(st.key) : pl[k].start < Reached(st.key)}
           starts == {pl[a].start : a \in ahead}
           soon == {k \in Rivals(st.key) : Reached(k) <= Min(starts)}
           j == Least(soon, LAMBDA k : ReplayKey(k, pl))
<1>1. CASE Fails(pl) \/ ahead = {}
  <2>1. [st EXCEPT !.pl = pl, !.decided = TRUE] \in Ways
    BY DEF Ways
  <2> QED BY <1>1, <2>1 DEF StepAside
<1>2. CASE ~Fails(pl) /\ ahead # {}
  <2>1. ahead \in SUBSET Remaining /\ soon \in SUBSET Remaining
    BY DEF Rivals
  <2>2. \A k \in Remaining : pl[k].start \in Nat /\ ready[k] <= pl[k].start
    BY <1>2 DEF Choice, Spot, SpotsFrom, Fails
  <2>3. \A k \in Remaining : Reached(k) <= pl[k].start
    BY <2>2, ReachedKnown
  <2>4. Min(starts) \in starts
    <3>1. starts \in SUBSET Int /\ starts # {} /\ 0 \in Int /\ \A n \in starts : 0 <= n
      BY <1>2, <2>1, <2>2
    <3> HIDE DEF starts
    <3> QED BY <3>1, LeastAbove
  <2>5. soon # {}
    <3>1. PICK a \in ahead : Min(starts) = pl[a].start
      BY <2>4
    <3> HIDE DEF starts
    <3>2. a \in soon
      BY <2>1, <2>3, <3>1
    <3> QED BY <3>2
  <2>6. j \in soon
    <3>1. \E x \in soon : \A y \in soon \ {x} : Before(ReplayKey(x, pl), ReplayKey(y, pl))
      <4> HIDE DEF soon
      <4> QED BY <2>1, <2>5, ReplayRanks
    <3> QED BY <3>1 DEF Least
  <2>7. StepAside(st, pl) = LetThrough(st, j, Settled({st.key, j}, pl))
    BY <1>2 DEF StepAside
  <2>8. j \in Rivals(st.key) /\ j \in Remaining
    BY <2>1, <2>6
  <2> HIDE DEF j, soon
  <2> DEFINE then == Settled({st.key, j}, pl)
  <2>9. then \in Choice /\ (Fails(pl) => Fails(then))
    BY SettledFits, SettledFails
  <2>10. Fails(then) \/ Reached(j) <= then[j].start
    BY <2>8, <2>9, ReachedKnown DEF Choice, SpotsFrom, Spot, Fails
  <2> HIDE DEF then
  <2>11. LetThrough(st, j, then) \in Ways
    BY <2>8, <2>9, <2>10, LetThroughFits
  <2> QED BY <2>7, <2>11 DEF then
<1> QED BY <1>1, <1>2

(* A turn of giving way ends at one of the candidates. *)
LEMMA GiveWayFits ==
  ASSUME Board, Book, Pinned, Owing, NEW st \in Ways
  PROVE  GiveWay(st) \in Ways
<1>1. [st EXCEPT !.decided = TRUE] \in Ways
  BY DEF Ways
<1> DEFINE some == {k \in Rivals(st.key) : st.pl[k].start < Reached(st.key)}
<1>2. Settled(some, st.pl) \in Choice /\ (Fails(st.pl) => Fails(Settled(some, st.pl)))
  <2>1. st.pl \in Choice
    BY DEF Ways
  <2> HIDE DEF some
  <2> QED BY <2>1, SettledFits, SettledFails
<1>3. Late(st.key) => StepAside(st, Settled(some, st.pl)) \in Ways
  <2> HIDE DEF some
  <2> QED BY <1>2, StepAsideFits
<1> QED BY <1>1, <1>3 DEF GiveWay

(* So does the chain of turns: _pick returns a candidate. *)
LEMMA FollowFits ==
  ASSUME Board, Book, Pinned, Owing, Remaining # {}, NEW pl \in Choice
  PROVE  FollowPublished(pl) \in Ways
<1> DEFINE D == Ways
           first == Least(Remaining, LAMBDA k : ReplayKey(k, pl))
           Turn(st) == GiveWay(st)
           n == 2 * Cardinality(Remaining) + 2
           x == [key |-> first, aside |-> {}, pl |-> pl, decided |-> FALSE]
           F == [y \in D \X (1..n) |-> Turn(y[1])]
           P(h) == h = [i \in 0..n |-> IF i = 0 THEN x ELSE Turn(h[i - 1])]
           c == CHOOSE h : P(h)
<1>1. n \in Nat
  <2>1. IsFiniteSet(Remaining)
    <3>1. Remaining \in SUBSET Jobs
      BY DEF Remaining, Book
    <3> QED BY <3>1, DecoderAssumption, FS_Subset
  <2>2. Cardinality(Remaining) \in Nat
    BY <2>1, FS_CardinalityType
  <2> QED BY <2>2
<1>2. ASSUME NEW st \in D PROVE Turn(st) \in D
  BY GiveWayFits
<1>3. x \in D
  <2>1. \E k \in Remaining : \A y \in Remaining \ {k} : Before(ReplayKey(k, pl), ReplayKey(y, pl))
    BY ReplayRanks
  <2>2. first \in Remaining /\ \A y \in Remaining \ {first} : Before(ReplayKey(first, pl), ReplayKey(y, pl))
    BY <2>1 DEF Least
  <2> HIDE DEF first
  <2>3. Earned(first)
    <3> SUFFICES ASSUME Queued(Step(first)), NEW k \in Remaining \ {first}, Passed(k, Step(first))
                 PROVE  FALSE
      BY DEF Earned
    <3>1. Queued(Step(k)) /\ Before(OrderKey(Step(k)), OrderKey(Step(first)))
      BY DEF Passed
    <3>2. ~Before(ReplayKey(first, pl), ReplayKey(k, pl))
      BY <2>2, <3>1, QueuedBefore
    <3> QED BY <2>2, <3>2
  <2> QED BY <2>2, <2>3 DEF Ways
<1> HIDE DEF D, n, x, Turn
<1>4. IsTurn(F, D, n)
  BY <1>2 DEF IsTurn
<1>4a. \A y \in D, i \in 1..n : F[<<y, i>>] = Turn(y)
  OBVIOUS
<1> HIDE DEF F
<1>5. PICK a : AreTurns(a, F, D, n, x)
  BY <1>1, <1>3, <1>4, TurnsExist
<1>6. P(a)
  <2>1. \A i \in 1..n : i - 1 \in 0..n
    BY <1>1
  <2>2. \A i \in 1..n : a[i - 1] \in D
    BY <1>5, <2>1 DEF AreTurns
  <2>3. \A i \in 1..n : a[i] = Turn(a[i - 1])
    BY <1>4a, <1>5, <2>2 DEF AreTurns
  <2>4. \A i \in 0..n : i # 0 => i \in 1..n
    BY <1>1
  <2> QED BY <1>5, <2>3, <2>4 DEF AreTurns
<1>7. P(c)
  BY <1>6
<1> HIDE DEF c
<1>8. c[0] = x /\ \A i \in 1..n : c[i] = Turn(c[i - 1])
  BY <1>1, <1>7
<1>9. c[n] \in D
  <2>1. \A i \in 1..n : c[i - 1] \in D => c[i] \in D
    BY <1>2, <1>8
  <2> QED BY <1>1, <1>3, <1>8, <2>1, TurnsStay
<1>10. FollowPublished(pl) = c[n]
  BY DEF FollowPublished, Loop, c, n, x, Turn
<1> QED BY <1>9, <1>10 DEF D

(* Giffler-Thompson picks one of the candidates. *)
LEMMA FreshKnown ==
  ASSUME Book, Remaining # {}, NEW pl \in Choice, ~Fails(pl)
  PROVE  FreshPick(pl) \in Remaining
<1> DEFINE a == [k \in Remaining |-> pl[k].end]
           b == [k \in Remaining |-> k]
           crit == Least(Remaining, LAMBDA k : <<pl[k].end, k>>)
           contending == {k \in Remaining : /\ pl[k].machine = pl[crit].machine
                                            /\ pl[k].start < pl[crit].end}
<1>1. \A k \in Remaining : pl[k].end \in Nat /\ k \in Nat
  BY OperationKnown DEF Choice, Spot
<1>2. crit \in Remaining
  <2>1. a \in [Remaining -> Nat] /\ b \in [Remaining -> Nat]
    BY <1>1
  <2>2. \E x \in Remaining : \A y \in Remaining \ {x} : Before(<<a[x], b[x]>>, <<a[y], b[y]>>)
    <3>1. \A x, y \in Remaining : a[x] = a[y] /\ b[x] = b[y] => x = y
      OBVIOUS
    <3> HIDE DEF a, b
    <3> QED BY <2>1, <3>1, LeastByTwo
  <2>3. \E x \in Remaining : \A y \in Remaining \ {x} : Before(<<pl[x].end, x>>, <<pl[y].end, y>>)
    BY <2>2
  <2> QED BY <2>3 DEF Least
<1> HIDE DEF crit
<1>3. CASE pl[crit].machine = NoMachine
  BY <1>2, <1>3 DEF FreshPick, crit
<1>4. CASE pl[crit].machine # NoMachine
  <2>1. pl[crit].start < pl[crit].end
    BY <1>2, <1>4 DEF Choice, SpotsFrom, Fails, MayGo, IsPlaced, IsJob
  <2>2. contending # {} /\ contending \in SUBSET Int /\ 0 \in Int /\ \A n \in contending : 0 <= n
    BY <1>1, <1>2, <2>1
  <2>3. FreshPick(pl) = Min(contending)
    BY <1>4 DEF FreshPick, crit
  <2>4. Min(contending) \in contending
    <3> HIDE DEF contending
    <3> QED BY <2>2, LeastAbove
  <2> QED BY <2>3, <2>4
<1> QED BY <1>3, <1>4

(* The operation that goes is one of the candidates, where it may go, unless a
   placement fails. *)
Goes == {w \in [key : Remaining, pl : Choice] : Earned(w.key) \/ Fails(w.pl)}
LEMMA PickFits ==
  ASSUME Board, Book, Pinned, Owing, Remaining # {}, NEW pl \in Choice, ~Fails(pl)
  PROVE  Pick(pl) \in Goes
<1> DEFINE chosen == Picked(pl)
<1>1. chosen \in Goes
  <2>1. CASE \E s \in DOMAIN pins : Queued(s)
    <3>1. FollowPublished(pl) \in Ways
      BY FollowFits
    <3>2. chosen = [key |-> FollowPublished(pl).key, pl |-> FollowPublished(pl).pl]
      BY <2>1 DEF Picked
    <3> HIDE DEF chosen
    <3> QED BY <3>1, <3>2 DEF Ways, Goes
  <2>2. CASE ~\E s \in DOMAIN pins : Queued(s)
    <3>1. FreshPick(pl) \in Remaining
      BY FreshKnown
    <3>2. Earned(FreshPick(pl))
      BY <2>2 DEF Earned, Queued
    <3>3. chosen = [key |-> FreshPick(pl), pl |-> pl]
      BY <2>2 DEF Picked
    <3> HIDE DEF chosen
    <3> QED BY <3>1, <3>2, <3>3 DEF Goes
  <2> QED BY <2>1, <2>2
<1> HIDE DEF chosen
<1>2. /\ chosen.key \in Remaining /\ chosen.pl \in Choice /\ (Earned(chosen.key) \/ Fails(chosen.pl))
      /\ chosen = [key |-> chosen.key, pl |-> chosen.pl]
  BY <1>1 DEF Goes
<1> DEFINE then == Settled({chosen.key}, chosen.pl)
<1>3. then \in Choice /\ (Fails(chosen.pl) => Fails(then))
  BY <1>2, SettledFits, SettledFails
<1>4. Pick(pl) = [key |-> chosen.key, pl |-> then]
  BY <1>2 DEF Pick, Guard, chosen
<1> HIDE DEF then
<1> QED BY <1>2, <1>3, <1>4 DEF Goes

-----------------------------------------------------------------------------
(* The invariant                                                            *)

(* Of a step in force, the board knows who works and where: its stretches are
   booked and lie in time taken on its machine, and a machining job's machine
   is taken from its start to its end. *)
Covers(b, from, to) == b[1] <= from /\ to <= b[2]
IsKnown(s, p) ==
    /\ IsPlaced(p)
    /\ p.machine # NoMachine =>
         /\ \A n \in DOMAIN p.segs :
              /\ <<p.segs[n].start, p.segs[n].end>> \in booked[p.segs[n].who]
              /\ \E b \in Busy(p.machine) : Covers(b, p.segs[n].start, p.segs[n].end)
         /\ Op(s).kind = "machining" =>
              \A t \in Nat : p.start <= t /\ t < p.end => \E b \in Busy(p.machine) : b[1] <= t /\ t < b[2]
Recorded == \A s \in DOMAIN InForce : IsKnown(s, InForce[s])

Logged ==
    /\ log \in Seq(Jobs \X Nat) /\ ToSet(log) = DOMAIN placed
    /\ IsFiniteSet(DOMAIN placed) /\ Len(log) = Cardinality(DOMAIN placed)
    /\ \A s \in DOMAIN placed : s \in orders \X Nat /\ s[2] < idx[s[1]]

(* The orders of the first stage are never those of the second. *)
Staged ==
    /\ phase \in {"plan", "repair", "quote", "failed"}
    /\ phase \in {"plan", "repair"} => orders \cap NewJobs = {}
    /\ \A s \in DOMAIN Kept : s[1] \notin orders

DecoderInv ==
    /\ Book /\ Board /\ Pinned /\ Logged /\ Staged /\ Owing
    /\ Recorded /\ NoDoubleBooking /\ SetupPaidOnce

(* The stretches of a job are typed and follow each other. *)
LEMMA JobsStretches ==
  ASSUME NEW p, IsPlaced(p), p.machine # NoMachine
  PROVE  /\ p.machine \in Machines /\ p.start \in Nat /\ p.end \in Nat /\ p.segs \in Seq(Segment)
         /\ p.start < p.end /\ p.end <= Horizon /\ Chain(p.segs) /\ p.segs # <<>>
         /\ p.start = p.segs[1].start /\ p.end = p.segs[Len(p.segs)].end
         /\ \A n \in DOMAIN p.segs : /\ p.segs[n] \in Segment /\ p.segs[n].start \in Nat /\ p.segs[n].end \in Nat
                                     /\ p.segs[n].who \in People /\ p.segs[n].start < p.segs[n].end
                                     /\ p.start <= p.segs[n].start /\ p.segs[n].end <= p.end
<1>1. p \in Spot /\ p.machine # Unrunnable /\ IsJob(p)
  BY DEF IsPlaced
<1>2. p.machine \in Machines /\ p.start \in Nat /\ p.end \in Nat /\ p.segs \in Seq(Segment)
  BY <1>1 DEF Spot
<1>3. \A g \in Segment : g.start \in Nat /\ g.end \in Nat /\ g.who \in People
  BY DEF Segment
<1>4. \A n \in DOMAIN p.segs : p.segs[n] \in Segment
  BY <1>2
<1> QED BY <1>1, <1>2, <1>3, <1>4 DEF IsJob

(* Two stretches of one job never overlap. *)
LEMMA OwnApart ==
  ASSUME NEW p, IsPlaced(p), NEW g \in ToSet(p.segs), NEW h \in ToSet(p.segs), Overlap(g, h)
  PROVE  g = h /\ p.machine # NoMachine
<1>1. PICK i \in DOMAIN p.segs : g = p.segs[i]
  BY DEF ToSet
<1>2. PICK j \in DOMAIN p.segs : h = p.segs[j]
  BY DEF ToSet
<1>3. p.machine # NoMachine
  BY <1>1 DEF IsPlaced
<1>4. /\ Chain(p.segs) /\ g.start \in Nat /\ g.end \in Nat /\ h.start \in Nat /\ h.end \in Nat
      /\ i \in Nat /\ j \in Nat
  BY <1>1, <1>2, <1>3, JobsStretches
<1>5. ~(i < j) /\ ~(j < i)
  BY <1>1, <1>2, <1>4 DEF Chain, Overlap
<1> QED BY <1>1, <1>2, <1>3, <1>4, <1>5

(* What may go meets nothing of what is in force. *)
LEMMA NewApart ==
  ASSUME Board, NEW k, NEW p, MayGo(k, p), NEW t, NEW q, IsKnown(t, q),
         NEW g \in ToSet(p.segs), NEW h \in ToSet(q.segs), Overlap(g, h)
  PROVE  g.who # h.who /\ p.machine # q.machine
<1>1. PICK i \in DOMAIN p.segs : g = p.segs[i]
  BY DEF ToSet
<1>2. PICK j \in DOMAIN q.segs : h = q.segs[j]
  BY DEF ToSet
<1>3. IsPlaced(p) /\ IsPlaced(q) /\ p.machine # NoMachine /\ q.machine # NoMachine
  BY <1>1, <1>2 DEF MayGo, IsKnown, IsPlaced
<1>4. /\ g.start \in Nat /\ g.end \in Nat /\ g.who \in People /\ p.machine \in Machines
      /\ h.start \in Nat /\ h.end \in Nat /\ h.who \in People /\ q.machine \in Machines
      /\ g.start < g.end /\ h.start < h.end
  BY <1>1, <1>2, <1>3, JobsStretches
<1>5. Clear(g, p.machine)
  BY <1>1, <1>3 DEF MayGo
<1>6. <<h.start, h.end>> \in booked[h.who] /\ \E b \in Busy(q.machine) : Covers(b, h.start, h.end)
  BY <1>2, <1>3 DEF IsKnown
<1>7. g.who # h.who
  <2> SUFFICES ASSUME g.who = h.who PROVE FALSE
    OBVIOUS
  <2>1. Off(<<h.start, h.end>>, g.start, g.end)
    BY <1>5, <1>6 DEF Clear
  <2> QED BY <1>4, <2>1 DEF Off, Overlap
<1>8. p.machine # q.machine
  <2> SUFFICES ASSUME p.machine = q.machine PROVE FALSE
    OBVIOUS
  <2>1. PICK b \in Busy(q.machine) : Covers(b, h.start, h.end)
    BY <1>6
  <2>2. Off(b, g.start, g.end)
    BY <1>5, <2>1 DEF Clear
  <2>3. b[1] \in Nat /\ b[2] \in Nat
    BY <1>4, <2>1 DEF Board, Busy, Blocks
  <2> QED BY <1>4, <2>1, <2>2, <2>3 DEF Off, Overlap, Covers
<1> QED BY <1>7, <1>8

(* A new machining job meets nothing on its machine, and nothing new meets an old one. *)
LEMMA NewAlone ==
  ASSUME Board, NEW k, NEW p, MayGo(k, p), NEW t, NEW q, IsKnown(t, q),
         p.machine # NoMachine, p.machine = q.machine
  PROVE  /\ Op(Step(k)).kind = "machining" => \A h \in ToSet(q.segs) : ~Overlap(h, p)
         /\ Op(t).kind = "machining" => \A g \in ToSet(p.segs) : ~Overlap(g, q)
<1>1. IsPlaced(p) /\ IsPlaced(q) /\ q.machine # NoMachine
  BY DEF MayGo, IsKnown
<1>2. p.machine \in Machines /\ p.start \in Nat /\ p.end \in Nat /\ q.start \in Nat /\ q.end \in Nat
  BY <1>1, JobsStretches
<1>3. \A b \in Busy(p.machine) : b[1] \in Nat /\ b[2] \in Nat
  BY <1>2 DEF Board, Busy, Blocks
<1>4. ASSUME Op(Step(k)).kind = "machining", NEW h \in ToSet(q.segs) PROVE ~Overlap(h, p)
  <2>1. PICK j \in DOMAIN q.segs : h = q.segs[j]
    BY DEF ToSet
  <2>2. h.start \in Nat /\ h.end \in Nat /\ h.start < h.end
    BY <1>1, <2>1, JobsStretches
  <2>3. PICK b \in Busy(q.machine) : Covers(b, h.start, h.end)
    BY <1>1, <2>1 DEF IsKnown
  <2>4. PICK r : IsRun(p.machine, r) /\ r[1] <= p.start /\ p.end <= r[2]
    BY <1>4 DEF MayGo
  <2>5. r[1] \in Nat /\ r[2] \in Int /\ Off(b, r[1], r[2])
    BY <2>3, <2>4 DEF IsRun
  <2> QED BY <1>2, <1>3, <2>2, <2>3, <2>4, <2>5 DEF Off, Covers, Overlap
<1>5. ASSUME Op(t).kind = "machining", NEW g \in ToSet(p.segs) PROVE ~Overlap(g, q)
  <2> SUFFICES ASSUME Overlap(g, q) PROVE FALSE
    OBVIOUS
  <2>1. PICK i \in DOMAIN p.segs : g = p.segs[i]
    BY DEF ToSet
  <2>2. g.start \in Nat /\ g.end \in Nat /\ g.start < g.end
    BY <1>1, <2>1, JobsStretches
  <2> DEFINE x == IF g.start <= q.start THEN q.start ELSE g.start
  <2>3. x \in Nat /\ q.start <= x /\ x < q.end /\ g.start <= x /\ x < g.end
    <3>1. q.start < q.end
      BY <1>1, JobsStretches
    <3> QED BY <1>2, <2>2, <3>1 DEF Overlap
  <2> HIDE DEF x
  <2>4. PICK b \in Busy(q.machine) : b[1] <= x /\ x < b[2]
    BY <1>1, <1>5, <2>3 DEF IsKnown
  <2>5. Off(b, g.start, g.end)
    BY <2>1, <2>4 DEF MayGo, Clear
  <2> QED BY <1>3, <2>2, <2>3, <2>4, <2>5 DEF Off
<1> QED BY <1>4, <1>5

-----------------------------------------------------------------------------
(* The steps                                                                *)

(* The board a placement is committed to keeps what it had. *)
LEMMA CommitBoard ==
  ASSUME Board, NEW k, NEW p, MayGo(k, p), Occupy(p), Staff(p), UNCHANGED <<shop, occupied>>
  PROVE  /\ Board'
         /\ \A m \in Machines : Busy(m) \in SUBSET (Busy(m)')
         /\ \A q \in People : booked[q] \in SUBSET (booked'[q])
         /\ p.machine # NoMachine => <<p.start, p.end>> \in Busy(p.machine)'
         /\ \A n \in DOMAIN p.segs : <<p.segs[n].start, p.segs[n].end>> \in booked'[p.segs[n].who]
<1>1. IsPlaced(p) /\ p.segs \in Seq(Segment)
  BY DEF MayGo, IsPlaced, Spot
<1>2. /\ p.machine # NoMachine => p.machine \in Machines /\ <<p.start, p.end>> \in Blocks
      /\ \A n \in DOMAIN p.segs : /\ p.segs[n].who \in People
                                  /\ <<p.segs[n].start, p.segs[n].end>> \in Blocks
  <2>1. p.machine = NoMachine => DOMAIN p.segs = {}
    BY <1>1 DEF IsPlaced
  <2> QED BY <1>1, <2>1, JobsStretches DEF Blocks
<1>3. /\ spans' \in [Machines -> SUBSET Blocks]
      /\ \A m \in Machines : spans[m] \in SUBSET (spans'[m])
      /\ p.machine # NoMachine => <<p.start, p.end>> \in spans'[p.machine]
  BY <1>2 DEF Occupy, Board
<1>4. /\ booked' \in [People -> SUBSET Blocks]
      /\ \A q \in People : booked[q] \in SUBSET (booked'[q])
      /\ \A n \in DOMAIN p.segs : <<p.segs[n].start, p.segs[n].end>> \in booked'[p.segs[n].who]
  <2> DEFINE of(q) == {g \in ToSet(p.segs) : g.who = q}
  <2>1. booked' = [q \in People |-> booked[q] \cup {<<g.start, g.end>> : g \in of(q)}]
    BY DEF Staff
  <2>2. \A q \in People : \A g \in of(q) : <<g.start, g.end>> \in Blocks
    BY <1>2 DEF ToSet
  <2>3. \A n \in DOMAIN p.segs : p.segs[n] \in of(p.segs[n].who)
    BY DEF ToSet
  <2> HIDE DEF of
  <2>4. booked \in [People -> SUBSET Blocks]
    BY DEF Board
  <2>5. \A q \in People : booked'[q] = booked[q] \cup {<<g.start, g.end>> : g \in of(q)}
    BY <2>1
  <2>6. booked' \in [People -> SUBSET Blocks]
    <3>1. \A q \in People : booked'[q] \in SUBSET Blocks
      BY <2>2, <2>4, <2>5
    <3> QED BY <2>1, <3>1
  <2> QED BY <1>2, <2>3, <2>5, <2>6
<1>5. manned' \in [Machines \X Shifts -> People \cup {Nobody}]
  <2> DEFINE on(shift) == {n \in DOMAIN p.segs : p.segs[n].shift = shift}
  <2>1. manned' = [a \in DOMAIN manned |-> IF a[1] = p.machine /\ on(a[2]) # {}
                                          THEN p.segs[Max(on(a[2]))].who ELSE manned[a]]
    BY DEF Staff
  <2>2. \A shift : on(shift) # {} => p.segs[Max(on(shift))].who \in People
    <3> SUFFICES ASSUME NEW shift, on(shift) # {} PROVE p.segs[Max(on(shift))].who \in People
      OBVIOUS
    <3> DEFINE S == on(shift)
               hi == Len(p.segs)
    <3>1. S \in SUBSET Int /\ S # {} /\ hi \in Int /\ S \in SUBSET DOMAIN p.segs /\ \A n \in S : n <= hi
      BY <1>1
    <3> HIDE DEF S, hi
    <3>2. Max(S) \in S
      BY <3>1, GreatestBelow
    <3> QED BY <1>2, <3>1, <3>2 DEF S
  <2> HIDE DEF on
  <2>3. manned \in [Machines \X Shifts -> People \cup {Nobody}]
    BY DEF Board
  <2> QED BY <2>1, <2>2, <2>3
<1>6. Board'
  BY <1>3, <1>4, <1>5 DEF Board
<1>7. \A m \in Machines : Busy(m)' = spans'[m] \cup occupied[m]
  BY DEF Busy
<1> QED BY <1>2, <1>3, <1>4, <1>6, <1>7 DEF Busy

(* What the board knew of a step it still knows. *)
LEMMA KnownStays ==
  ASSUME NEW s, NEW p, IsKnown(s, p), UNCHANGED route,
         \A m \in Machines : Busy(m) \in SUBSET (Busy(m)'),
         \A q \in People : booked[q] \in SUBSET (booked'[q])
  PROVE  IsKnown(s, p)'
<1>1. IsPlaced(p) /\ IsPlaced(p)'
  BY DEF IsKnown, IsPlaced, IsJob, Chain, Spot, Segment
<1>2. CASE p.machine = NoMachine
  BY <1>1, <1>2 DEF IsKnown
<1>3. CASE p.machine # NoMachine
  <2>1. p.machine \in Machines /\ \A n \in DOMAIN p.segs : p.segs[n].who \in People
    BY <1>1, <1>3, JobsStretches
  <2>2. Op(s)' = Op(s)
    BY DEF Op
  <2> QED BY <1>1, <1>3, <2>1, <2>2 DEF IsKnown
<1> QED BY <1>2, <1>3

(* A placement that is committed is known. *)
LEMMA KnownNew ==
  ASSUME NEW s, NEW k, NEW p, MayGo(k, p),
         p.machine # NoMachine => <<p.start, p.end>> \in Busy(p.machine)',
         \A n \in DOMAIN p.segs : <<p.segs[n].start, p.segs[n].end>> \in booked'[p.segs[n].who]
  PROVE  IsKnown(s, p)'
<1>1. IsPlaced(p) /\ IsPlaced(p)'
  BY DEF MayGo, IsPlaced, IsJob, Chain, Spot, Segment
<1>2. CASE p.machine = NoMachine
  BY <1>1, <1>2 DEF IsKnown
<1>3. CASE p.machine # NoMachine
  <2> DEFINE b == <<p.start, p.end>>
  <2>1. b \in Busy(p.machine)' /\ b[1] = p.start /\ b[2] = p.end
    BY <1>3
  <2> HIDE DEF b
  <2>2. \A n \in DOMAIN p.segs : Covers(b, p.segs[n].start, p.segs[n].end)
    BY <1>1, <1>3, <2>1, JobsStretches DEF Covers
  <2>3. \A n \in DOMAIN p.segs : \E c \in Busy(p.machine)' : Covers(c, p.segs[n].start, p.segs[n].end)
    BY <2>1, <2>2
  <2>4. \A t \in Nat : p.start <= t /\ t < p.end => \E c \in Busy(p.machine)' : c[1] <= t /\ t < c[2]
    BY <2>1
  <2> QED BY <1>1, <2>3, <2>4 DEF IsKnown, Covers
<1> QED BY <1>2, <1>3

(* A placement enters what is in force beside all that was. *)
LEMMA CommitForce ==
  ASSUME DecoderInv, NEW k \in Remaining, NEW p, Commit(k, p), UNCHANGED <<phase, published>>
  PROVE  /\ Step(k) \notin DOMAIN InForce
         /\ DOMAIN InForce' = DOMAIN InForce \cup {Step(k)} /\ InForce'[Step(k)] = p
         /\ \A s \in DOMAIN InForce : InForce'[s] = InForce[s]
<1> DEFINE s == Step(k)
<1>1. s = <<k, idx[k]>> /\ k \in orders /\ idx[k] \in Nat
  BY OperationKnown DEF DecoderInv, Remaining, Book
<1>2. s \notin DOMAIN placed /\ s \notin DOMAIN Kept
  BY <1>1 DEF DecoderInv, Logged, Staged
<1>3. Kept' = Kept
  BY DEF Kept
<1>4. placed' = [x \in DOMAIN placed \cup {s} |-> IF x = s THEN p ELSE placed[x]]
  BY DEF Commit
<1> HIDE DEF s
<1>5. /\ InForce = [x \in DOMAIN placed \cup DOMAIN Kept |-> IF x \in DOMAIN placed THEN placed[x] ELSE Kept[x]]
      /\ InForce' = [x \in DOMAIN placed' \cup DOMAIN Kept |-> IF x \in DOMAIN placed' THEN placed'[x] ELSE Kept[x]]
  BY <1>3 DEF InForce
<1>6. DOMAIN placed' = DOMAIN placed \cup {s}
  BY <1>4
<1>7. s \notin DOMAIN InForce /\ DOMAIN InForce' = DOMAIN InForce \cup {s}
  BY <1>2, <1>5, <1>6
<1>8. InForce'[s] = p
  BY <1>4, <1>5, <1>6
<1>9. \A x \in DOMAIN InForce : InForce'[x] = InForce[x]
  <2> SUFFICES ASSUME NEW x \in DOMAIN InForce PROVE InForce'[x] = InForce[x]
    OBVIOUS
  <2>1. x # s /\ x \in DOMAIN placed \cup DOMAIN Kept
    BY <1>5, <1>7
  <2> QED BY <1>4, <1>5, <1>6, <2>1
<1> QED BY <1>7, <1>8, <1>9 DEF s

(* After a commit the board knows every step in force, and none meets another. *)
LEMMA CommitRecorded ==
  ASSUME DecoderInv, NEW k \in Remaining, NEW p, MayGo(k, p), Commit(k, p),
         UNCHANGED <<phase, route, orders, shop, today, left, sent, pins, occupied, published>>
  PROVE  Board' /\ Recorded' /\ NoDoubleBooking' /\ SetupPaidOnce'
<1>0. PICK z : z = Step(k)
  OBVIOUS
<1>1. /\ Board /\ Recorded /\ NoDoubleBooking /\ SetupPaidOnce
  BY DEF DecoderInv
<1>2. /\ z \notin DOMAIN InForce
      /\ DOMAIN InForce' = DOMAIN InForce \cup {z} /\ InForce'[z] = p
      /\ \A s \in DOMAIN InForce : InForce'[s] = InForce[s]
  BY <1>0, CommitForce
<1>3. /\ Board'
      /\ \A m \in Machines : Busy(m) \in SUBSET (Busy(m)')
      /\ \A q \in People : booked[q] \in SUBSET (booked'[q])
      /\ p.machine # NoMachine => <<p.start, p.end>> \in Busy(p.machine)'
      /\ \A n \in DOMAIN p.segs : <<p.segs[n].start, p.segs[n].end>> \in booked'[p.segs[n].who]
  BY <1>1, CommitBoard DEF Commit
<1>4. \A s : Op(s)' = Op(s)
  BY DEF Op
<1>5. Recorded'
  <2>1. IsKnown(z, InForce[z])'
    <3>1. \A x : x = p => IsKnown(z, x)'
      <4> SUFFICES ASSUME NEW x, x = p PROVE IsKnown(z, x)'
        OBVIOUS
      <4> QED BY <1>3, KnownNew
    <3> QED BY <1>2, <3>1
  <2>2. \A s \in DOMAIN InForce : IsKnown(s, InForce[s])
    BY <1>1 DEF Recorded
  <2>3. ASSUME NEW s \in DOMAIN InForce', s # z PROVE IsKnown(s, InForce[s])'
    <3>1. s \in DOMAIN InForce /\ InForce'[s] = InForce[s]
      BY <1>2, <2>3
    <3> DEFINE q == InForce[s]
    <3>2. IsKnown(s, q)
      BY <2>2, <3>1
    <3> HIDE DEF q
    <3>3. \A x : x = q => IsKnown(s, x)'
      <4> SUFFICES ASSUME NEW x, x = q PROVE IsKnown(s, x)'
        OBVIOUS
      <4>1. IsKnown(s, x)
        BY <3>2
      <4> QED BY <1>3, <4>1, KnownStays
    <3>4. InForce'[s] = q
      BY <3>1 DEF q
    <3> QED BY <3>3, <3>4
  <2> QED BY <1>2, <2>1, <2>3 DEF Recorded
<1>6. ASSUME NEW s \in DOMAIN InForce
      PROVE  IsKnown(s, InForce[s]) /\ IsPlaced(InForce[s])
  BY <1>1 DEF Recorded, IsKnown
<1>7. IsPlaced(p)
  BY DEF MayGo
<1>8. NoDoubleBooking'
  <2> SUFFICES ASSUME NEW s \in DOMAIN InForce', NEW t \in DOMAIN InForce',
                      NEW g \in ToSet(InForce'[s].segs), NEW h \in ToSet(InForce'[t].segs),
                      Overlap(g, h), <<s, g>> # <<t, h>>
               PROVE  g.who # h.who /\ InForce'[s].machine # InForce'[t].machine
    BY DEF NoDoubleBooking, Overlap
  <2>1. CASE s = z /\ t = z
    <3>1. g = h
      BY <1>2, <1>7, <2>1, OwnApart
    <3> QED BY <2>1, <3>1
  <2>2. CASE s = z /\ t # z
    <3>1. t \in DOMAIN InForce /\ InForce'[t] = InForce[t]
      BY <1>2, <2>2
    <3> QED BY <1>1, <1>2, <1>6, <2>2, <3>1, NewApart
  <2>3. CASE s # z /\ t = z
    <3>1. s \in DOMAIN InForce /\ InForce'[s] = InForce[s]
      BY <1>2, <2>3
    <3>2. Overlap(h, g)
      BY DEF Overlap
    <3>3. h.who # g.who /\ p.machine # InForce[s].machine
      BY <1>1, <1>2, <1>6, <2>3, <3>1, <3>2, NewApart
    <3> QED BY <1>2, <2>3, <3>1, <3>3
  <2>4. CASE s # z /\ t # z
    <3>1. /\ s \in DOMAIN InForce /\ InForce'[s] = InForce[s]
          /\ t \in DOMAIN InForce /\ InForce'[t] = InForce[t]
      BY <1>2, <2>4
    <3> QED BY <1>1, <3>1 DEF NoDoubleBooking
  <2> QED BY <2>1, <2>2, <2>3, <2>4
<1>9. SetupPaidOnce'
  <2> SUFFICES ASSUME NEW s \in DOMAIN InForce', NEW t \in DOMAIN InForce',
                      s # t, Op(s).kind = "machining", InForce'[s].machine # NoMachine,
                      InForce'[s].machine = InForce'[t].machine,
                      NEW g \in ToSet(InForce'[t].segs)
               PROVE  ~Overlap(g, InForce'[s])
    BY <1>4 DEF SetupPaidOnce, Overlap
  <2>1. CASE s = z
    <3>1. t \in DOMAIN InForce /\ InForce'[t] = InForce[t]
      BY <1>2, <2>1
    <3> QED BY <1>1, <1>2, <1>6, <2>1, <3>1, NewAlone, <1>0
  <2>2. CASE s # z /\ t = z
    <3>1. s \in DOMAIN InForce /\ InForce'[s] = InForce[s]
      BY <1>2, <2>2
    <3>2. p.machine # NoMachine /\ p.machine = InForce[s].machine /\ g \in ToSet(p.segs)
      BY <1>2, <2>2, <3>1
    <3>3. ~Overlap(g, InForce[s])
      BY <1>1, <1>6, <3>1, <3>2, NewAlone
    <3> QED BY <3>1, <3>3
  <2>3. CASE s # z /\ t # z
    <3>1. /\ s \in DOMAIN InForce /\ InForce'[s] = InForce[s]
          /\ t \in DOMAIN InForce /\ InForce'[t] = InForce[t]
      BY <1>2, <2>3
    <3> QED BY <1>1, <3>1 DEF SetupPaidOnce
  <2> QED BY <2>1, <2>2, <2>3
<1> QED BY <1>3, <1>5, <1>8, <1>9

(* The next operation may begin once this one has, and after it when one of the
   two is not done in the house. *)
LEMMA ReadyOn ==
  ASSUME Book, NEW k \in Remaining, NEW start \in Nat, NEW paced \in Nat, start <= paced
  PROVE  /\ ReadyAfter(k, start, paced) \in Nat /\ start <= ReadyAfter(k, start, paced)
         /\ Op(Step(k)).kind \notin InHouse => ReadyAfter(k, start, paced) = paced
<1> DEFINE op == Op(Step(k))
           rate == 100 - OverlapPct
           release == start + (IF op.kind = "machining" THEN Setup ELSE 0)
                            + (Owed(Step(k)) * op.cycle * rate) \div 100
<1>1. op \in Operation /\ Owed(Step(k)) \in Nat
  BY OperationKnown
<1>2. release \in Nat /\ start <= release
  <2>1. op.cycle \in Nat /\ Setup \in Nat /\ rate \in Nat
    BY <1>1, DecoderAssumption DEF Operation
  <2> DEFINE owed == Owed(Step(k))
  <2>2. owed \in Nat
    BY <1>1
  <2> HIDE DEF owed, rate, op
  <2>3. owed * op.cycle \in Nat
    BY <2>1, <2>2
  <2>4. owed * op.cycle * rate \in Nat
    BY <2>1, <2>3
  <2>5. (owed * op.cycle * rate) \div 100 \in Nat
    <3> DEFINE much == owed * op.cycle * rate
    <3> HIDE DEF much
    <3>1. much \in Nat => much \div 100 \in Nat
      OBVIOUS
    <3> QED BY <2>4, <3>1 DEF much
  <2> DEFINE part == (owed * op.cycle * rate) \div 100
  <2> HIDE DEF part
  <2>6. release = start + (IF op.kind = "machining" THEN Setup ELSE 0) + part
    BY DEF part, owed
  <2>7. part \in Nat
    BY <2>5 DEF part
  <2> HIDE DEF release
  <2> QED BY <2>1, <2>6, <2>7
<1>3. ReadyAfter(k, start, paced) \in {paced, Min({release, paced})}
  BY DEF ReadyAfter
<1>4. Min({release, paced}) = IF release <= paced THEN release ELSE paced
  <2> HIDE DEF release
  <2> QED BY <1>2, OfTwo
<1>5. op.kind \notin InHouse => ReadyAfter(k, start, paced) = paced
  BY DEF ReadyAfter
<1> HIDE DEF release
<1> QED BY <1>2, <1>3, <1>4, <1>5

(* An order goes on to its next step, no earlier than it could. *)
LEMMA CommitBook ==
  ASSUME DecoderInv, NEW k \in Remaining, NEW p, p \in SpotsFrom(k, ready[k]), p.machine # Unrunnable, Commit(k, p),
         UNCHANGED <<route, orders, shop, today, left, sent, pins, occupied, published>>
  PROVE  Book'
<1> DEFINE paced == Max({p.end, prevEnd[k]})
           next == IF idx[k] = Len(route[k]) THEN ready[k] ELSE ReadyAfter(k, p.start, paced)
<1>1. /\ Book /\ k \in Jobs
      /\ idx[k] \in DOMAIN route[k] /\ route[k] \in Seq(Operation)
  BY OperationKnown DEF DecoderInv
<1>2. p \in Spot /\ ready[k] <= p.start /\ p.start <= p.end
  BY DEF SpotsFrom, MayGo, IsPlaced
<1>3. p.start \in Nat /\ p.end \in Nat /\ prevEnd[k] \in Nat /\ ready[k] \in Nat /\ today \in Nat /\ today <= ready[k]
  BY <1>1, <1>2, DecoderAssumption DEF Book, Spot
<1>4. paced \in Nat /\ p.end <= paced
  <2>0. p.end \in Int /\ prevEnd[k] \in Int
    BY <1>3
  <2>1. paced = IF p.end <= prevEnd[k] THEN prevEnd[k] ELSE p.end
    BY <2>0, OfTwo
  <2> QED BY <1>3, <2>1
<1>6. next \in Nat /\ today <= next
  <2>1. ReadyAfter(k, p.start, paced) \in Nat /\ p.start <= ReadyAfter(k, p.start, paced)
    <3> HIDE DEF paced
    <3>1. p.start <= paced
      BY <1>2, <1>3, <1>4
    <3> QED BY <1>1, <1>3, <1>4, <3>1, ReadyOn
  <2> DEFINE later == ReadyAfter(k, p.start, paced)
  <2>2. next \in {ready[k], later} /\ later \in Nat /\ p.start <= later
    BY <2>1
  <2> HIDE DEF next, later
  <2> QED BY <1>2, <1>3, <2>2
<1>7. /\ prevEnd' = [prevEnd EXCEPT ![k] = paced] /\ idx' = [idx EXCEPT ![k] = @ + 1]
      /\ ready' = [ready EXCEPT ![k] = next]
  BY DEF Commit
<1> HIDE DEF paced, next
<1>8. idx[k] + 1 \in 1..(Len(route[k]) + 1) /\ idx[k] + 1 \in Nat
  BY <1>1
<1>9. /\ idx' \in [Jobs -> Nat] /\ ready' \in [Jobs -> Nat] /\ prevEnd' \in [Jobs -> Nat]
      /\ \A i \in Jobs : idx'[i] \in 1..(Len(route[i]) + 1) /\ today <= ready'[i]
  BY <1>1, <1>4, <1>6, <1>7, <1>8 DEF Book
<1> QED BY <1>1, <1>9 DEF Book

(* The log grows by the step that is placed. *)
LEMMA CommitLogged ==
  ASSUME DecoderInv, NEW k \in Remaining, NEW p, Commit(k, p), UNCHANGED orders
  PROVE  Logged'
<1> DEFINE s == Step(k)
<1>1. /\ s = <<k, idx[k]>> /\ k \in orders /\ k \in Jobs /\ idx[k] \in Nat /\ s \in Jobs \X Nat
      /\ s \in orders \X Nat /\ s[1] = k /\ s[2] = idx[k]
  BY OperationKnown DEF DecoderInv, Remaining, Book
<1>2. Logged /\ idx \in [Jobs -> Nat] /\ orders \in SUBSET Jobs
  BY DEF DecoderInv, Book
<1>3. s \notin DOMAIN placed
  BY <1>1, <1>2 DEF Logged
<1>4. DOMAIN placed' = DOMAIN placed \cup {s} /\ log' = Append(log, s) /\ idx' = [idx EXCEPT ![k] = @ + 1]
  BY DEF Commit
<1> HIDE DEF s
<1>5. IsFiniteSet(DOMAIN placed') /\ Cardinality(DOMAIN placed') = Cardinality(DOMAIN placed) + 1
  BY <1>2, <1>3, <1>4, FS_AddElement DEF Logged
<1>6. log' \in Seq(Jobs \X Nat) /\ Len(log') = Len(log) + 1
  BY <1>1, <1>2, <1>4 DEF Logged
<1>7. ToSet(log') = DOMAIN placed'
  <2>1. log \in Seq(Jobs \X Nat) /\ ToSet(log) = DOMAIN placed
    BY <1>2 DEF Logged
  <2>2. /\ DOMAIN log' = DOMAIN log \cup {Len(log) + 1} /\ log'[Len(log) + 1] = s
        /\ \A n \in DOMAIN log : log'[n] = log[n]
    BY <1>1, <1>4, <2>1
  <2>3. ToSet(log') = ToSet(log) \cup {s}
    BY <2>2 DEF ToSet
  <2> QED BY <1>4, <2>1, <2>3
<1>8. ASSUME NEW x \in DOMAIN placed' PROVE x \in orders \X Nat /\ x[2] < idx'[x[1]]
  <2>1. CASE x = s
    <3>1. idx'[k] = idx[k] + 1
      BY <1>1, <1>2, <1>4
    <3> QED BY <1>1, <2>1, <3>1
  <2>2. CASE x \in DOMAIN placed
    <3>1. x \in orders \X Nat /\ x[2] < idx[x[1]] /\ x[1] \in Jobs /\ x[2] \in Nat
      BY <1>2, <2>2 DEF Logged
    <3>2. idx'[x[1]] \in {idx[x[1]], idx[x[1]] + 1} /\ idx[x[1]] \in Nat
      BY <1>2, <1>4, <3>1
    <3> QED BY <3>1, <3>2
  <2> QED BY <1>4, <2>1, <2>2
<1> QED BY <1>2, <1>5, <1>6, <1>7, <1>8 DEF Logged

(* What is owed, and on which machine, does not change while a plan is made. *)
LEMMA RunsStay ==
  ASSUME UNCHANGED <<route, left>>, NEW s
  PROVE  Runs(s)' = Runs(s) /\ Owed(s)' = Owed(s) /\ Op(s)' = Op(s)
<1>1. Op(s)' = Op(s)
  BY DEF Op
<1>2. Owed(s)' = Owed(s)
  BY DEF Owed
<1>3. Duration(s)' = Duration(s)
  BY <1>1, <1>2 DEF Duration
<1> QED BY <1>1, <1>2, <1>3 DEF Runs

(* What is placed runs on a machine if it is owed, a published step on its own. *)
LEMMA CommitOwing ==
  ASSUME DecoderInv, NEW k \in Remaining, NEW p, p \in SpotsFrom(k, ready[k]), p.machine # Unrunnable, Commit(k, p),
         UNCHANGED <<phase, route, left, pins>>
  PROVE  Owing'
<1>1. Owing /\ Step(k) = <<k, idx[k]>> /\ idx[k] \in DOMAIN route[k]
  BY OperationKnown DEF DecoderInv
<1>2. placed' = [x \in DOMAIN placed \cup {Step(k)} |-> IF x = Step(k) THEN p ELSE placed[x]]
  BY DEF Commit
<1>3. p.machine \in Machines \cup {NoMachine} /\ Suits(k, p.machine)
  BY DEF SpotsFrom, Spot
<1>4. \A s : Runs(s)' = Runs(s) /\ Queued(s)' = Queued(s)
  BY RunsStay DEF Queued
<1>5. ASSUME NEW s \in DOMAIN placed'
      PROVE  /\ s[2] \in DOMAIN route[s[1]]
             /\ placed'[s].machine # NoMachine <=> Runs(s)
             /\ s \in DOMAIN pins /\ Runs(s) => placed'[s].machine = pins[s].machine
  <2>1. CASE s = Step(k)
    <3>1. placed'[s] = p /\ s[1] = k /\ s[2] = idx[k]
      BY <1>1, <1>2, <2>1
    <3> QED BY <1>1, <1>3, <2>1, <3>1 DEF Suits
  <2>2. CASE s # Step(k)
    <3>1. s \in DOMAIN placed /\ placed'[s] = placed[s]
      BY <1>2, <2>2
    <3> QED BY <1>1, <3>1 DEF Owing
  <2> QED BY <2>1, <2>2
<1> QED BY <1>1, <1>4, <1>5 DEF Owing

(* A repair owes a step whole or not at all, and its pins are steps that ran on
   a machine. *)
LEMMA RepairOwing ==
  ASSUME DecoderInv, Repair
  PROVE  Owing'
<1>0. PICK now \in Starts, settings \in Shops, done \in [Jobs -> 0..Max({Len(route[k]) : k \in Jobs})] :
         /\ left' = [k \in Jobs |-> [n \in DOMAIN route[k] |-> IF n <= done[k] THEN 0 ELSE Qty]]
         /\ published' = [placed |-> placed, log |-> log]
         /\ Begin({k \in Jobs \ NewJobs : TakenIn(k, settings, left')}, now)
         /\ pins' = PinsOf(published', settings, orders')
  BY DEF Repair
<1>1. phase = "plan" /\ phase' = "repair" /\ route' = route /\ placed' = Nothing
  BY <1>0 DEF Repair, Begin
<1>2. Owing /\ Logged /\ orders \in SUBSET Jobs
  BY DEF DecoderInv, Book
<1>3. DOMAIN placed' = {}
  BY <1>1 DEF Nothing
<1>4. \A s \in DOMAIN pins' : s \in DOMAIN placed /\ placed[s].machine # NoMachine
  <2>1. published'.placed = placed
    BY <1>0
  <2> QED BY <1>0, <2>1 DEF PinsOf
<1>5. ASSUME NEW s \in DOMAIN pins', Queued(s)' PROVE Runs(s)'
  <2>1. s \in DOMAIN placed /\ s[1] \in Jobs /\ s[2] \in DOMAIN route[s[1]] /\ Runs(s)
    BY <1>2, <1>4 DEF Owing, Logged
  <2>2. left[s[1]][s[2]] = Qty
    BY <1>1, <1>2, <2>1 DEF Owing
  <2>3. left'[s[1]][s[2]] \in {0, Qty} /\ left'[s[1]][s[2]] > 0
    BY <1>0, <1>5, <2>1 DEF Queued, Owed
  <2>4. Owed(s)' = Owed(s)
    BY <2>2, <2>3 DEF Owed
  <2>5. Op(s)' = Op(s)
    BY <1>1 DEF Op
  <2>6. Duration(s)' = Duration(s)
    BY <2>4, <2>5 DEF Duration
  <2> QED BY <2>1, <2>5, <2>6 DEF Runs
<1> QED BY <1>1, <1>3, <1>5 DEF Owing

(* A commit keeps the invariant. *)
LEMMA CommitStep ==
  ASSUME DecoderInv, NEW k \in Remaining, NEW p, p \in SpotsFrom(k, ready[k]), p.machine # Unrunnable, Commit(k, p),
         UNCHANGED <<phase, route, orders, shop, today, left, sent, pins, occupied, published>>
  PROVE  DecoderInv'
<1>1. MayGo(k, p)
  BY DEF SpotsFrom
<1>2. Board' /\ Recorded' /\ NoDoubleBooking' /\ SetupPaidOnce'
  BY <1>1, CommitRecorded
<1>3. Book' /\ Logged'
  BY CommitBook, CommitLogged
<1>4. Pinned'
  BY DEF DecoderInv, Pinned, IsPin, Segment
<1>5. Staged'
  BY DEF DecoderInv, Staged, Kept
<1>6. Owing'
  BY CommitOwing
<1> QED BY <1>2, <1>3, <1>4, <1>5, <1>6 DEF DecoderInv

(* A decode that raises leaves the plan it had, and the stage before it goes. *)
LEMMA RaiseStep ==
  ASSUME DecoderInv, Raise,
         UNCHANGED <<route, orders, shop, today, left, sent, pins, occupied, published>>
  PROVE  DecoderInv'
<1>1. /\ phase' = "failed"
      /\ UNCHANGED <<idx, ready, prevEnd, spans, booked, manned, placed, log>>
  BY DEF Raise, board
<1>2. Book' /\ Board' /\ Pinned' /\ Logged'
  <2>1. Book' /\ Board'
    BY <1>1 DEF DecoderInv, Book, Board, Blocks
  <2>2. Pinned'
    BY DEF DecoderInv, Pinned, IsPin, Segment
  <2>3. Logged'
    BY <1>1 DEF DecoderInv, Logged
  <2> QED BY <2>1, <2>2, <2>3
<1>3. Kept' = Nothing /\ DOMAIN Nothing = {}
  BY <1>1 DEF Kept, Nothing
<1>4. Staged'
  BY <1>1, <1>3 DEF Staged
<1>5. /\ DOMAIN InForce' = DOMAIN placed /\ \A s \in DOMAIN placed : InForce'[s] = placed[s]
      /\ DOMAIN placed \in SUBSET DOMAIN InForce /\ \A s \in DOMAIN placed : InForce[s] = placed[s]
  BY <1>1, <1>3 DEF InForce
<1>6. \A s : Op(s)' = Op(s)
  BY DEF Op
<1>7. NoDoubleBooking' /\ SetupPaidOnce'
  <2>1. NoDoubleBooking'
    BY <1>5 DEF DecoderInv, NoDoubleBooking, Overlap
  <2>2. SetupPaidOnce'
    BY <1>5, <1>6 DEF DecoderInv, SetupPaidOnce, Overlap
  <2> QED BY <2>1, <2>2
<1>8. Recorded'
  <2> SUFFICES ASSUME NEW s \in DOMAIN InForce' PROVE IsKnown(s, InForce[s])'
    BY DEF Recorded
  <2>1. PICK q : q = InForce'[s]
    OBVIOUS
  <2>2. IsKnown(s, q)
    BY <1>5, <2>1 DEF DecoderInv, Recorded
  <2>3. \A m \in Machines : Busy(m) \in SUBSET (Busy(m)')
    BY <1>1 DEF Busy
  <2>4. IsKnown(s, q)'
    BY <1>1, <2>2, <2>3, KnownStays
  <2> QED BY <2>1, <2>4
<1>9. Owing'
  <2>1. \A s : Runs(s)' = Runs(s) /\ Queued(s)' = Queued(s)
    BY RunsStay DEF Queued
  <2> QED BY <1>1, <2>1 DEF DecoderInv, Owing
<1> QED BY <1>2, <1>4, <1>7, <1>8, <1>9 DEF DecoderInv

(* A turn of decode's loop raises, or commits an operation where it may go. *)
LEMMA TurnPlaces ==
  ASSUME DecoderInv, PlaceNext
  PROVE  \/ Raise
         \/ \E k \in Remaining : \E p \in SpotsFrom(k, ready[k]) :
              p.machine # Unrunnable /\ Earned(k) /\ Commit(k, p) /\ UNCHANGED phase
<1>1. PICK pl \in {Placements} :
         \E pick \in {IF Fails(pl) THEN [pl |-> pl] ELSE Pick(pl)} :
            IF Fails(pick.pl) THEN Raise
            ELSE Commit(pick.key, pick.pl[pick.key]) /\ UNCHANGED phase
  BY DEF PlaceNext
<1>2. PICK pick \in {IF Fails(pl) THEN [pl |-> pl] ELSE Pick(pl)} :
            IF Fails(pick.pl) THEN Raise
            ELSE Commit(pick.key, pick.pl[pick.key]) /\ UNCHANGED phase
  BY <1>1
<1>3. Remaining # {} /\ Board /\ Book /\ Pinned /\ Owing
  BY DEF PlaceNext, DecoderInv
<1>4. CASE Fails(pick.pl)
  BY <1>2, <1>4
<1>5. CASE ~Fails(pick.pl)
  <2>1. ~Fails(pl) /\ pick = Pick(pl)
    BY <1>2, <1>5
  <2>2. pick \in [key : Remaining, pl : Choice] /\ Earned(pick.key)
    <3>1. pick \in Goes
      BY <1>3, <2>1, PlacementsFit, PickFits
    <3> QED BY <1>5, <3>1 DEF Goes
  <2>3. PICK k \in Remaining : k = pick.key
    BY <2>2
  <2>4. PICK p : p = pick.pl[k]
    OBVIOUS
  <2>5. p \in SpotsFrom(k, ready[k]) /\ p.machine # Unrunnable
    BY <1>5, <2>2, <2>3, <2>4 DEF Choice, Fails
  <2>6. Commit(k, p) /\ UNCHANGED phase
    BY <1>2, <1>5, <2>3, <2>4
  <2>7. Earned(k)
    BY <2>2, <2>3
  <2> QED BY <2>5, <2>6, <2>7
<1> QED BY <1>4, <1>5

(* A turn of decode's loop keeps the invariant. *)
LEMMA PlaceStep ==
  ASSUME DecoderInv, PlaceNext
  PROVE  DecoderInv'
<1>1. UNCHANGED <<route, orders, shop, today, left, sent, pins, occupied, published>>
  BY DEF PlaceNext
<1>2. CASE Raise
  BY <1>1, <1>2, RaiseStep
<1>3. CASE \E k \in Remaining : \E p \in SpotsFrom(k, ready[k]) :
             p.machine # Unrunnable /\ Commit(k, p) /\ UNCHANGED phase
  BY <1>1, <1>3, CommitStep
<1> QED BY <1>2, <1>3, TurnPlaces

(* The pins of a published plan are those of jobs whose stretches are typed. *)
LEMMA PinsTyped ==
  ASSUME NEW plan, NEW settings, NEW who,
         plan.log \in Seq(Jobs \X Nat), ToSet(plan.log) = DOMAIN plan.placed,
         \A s \in DOMAIN plan.placed : IsPlaced(plan.placed[s]),
         NEW s \in DOMAIN PinsOf(plan, settings, who)
  PROVE  LET pin == PinsOf(plan, settings, who)[s]
         IN IsPin(pin) /\ pin.rank \in Nat /\ pin.start \in Nat
<1> DEFINE p == plan.placed[s]
           rank == CHOOSE n \in DOMAIN plan.log : plan.log[n] = s
           pin == [machine |-> p.machine, start |-> p.start, who |-> Head(p.segs).who,
                   staff |-> ToSet(p.segs), rank |-> rank]
<1>1. s \in DOMAIN plan.placed /\ p.machine # NoMachine /\ PinsOf(plan, settings, who)[s] = pin
  BY DEF PinsOf
<1>2. IsPlaced(p)
  BY <1>1
<1> HIDE DEF p
<1>3. /\ p.start \in Nat /\ p.segs \in Seq(Segment) /\ Chain(p.segs) /\ p.segs # <<>>
      /\ \A n \in DOMAIN p.segs : /\ p.segs[n] \in Segment /\ p.segs[n].start \in Nat /\ p.segs[n].end \in Nat
                                  /\ p.segs[n].who \in People /\ p.segs[n].start < p.segs[n].end
  BY <1>1, <1>2, JobsStretches
<1>4. Head(p.segs).who \in People
  <2>1. 1 \in DOMAIN p.segs /\ Head(p.segs) = p.segs[1]
    BY <1>3
  <2> QED BY <1>3, <2>1
<1>5. ToSet(p.segs) \in SUBSET Segment
  BY <1>3 DEF ToSet
<1>6. ASSUME NEW g \in ToSet(p.segs), NEW h \in ToSet(p.segs), g.start = h.start PROVE g = h
  <2>1. PICK i \in DOMAIN p.segs : g = p.segs[i]
    BY DEF ToSet
  <2>2. PICK j \in DOMAIN p.segs : h = p.segs[j]
    BY DEF ToSet
  <2>3. i \in Nat /\ j \in Nat
    BY <1>3
  <2>4. ~(i < j) /\ ~(j < i)
    <3>1. /\ g.start \in Nat /\ g.end \in Nat /\ g.start < g.end
          /\ h.start \in Nat /\ h.end \in Nat /\ h.start < h.end
      BY <1>3, <2>1, <2>2
    <3>2. (i < j => g.end <= h.start) /\ (j < i => h.end <= g.start)
      BY <1>3, <2>1, <2>2 DEF Chain
    <3> QED BY <1>6, <3>1, <3>2
  <2> QED BY <2>1, <2>2, <2>3, <2>4
<1>7. rank \in Nat
  <2>1. \E n \in DOMAIN plan.log : plan.log[n] = s
    BY <1>1 DEF ToSet
  <2>2. DOMAIN plan.log \in SUBSET Nat
    OBVIOUS
  <2> QED BY <2>1, <2>2
<1> HIDE DEF rank
<1>8. IsPin(pin) /\ pin.rank \in Nat /\ pin.start \in Nat
  BY <1>3, <1>4, <1>5, <1>6, <1>7 DEF IsPin
<1> QED BY <1>1, <1>8

(* A repair begins on an empty board. *)
LEMMA RepairStep ==
  ASSUME DecoderInv, Repair
  PROVE  DecoderInv'
<1>1. PICK now \in Starts, settings \in Shops, done \in [Jobs -> 0..Max({Len(route[k]) : k \in Jobs})] :
         /\ shop' = settings /\ today' = now
         /\ left' = [k \in Jobs |-> [n \in DOMAIN route[k] |-> IF n <= done[k] THEN 0 ELSE Qty]]
         /\ sent' \in [Jobs -> {NotSent, 0, now}]
         /\ published' = [placed |-> placed, log |-> log]
         /\ Begin({k \in Jobs \ NewJobs : TakenIn(k, settings, left')}, now)
         /\ pins' = PinsOf(published', settings, orders')
         /\ booked' = Idle /\ manned' = Nobodies
  BY DEF Repair
<1>2. phase = "plan" /\ phase' = "repair" /\ UNCHANGED <<route, occupied>>
  BY DEF Repair
<1>3. Book /\ Board /\ Logged /\ Recorded
  BY DEF DecoderInv
<1>4. /\ orders' \in SUBSET (Jobs \ NewJobs)
      /\ idx' = [k \in Jobs |-> 1] /\ ready' = [k \in Jobs |-> now] /\ prevEnd' = [k \in Jobs |-> now]
      /\ spans' = [m \in Machines |-> {}] /\ placed' = Nothing /\ log' = <<>>
  BY <1>1 DEF Begin
<1>5. now \in Nat /\ now <= now
  BY DecoderAssumption
<1>6. Book'
  <2>1. sent' \in [Jobs -> Nat \cup {NotSent}]
    BY <1>1, <1>5
  <2>2. \A k \in Jobs : Len(route[k]) \in Nat
    BY <1>3, DecoderAssumption DEF Book
  <2>3. \A k \in Jobs : idx'[k] \in 1..(Len(route[k]) + 1) /\ now <= ready'[k]
    BY <1>4, <1>5, <2>2
  <2>4. \A k \in Jobs : \A n \in DOMAIN route[k] : left'[k][n] \in Nat
    <3>1. Qty \in Nat
      BY DecoderAssumption
    <3> QED BY <1>1, <3>1
  <2>5. idx' \in [Jobs -> Nat] /\ ready' \in [Jobs -> Nat] /\ prevEnd' \in [Jobs -> Nat]
    BY <1>4, <1>5
  <2> QED BY <1>1, <1>2, <1>3, <1>4, <2>1, <2>3, <2>4, <2>5 DEF Book
<1>7. Board'
  BY <1>1, <1>2, <1>3, <1>4 DEF Board, Idle, Nobodies
<1>8. DOMAIN placed' = {} /\ Kept' = Nothing /\ DOMAIN Kept' = {} /\ DOMAIN InForce' = {}
  BY <1>2, <1>4 DEF Kept, Nothing, InForce
<1>9. Recorded' /\ NoDoubleBooking' /\ SetupPaidOnce'
  BY <1>8 DEF Recorded, NoDoubleBooking, SetupPaidOnce
<1>10. Logged'
  <2>1. <<>> \in Seq(Jobs \X Nat) /\ Len(<<>>) = 0 /\ ToSet(<<>>) = {}
    BY DEF ToSet
  <2> QED BY <1>4, <1>8, <2>1, FS_EmptySet DEF Logged
<1>11. Staged'
  BY <1>2, <1>4, <1>8 DEF Staged
<1>12. Pinned'
  <2>1. \A s \in DOMAIN placed : IsPlaced(placed[s])
    <3>1. DOMAIN placed \in SUBSET DOMAIN InForce /\ \A s \in DOMAIN placed : InForce[s] = placed[s]
      BY DEF InForce
    <3> QED BY <1>3, <3>1 DEF Recorded, IsKnown
  <2>2. PICK plan : plan = [placed |-> placed, log |-> log]
    OBVIOUS
  <2>3. plan.placed = placed /\ plan.log = log
    BY <2>2
  <2>4. /\ plan.log \in Seq(Jobs \X Nat) /\ ToSet(plan.log) = DOMAIN plan.placed
        /\ \A s \in DOMAIN plan.placed : IsPlaced(plan.placed[s])
    BY <1>3, <2>1, <2>3 DEF Logged
  <2>5. PICK who : who = orders'
    OBVIOUS
  <2>6. pins' = PinsOf(plan, settings, who)
    BY <1>1, <2>2, <2>5
  <2>7. \A s \in DOMAIN PinsOf(plan, settings, who) :
           LET pin == PinsOf(plan, settings, who)[s]
           IN IsPin(pin) /\ pin.rank \in Nat /\ pin.start \in Nat
    BY <2>4, PinsTyped
  <2>8. \A s \in DOMAIN pins' : IsPin(pins'[s]) /\ pins'[s].rank \in Nat /\ pins'[s].start \in Nat
    BY <2>6, <2>7
  <2> QED BY <2>8 DEF Pinned, IsPin, Segment
<1> QED BY <1>6, <1>7, <1>9, <1>10, <1>11, <1>12, RepairOwing DEF DecoderInv

(* The time a finished plan takes on a machine, part by part. *)
JobsOn(m) == {s \in DOMAIN placed : placed[s].machine = m}
StretchesOf(s) == {<<g.start, g.end>> : g \in ToSet(placed[s].segs)}
PausesOf(s) ==
    {<<placed[s].segs[n].end, placed[s].segs[n + 1].start>> :
        n \in {i \in 1..(Len(placed[s].segs) - 1) : placed[s].segs[i].end < placed[s].segs[i + 1].start}}
RanIn(o, gap) == \E g \in StretchesOf(o) : g[1] < gap[2] /\ g[2] > gap[1]

Stretched(m) == UNION {StretchesOf(s) : s \in JobsOn(m)}
Paused(m) == UNION {PausesOf(s) : s \in JobsOn(m)}
Unused(m) == {gap \in Paused(m) : ~\E o \in JobsOn(m) : RanIn(o, gap)}

(* Those are the parts of the time taken: stretches, and pauses nobody ran in. *)
LEMMA TimeIs ==
  ASSUME NEW m
  PROVE  TimeOn(m) = Stretched(m) \cup Unused(m)
<1> DEFINE stretches == UNION {StretchesOf(s) : s \in JobsOn(m)}
           idle == {gap \in UNION {PausesOf(s) : s \in JobsOn(m)} : ~\E o \in JobsOn(m) : RanIn(o, gap)}
<1>1. TimeOn(m) = stretches \cup idle
  BY DEF TimeOn, JobsOn, StretchesOf, PausesOf, RanIn
<1>2. stretches = Stretched(m)
  BY DEF Stretched
<1>3. idle = Unused(m)
  BY DEF Unused, Paused
<1> HIDE DEF stretches, idle
<1> QED BY <1>1, <1>2, <1>3

(* In a pause of a machining job its machine runs nothing. *)
LEMMA PauseFree ==
  ASSUME DecoderInv, NEW s \in DOMAIN placed, placed[s].machine # NoMachine, Op(s).kind = "machining",
         NEW n \in 1..(Len(placed[s].segs) - 1),
         NEW o \in JobsOn(placed[s].machine)
  PROVE  ~RanIn(o, <<placed[s].segs[n].end, placed[s].segs[n + 1].start>>)
<1> DEFINE p == placed[s]
           q == placed[o]
<1>1. /\ DOMAIN placed \in SUBSET DOMAIN InForce /\ \A x \in DOMAIN placed : InForce[x] = placed[x]
      /\ o \in DOMAIN placed /\ q.machine = p.machine
  BY DEF InForce, JobsOn
<1>2. IsPlaced(p) /\ IsPlaced(q)
  BY <1>1 DEF DecoderInv, Recorded, IsKnown
<1>3. s # o => \A g \in ToSet(q.segs) : ~Overlap(g, p)
  BY <1>1 DEF DecoderInv, SetupPaidOnce
<1> HIDE DEF p, q
<1>4. /\ p.segs \in Seq(Segment) /\ Chain(p.segs) /\ p.start \in Nat /\ p.end \in Nat
      /\ \A i \in DOMAIN p.segs : /\ p.segs[i].start \in Nat /\ p.segs[i].end \in Nat
                                  /\ p.segs[i].start < p.segs[i].end
                                  /\ p.start <= p.segs[i].start /\ p.segs[i].end <= p.end
  BY <1>2, JobsStretches DEF p
<1>5. \A i \in DOMAIN q.segs : /\ q.segs[i].start \in Nat /\ q.segs[i].end \in Nat
                               /\ q.segs[i].start < q.segs[i].end
  BY <1>1, <1>2, JobsStretches DEF p
<1>6. n \in DOMAIN p.segs /\ n + 1 \in DOMAIN p.segs /\ n \in Nat
  BY <1>4 DEF p
<1> DEFINE from == p.segs[n].end
           to == p.segs[n + 1].start
<1>7. from \in Nat /\ to \in Nat /\ p.start <= from /\ to <= p.end
  <2> DEFINE before == p.segs[n].start
             after == p.segs[n + 1].end
  <2>1. before \in Nat /\ from \in Nat /\ p.start <= before /\ before < from
    BY <1>4, <1>6
  <2>2. to \in Nat /\ after \in Nat /\ after <= p.end /\ to < after
    BY <1>4, <1>6
  <2>3. p.start \in Nat /\ p.end \in Nat
    BY <1>4
  <2> HIDE DEF from, to, before, after
  <2>4. p.start <= from
    BY <2>1, <2>3
  <2>5. to <= p.end
    BY <2>2, <2>3
  <2> QED BY <2>1, <2>2, <2>4, <2>5
<1>8. SUFFICES ASSUME NEW g \in ToSet(q.segs), g.start < to, g.end > from PROVE FALSE
  BY DEF RanIn, StretchesOf, p, q
<1>9. PICK j \in DOMAIN q.segs : g = q.segs[j]
  BY DEF ToSet
<1>10. g.start \in Nat /\ g.end \in Nat /\ g.start < g.end
  BY <1>5, <1>9
<1>11. CASE s # o
  <2>1. ~Overlap(g, p)
    BY <1>3, <1>11
  <2>2. p.start \in Nat /\ p.end \in Nat
    BY <1>4
  <2> HIDE DEF from, to
  <2> QED BY <1>7, <1>8, <1>10, <2>1, <2>2 DEF Overlap
<1>12. CASE s = o
  <2>1. j \in DOMAIN p.segs /\ g = p.segs[j] /\ j \in Nat
    BY <1>4, <1>9, <1>12 DEF p, q
  <2>2. j < n => g.end <= p.segs[n].start
    BY <1>4, <1>6, <2>1 DEF Chain
  <2>3. n + 1 < j => p.segs[n + 1].end <= g.start
    BY <1>4, <1>6, <2>1 DEF Chain
  <2>4. /\ p.segs[n].start \in Nat /\ p.segs[n].start < from
        /\ p.segs[n + 1].end \in Nat /\ to < p.segs[n + 1].end
    BY <1>4, <1>6
  <2>5. j = n => g.end = from
    BY <2>1
  <2>6. j = n + 1 => g.start = to
    BY <2>1
  <2>7. j < n \/ j = n \/ j = n + 1 \/ n + 1 < j
    BY <1>6, <2>1
  <2> HIDE DEF from, to
  <2> QED BY <1>7, <1>8, <1>10, <2>2, <2>3, <2>4, <2>5, <2>6, <2>7
<1> QED BY <1>11, <1>12

(* The time a finished plan takes on a machine covers every stretch of its
   jobs, and a machining job from its start to its end. *)
LEMMA TimeCovers ==
  ASSUME DecoderInv, NEW s \in DOMAIN placed, placed[s].machine # NoMachine
  PROVE  /\ \A n \in DOMAIN placed[s].segs : <<placed[s].segs[n].start, placed[s].segs[n].end>> \in TimeOn(placed[s].machine)
         /\ Op(s).kind = "machining" =>
              \A t \in Nat : placed[s].start <= t /\ t < placed[s].end =>
                 \E b \in TimeOn(placed[s].machine) : b[1] <= t /\ t < b[2]
<1> DEFINE p == placed[s]
           m == placed[s].machine
<1>1. IsPlaced(p)
  <2>1. s \in DOMAIN InForce /\ InForce[s] = p
    BY DEF InForce
  <2> QED BY <2>1 DEF DecoderInv, Recorded, IsKnown
<1>2. s \in JobsOn(m)
  BY DEF JobsOn
<1>3. /\ StretchesOf(s) \in SUBSET TimeOn(m)
      /\ \A gap \in PausesOf(s) : (\A o \in JobsOn(m) : ~RanIn(o, gap)) => gap \in TimeOn(m)
  <2> HIDE DEF m
  <2>1. TimeOn(m) = Stretched(m) \cup Unused(m)
    BY TimeIs
  <2>2. StretchesOf(s) \in SUBSET Stretched(m)
    BY <1>2 DEF Stretched
  <2>3. PausesOf(s) \in SUBSET Paused(m)
    BY <1>2 DEF Paused
  <2> QED BY <2>1, <2>2, <2>3 DEF Unused
<1>4. \A n \in DOMAIN p.segs : <<p.segs[n].start, p.segs[n].end>> \in TimeOn(m)
  <2>1. \A n \in DOMAIN p.segs : <<p.segs[n].start, p.segs[n].end>> \in StretchesOf(s)
    BY DEF StretchesOf, ToSet
  <2> QED BY <1>3, <2>1
<1>5. ASSUME Op(s).kind = "machining", NEW t \in Nat, p.start <= t, t < p.end
      PROVE  \E b \in TimeOn(m) : b[1] <= t /\ t < b[2]
  <2> DEFINE S == {i \in DOMAIN p.segs : p.segs[i].start <= t}
             z == Len(p.segs)
             n == Max(S)
  <2>1. /\ p.segs \in Seq(Segment) /\ p.segs # <<>> /\ z \in Nat /\ DOMAIN p.segs = 1..z
        /\ p.start = p.segs[1].start /\ p.end = p.segs[z].end
        /\ \A i \in DOMAIN p.segs : p.segs[i].start \in Nat /\ p.segs[i].end \in Nat
    BY <1>1, JobsStretches
  <2>2. 1 \in DOMAIN p.segs
    BY <2>1
  <2>3. S \in SUBSET Int /\ S # {} /\ z \in Int /\ \A i \in S : i <= z
    BY <1>5, <2>1, <2>2
  <2>4. n \in S /\ \A i \in S : i <= n
    <3> HIDE DEF S, z
    <3> QED BY <2>3, GreatestBelow
  <2> HIDE DEF n
  <2>5. n \in DOMAIN p.segs /\ n \in 1..z /\ p.segs[n].start <= t
    BY <2>1, <2>4
  <2>6. CASE t < p.segs[n].end
    <3> DEFINE b == <<p.segs[n].start, p.segs[n].end>>
    <3>1. b \in TimeOn(m) /\ b[1] = p.segs[n].start /\ b[2] = p.segs[n].end
      BY <1>4, <2>5
    <3> QED BY <2>5, <2>6, <3>1
  <2>7. CASE p.segs[n].end <= t
    <3>1. n # z
      BY <1>5, <2>1, <2>5, <2>7
    <3>2. n \in 1..(z - 1) /\ n + 1 \in DOMAIN p.segs /\ ~(n + 1 <= n)
      BY <2>1, <2>5, <3>1
    <3>3. t < p.segs[n + 1].start
      <4>1. n + 1 \notin S
        BY <2>4, <3>2
      <4>2. ~(p.segs[n + 1].start <= t)
        BY <3>2, <4>1
      <4> QED BY <2>1, <3>2, <4>2
    <3> DEFINE gap == <<p.segs[n].end, p.segs[n + 1].start>>
    <3>4. p.segs[n].end < p.segs[n + 1].start
      <4>1. p.segs[n].end \in Nat /\ p.segs[n + 1].start \in Nat
        BY <2>1, <2>5, <3>2
      <4> QED BY <2>7, <3>3, <4>1
    <3>5. gap \in PausesOf(s)
      BY <3>2, <3>4 DEF PausesOf
    <3>6. \A o \in JobsOn(m) : ~RanIn(o, gap)
      BY <1>5, <3>2, PauseFree
    <3>7. gap \in TimeOn(m)
      BY <1>3, <3>5, <3>6
    <3> QED BY <2>7, <3>3, <3>7
  <2>8. t < p.segs[n].end \/ p.segs[n].end <= t
    BY <2>1, <2>5
  <2> QED BY <2>6, <2>7, <2>8
<1> QED BY <1>4, <1>5

(* It is made of blocks. *)
LEMMA TimeBlocks ==
  ASSUME DecoderInv, NEW m \in Machines
  PROVE  TimeOn(m) \in SUBSET Blocks
<1>1. \A s \in JobsOn(m) : StretchesOf(s) \in SUBSET Blocks /\ PausesOf(s) \in SUBSET Blocks
  <2> SUFFICES ASSUME NEW s \in JobsOn(m)
               PROVE  StretchesOf(s) \in SUBSET Blocks /\ PausesOf(s) \in SUBSET Blocks
    OBVIOUS
  <2> DEFINE p == placed[s]
  <2>1. s \in DOMAIN placed /\ p.machine = m
    BY DEF JobsOn
  <2>2. InForce[s] = p /\ s \in DOMAIN InForce
    BY <2>1 DEF InForce
  <2>3. IsPlaced(p) /\ p.machine # NoMachine
    BY <2>1, <2>2, DecoderAssumption DEF DecoderInv, Recorded, IsKnown
  <2> HIDE DEF p
  <2>4. \A n \in DOMAIN p.segs : p.segs[n].start \in Nat /\ p.segs[n].end \in Nat /\ p.segs[n].start < p.segs[n].end
    BY <2>3, JobsStretches
  <2>5. \A g \in ToSet(p.segs) : <<g.start, g.end>> \in Blocks
    BY <2>4 DEF ToSet, Blocks
  <2>6. \A n \in 1..(Len(p.segs) - 1) : n \in DOMAIN p.segs /\ n + 1 \in DOMAIN p.segs
    <3>1. p.segs \in Seq(Segment)
      BY <2>3, JobsStretches
    <3> QED BY <3>1
  <2>7. \A n \in 1..(Len(p.segs) - 1) :
           p.segs[n].end < p.segs[n + 1].start => <<p.segs[n].end, p.segs[n + 1].start>> \in Blocks
    BY <2>4, <2>6 DEF Blocks
  <2>8. StretchesOf(s) = {<<g.start, g.end>> : g \in ToSet(p.segs)}
    BY DEF StretchesOf, p
  <2>9. PausesOf(s) = {<<p.segs[n].end, p.segs[n + 1].start>> :
                         n \in {i \in 1..(Len(p.segs) - 1) : p.segs[i].end < p.segs[i + 1].start}}
    BY DEF PausesOf, p
  <2> QED BY <2>5, <2>7, <2>8, <2>9
<1>2. Stretched(m) \in SUBSET Blocks /\ Unused(m) \in SUBSET Blocks
  BY <1>1 DEF Stretched, Unused, Paused
<1> QED BY <1>2, TimeIs

(* Somebody was the last on each machine in each shift, or nobody was there. *)
WasOn(a, q) ==
    \E s \in DOMAIN placed :
      placed[s].machine = a[1] /\ \E g \in ToSet(placed[s].segs) : ShiftKeyFor(g.start) = a[2] /\ g.who = q

LEMMA LastKnown ==
  ASSUME DecoderInv
  PROVE  /\ LastManned \in [Machines \X Shifts -> People \cup {Nobody}]
         /\ \A a \in Machines \X Shifts : LastManned[a] = Nobody \/ WasOn(a, LastManned[a])
<1> DEFINE on(m) == UNION {ToSet(placed[s].segs) : s \in {t \in DOMAIN placed : placed[t].machine = m}}
           in(a) == {g \in on(a[1]) : ShiftKeyFor(g.start) = a[2]}
           last(S) == CHOOSE g \in S : \A h \in S : h.start <= g.start
<1>1. LastManned = [a \in DOMAIN manned |-> IF in(a) = {} THEN Nobody ELSE last(in(a)).who]
  BY DEF LastManned
<1>2. DOMAIN manned = Machines \X Shifts
  BY DEF DecoderInv, Board
<1>3. ASSUME NEW a \in Machines \X Shifts, in(a) # {}
      PROVE  last(in(a)).who \in People /\ WasOn(a, last(in(a)).who)
  <2>1. a[1] \in Machines
    OBVIOUS
  <2>2. ASSUME NEW g \in on(a[1]) PROVE g.who \in People /\ g.start \in Nat /\ g.start <= Horizon
    <3>1. PICK s \in DOMAIN placed : placed[s].machine = a[1] /\ g \in ToSet(placed[s].segs)
      OBVIOUS
    <3> DEFINE p == placed[s]
    <3>2. InForce[s] = p /\ s \in DOMAIN InForce
      BY <3>1 DEF InForce
    <3>3. IsPlaced(p) /\ p.machine # NoMachine
      BY <2>1, <3>1, <3>2, DecoderAssumption DEF DecoderInv, Recorded, IsKnown
    <3>4. PICK n \in DOMAIN p.segs : g = p.segs[n]
      BY <3>1 DEF ToSet
    <3> HIDE DEF p
    <3>5. /\ g.start \in Nat /\ g.end \in Nat /\ g.who \in People /\ g.start < g.end /\ g.end <= p.end
          /\ p.end \in Nat /\ p.end <= Horizon
      BY <3>3, <3>4, JobsStretches
    <3>6. Horizon \in Nat
      BY DecoderAssumption
    <3> QED BY <3>5, <3>6
  <2> DEFINE S == in(a)
             N == {g.start : g \in S}
  <2>3. S # {} /\ \A g \in S : g.who \in People /\ g.start \in Nat /\ g.start <= Horizon
    BY <1>3, <2>2
  <2> HIDE DEF S
  <2>4. N \in SUBSET Int /\ N # {} /\ Horizon \in Int /\ \A n \in N : n <= Horizon
    BY <2>3, DecoderAssumption
  <2>5. Max(N) \in N /\ \A n \in N : n <= Max(N)
    <3> HIDE DEF N
    <3> QED BY <2>4, GreatestBelow
  <2>6. PICK g \in S : g.start = Max(N)
    BY <2>5
  <2>7. \A h \in S : h.start <= g.start
    BY <2>5, <2>6
  <2>8. last(S) \in S
    BY <2>7
  <2>9. \A h \in S : WasOn(a, h.who)
    BY DEF S, WasOn
  <2> QED BY <2>3, <2>8, <2>9 DEF S
<1> HIDE DEF in, last
<1> QED BY <1>1, <1>2, <1>3

(* The second stage finds on its board all that the first one planned. *)
LEMMA QuoteStep ==
  ASSUME DecoderInv, PlanNewOrders
  PROVE  DecoderInv'
<1>1. /\ phase = "repair" /\ phase' = "quote" /\ published' = [placed |-> placed, log |-> log]
      /\ pins' = Nothing /\ occupied' = [m \in Machines |-> TimeOn(m)] /\ manned' = LastManned
      /\ Begin({k \in NewJobs : TakenIn(k, shop, left)}, today)
      /\ UNCHANGED <<route, shop, today, left, sent, booked>>
  BY DEF PlanNewOrders
<1>2. Book /\ Board /\ Logged /\ Recorded /\ Staged
  BY DEF DecoderInv
<1>3. /\ orders' \in SUBSET NewJobs
      /\ idx' = [k \in Jobs |-> 1] /\ ready' = [k \in Jobs |-> today] /\ prevEnd' = [k \in Jobs |-> today]
      /\ spans' = [m \in Machines |-> {}] /\ placed' = Nothing /\ log' = <<>>
  BY <1>1 DEF Begin
<1>4. today \in Nat /\ today <= today
  BY <1>2, DecoderAssumption DEF Book
<1>5. Book'
  <2>1. \A k \in Jobs : Len(route[k]) \in Nat
    BY <1>2, DecoderAssumption DEF Book
  <2>2. \A k \in Jobs : idx'[k] \in 1..(Len(route[k]) + 1) /\ today <= ready'[k]
    BY <1>3, <1>4, <2>1
  <2>3. idx' \in [Jobs -> Nat] /\ ready' \in [Jobs -> Nat] /\ prevEnd' \in [Jobs -> Nat]
    BY <1>3, <1>4
  <2>4. orders' \in SUBSET Jobs
    BY <1>3, DecoderAssumption
  <2> QED BY <1>1, <1>2, <2>2, <2>3, <2>4 DEF Book
<1>6. Board'
  <2>1. manned' \in [Machines \X Shifts -> People \cup {Nobody}]
    BY <1>1, LastKnown
  <2>2. occupied' \in [Machines -> SUBSET Blocks]
    BY <1>1, TimeBlocks
  <2> QED BY <1>1, <1>2, <1>3, <2>1, <2>2 DEF Board
<1>7. Kept = Nothing /\ Kept' = placed /\ DOMAIN Nothing = {}
  BY <1>1 DEF Kept, Nothing
<1>8. Pinned'
  BY <1>1, <1>7 DEF Pinned
<1>9. Logged'
  <2>1. <<>> \in Seq(Jobs \X Nat) /\ Len(<<>>) = 0 /\ ToSet(<<>>) = {}
    BY DEF ToSet
  <2> QED BY <1>3, <1>7, <2>1, FS_EmptySet DEF Logged
<1>10. Staged'
  <2>1. orders \cap NewJobs = {} /\ \A s \in DOMAIN placed : s[1] \in orders
    BY <1>1, <1>2 DEF Staged, Logged
  <2>2. \A s \in DOMAIN Kept' : s[1] \notin orders'
    BY <1>3, <1>7, <2>1
  <2> QED BY <1>1, <2>2 DEF Staged
<1>11. /\ DOMAIN InForce = DOMAIN placed /\ DOMAIN InForce' = DOMAIN placed
       /\ \A s \in DOMAIN placed : InForce[s] = placed[s] /\ InForce'[s] = placed[s]
  BY <1>3, <1>7 DEF InForce
<1>12. \A s : Op(s)' = Op(s)
  BY <1>1 DEF Op
<1>13. NoDoubleBooking' /\ SetupPaidOnce'
  <2>1. NoDoubleBooking'
    BY <1>11 DEF DecoderInv, NoDoubleBooking, Overlap
  <2>2. SetupPaidOnce'
    BY <1>11, <1>12 DEF DecoderInv, SetupPaidOnce, Overlap
  <2> QED BY <2>1, <2>2
<1>14. Recorded'
  <2> SUFFICES ASSUME NEW s \in DOMAIN InForce' PROVE IsKnown(s, InForce[s])'
    BY DEF Recorded
  <2>1. PICK q : q = InForce'[s]
    OBVIOUS
  <2>2. s \in DOMAIN placed /\ q = placed[s] /\ IsKnown(s, q)
    BY <1>2, <1>11, <2>1 DEF Recorded
  <2>3. IsPlaced(q) /\ IsPlaced(q)'
    BY <2>2 DEF IsKnown, IsPlaced, IsJob, Chain, Spot, Segment
  <2>4. CASE q.machine = NoMachine
    <3>1. IsKnown(s, q)'
      BY <2>3, <2>4 DEF IsKnown
    <3> QED BY <2>1, <3>1
  <2>5. CASE q.machine # NoMachine
    <3>1. q.machine \in Machines
      BY <2>3, <2>5, JobsStretches
    <3>2. TimeOn(q.machine) \in SUBSET (Busy(q.machine)')
      BY <1>1, <3>1 DEF Busy
    <3>3. /\ \A n \in DOMAIN q.segs : <<q.segs[n].start, q.segs[n].end>> \in TimeOn(q.machine)
          /\ Op(s).kind = "machining" =>
               \A t \in Nat : q.start <= t /\ t < q.end => \E b \in TimeOn(q.machine) : b[1] <= t /\ t < b[2]
      BY <2>2, <2>5, TimeCovers
    <3>4. \A n \in DOMAIN q.segs : q.segs[n].start \in Nat /\ q.segs[n].end \in Nat
      BY <2>3, <2>5, JobsStretches
    <3>5. \A n \in DOMAIN q.segs : \E b \in Busy(q.machine)' : Covers(b, q.segs[n].start, q.segs[n].end)
      <4> SUFFICES ASSUME NEW n \in DOMAIN q.segs
                   PROVE  \E b \in Busy(q.machine)' : Covers(b, q.segs[n].start, q.segs[n].end)
        OBVIOUS
      <4> DEFINE b == <<q.segs[n].start, q.segs[n].end>>
      <4>1. b \in Busy(q.machine)'
        BY <3>2, <3>3
      <4>2. Covers(b, q.segs[n].start, q.segs[n].end)
        BY <3>4 DEF Covers
      <4> QED BY <4>1, <4>2
    <3>6. \A n \in DOMAIN q.segs : <<q.segs[n].start, q.segs[n].end>> \in booked'[q.segs[n].who]
      BY <1>1, <2>2, <2>5 DEF IsKnown
    <3>7. Op(s)'.kind = "machining" =>
            \A t \in Nat : q.start <= t /\ t < q.end => \E b \in Busy(q.machine)' : b[1] <= t /\ t < b[2]
      BY <1>12, <3>2, <3>3
    <3>8. IsKnown(s, q)'
      BY <2>3, <3>5, <3>6, <3>7 DEF IsKnown, Covers
    <3> QED BY <2>1, <3>8
  <2> QED BY <2>4, <2>5
<1>15. Owing'
  <2>1. DOMAIN pins' = {} /\ DOMAIN placed' = {} /\ phase' # "plan"
    BY <1>1, <1>3, <1>7
  <2> QED BY <2>1 DEF Owing
<1> QED BY <1>5, <1>6, <1>8, <1>9, <1>10, <1>13, <1>14, <1>15 DEF DecoderInv

-----------------------------------------------------------------------------
(* The order of an order's steps                                            *)

(* Every step before the next of an order is placed, and the next one may not
   begin before it has, nor before it has ended when it is not done in the
   house. *)
Fed ==
    \A k \in orders : \A n \in 1..(idx[k] - 1) :
      /\ <<k, n>> \in DOMAIN placed
      /\ idx[k] <= Len(route[k]) =>
           /\ placed[<<k, n>>].start <= ready[k]
           /\ Op(<<k, n>>).kind \notin InHouse => placed[<<k, n>>].end <= ready[k]
Flowing == Fed /\ StartsInOrder

(* What is placed has a start and an end. *)
LEMMA PlacedTimes ==
  ASSUME DecoderInv, NEW s \in DOMAIN placed
  PROVE  placed[s].start \in Nat /\ placed[s].end \in Nat
<1>1. s \in DOMAIN InForce /\ InForce[s] = placed[s]
  BY DEF InForce
<1>2. placed[s] \in Spot
  BY <1>1 DEF DecoderInv, Recorded, IsKnown, IsPlaced
<1> QED BY <1>2 DEF Spot

(* A step that is placed begins after those before it, and those after it will
   begin after it. *)
LEMMA CommitFlows ==
  ASSUME DecoderInv, Flowing, NEW k \in Remaining, NEW p, p \in SpotsFrom(k, ready[k]),
         p.machine # Unrunnable, Commit(k, p), UNCHANGED <<route, orders>>
  PROVE  Flowing'
<1> DEFINE paced == Max({p.end, prevEnd[k]})
           z == <<k, idx[k]>>
<1>1. /\ Book /\ Logged /\ k \in Jobs /\ k \in orders /\ Step(k) = z
      /\ idx[k] \in DOMAIN route[k] /\ route[k] \in Seq(Operation)
      /\ orders \in SUBSET Jobs /\ idx \in [Jobs -> Nat] /\ ready \in [Jobs -> Nat] /\ prevEnd[k] \in Nat
  BY OperationKnown DEF DecoderInv, Book, Remaining
<1>2. /\ p.start \in Nat /\ p.end \in Nat /\ ready[k] \in Nat /\ ready[k] <= p.start /\ p.start <= p.end
  BY <1>1 DEF SpotsFrom, MayGo, IsPlaced, Spot
<1>3. paced \in Nat /\ p.end <= paced /\ p.start <= paced
  <2>1. p.end \in Int /\ prevEnd[k] \in Int
    BY <1>1, <1>2
  <2>2. paced = IF p.end <= prevEnd[k] THEN prevEnd[k] ELSE p.end
    BY <2>1, OfTwo
  <2> QED BY <1>1, <1>2, <2>2
<1> HIDE DEF paced
<1>4. /\ ReadyAfter(k, p.start, paced) \in Nat /\ p.start <= ReadyAfter(k, p.start, paced)
      /\ Op(z).kind \notin InHouse => p.end <= ReadyAfter(k, p.start, paced)
  BY <1>1, <1>2, <1>3, ReadyOn
<1>5. /\ idx' = [idx EXCEPT ![k] = @ + 1]
      /\ ready' = [ready EXCEPT ![k] = IF idx[k] = Len(route[k]) THEN @ ELSE ReadyAfter(k, p.start, paced)]
      /\ placed' = [x \in DOMAIN placed \cup {z} |-> IF x = z THEN p ELSE placed[x]]
  BY <1>1 DEF Commit, paced
<1>6. z \notin DOMAIN placed
  <2>1. \A s \in DOMAIN placed : s[2] < idx[s[1]]
    BY <1>1 DEF Logged
  <2> QED BY <1>1, <2>1
<1>7. /\ DOMAIN placed' = DOMAIN placed \cup {z} /\ placed'[z] = p
      /\ \A s \in DOMAIN placed : placed'[s] = placed[s]
  BY <1>5, <1>6
<1>8. \A s : Op(s)' = Op(s)
  BY DEF Op
<1>9. \A s \in DOMAIN placed : placed[s].start \in Nat /\ placed[s].end \in Nat
  BY PlacedTimes
<1>10. Fed'
  <2> SUFFICES ASSUME NEW i \in orders, NEW n \in 1..(idx'[i] - 1)
               PROVE  /\ <<i, n>> \in DOMAIN placed'
                      /\ idx'[i] <= Len(route[i]) =>
                           /\ placed'[<<i, n>>].start <= ready'[i]
                           /\ Op(<<i, n>>).kind \notin InHouse => placed'[<<i, n>>].end <= ready'[i]
    BY <1>8 DEF Fed
  <2>1. CASE i # k
    <3>1. idx'[i] = idx[i] /\ ready'[i] = ready[i]
      BY <1>1, <1>5, <2>1
    <3> QED BY <1>7, <2>1, <3>1 DEF Flowing, Fed
  <2>2. CASE i = k
    <3> DEFINE later == ReadyAfter(k, p.start, paced)
    <3>1. /\ idx'[k] = idx[k] + 1 /\ idx[k] \in Nat /\ idx[k] <= Len(route[k]) /\ Len(route[k]) \in Nat
          /\ idx'[k] <= Len(route[k]) => ready'[k] = later
      BY <1>1, <1>5
    <3>2. later \in Nat /\ p.start <= later /\ (Op(z).kind \notin InHouse => p.end <= later)
      BY <1>4
    <3> HIDE DEF later
    <3>3. CASE n = idx[k]
      BY <1>7, <2>2, <3>1, <3>2, <3>3
    <3>4. CASE n # idx[k]
      <4>1. n \in 1..(idx[k] - 1)
        BY <2>2, <3>1, <3>4
      <4>2. /\ <<k, n>> \in DOMAIN placed /\ placed[<<k, n>>].start <= ready[k]
            /\ Op(<<k, n>>).kind \notin InHouse => placed[<<k, n>>].end <= ready[k]
        BY <1>1, <3>1, <4>1 DEF Flowing, Fed
      <4>3. /\ <<k, n>> \in DOMAIN placed' /\ placed'[<<k, n>>] = placed[<<k, n>>]
            /\ placed[<<k, n>>].start \in Nat /\ placed[<<k, n>>].end \in Nat
        BY <1>7, <1>9, <4>2
      <4> QED BY <1>2, <2>2, <3>1, <3>2, <4>2, <4>3
    <3> QED BY <3>3, <3>4
  <2> QED BY <2>1, <2>2
<1>11. StartsInOrder'
  <2> SUFFICES ASSUME NEW s \in DOMAIN placed', NEW n \in 1..(s[2] - 1)
               PROVE  /\ placed'[s].start >= placed'[<<s[1], n>>].start
                      /\ Op(<<s[1], n>>).kind \notin InHouse => placed'[s].start >= placed'[<<s[1], n>>].end
    BY <1>8 DEF StartsInOrder
  <2>1. CASE s = z
    <3>1. s[1] = k /\ s[2] = idx[k] /\ placed'[s] = p /\ idx[k] <= Len(route[k])
      BY <1>1, <1>7, <2>1
    <3>2. /\ <<k, n>> \in DOMAIN placed /\ placed[<<k, n>>].start <= ready[k]
          /\ Op(<<k, n>>).kind \notin InHouse => placed[<<k, n>>].end <= ready[k]
      BY <1>1, <3>1 DEF Flowing, Fed
    <3>3. /\ placed'[<<k, n>>] = placed[<<k, n>>]
          /\ placed[<<k, n>>].start \in Nat /\ placed[<<k, n>>].end \in Nat
      BY <1>7, <1>9, <3>2
    <3> QED BY <1>2, <3>1, <3>2, <3>3
  <2>2. CASE s \in DOMAIN placed
    <3>1. s[1] \in orders /\ s[2] \in Nat /\ s[2] < idx[s[1]] /\ idx[s[1]] \in Nat
      BY <1>1, <2>2 DEF Logged
    <3>2. n \in 1..(idx[s[1]] - 1)
      BY <3>1
    <3>3. <<s[1], n>> \in DOMAIN placed
      BY <3>1, <3>2 DEF Flowing, Fed
    <3>4. placed'[s] = placed[s] /\ placed'[<<s[1], n>>] = placed[<<s[1], n>>]
      BY <1>7, <2>2, <3>3
    <3> QED BY <2>2, <3>4 DEF Flowing, StartsInOrder
  <2> QED BY <1>7, <2>1, <2>2
<1> QED BY <1>10, <1>11 DEF Flowing

(* Every step keeps the order: a stage begins with nothing placed. *)
LEMMA FlowSteps ==
  ASSUME DecoderInv, Flowing, [Next]_vars
  PROVE  Flowing'
<1>1. ASSUME UNCHANGED <<route, orders, idx, ready, placed>> PROVE Flowing'
  <2>1. \A s : Op(s)' = Op(s)
    BY <1>1 DEF Op
  <2> QED BY <1>1, <2>1 DEF Flowing, Fed, StartsInOrder
<1>2. ASSUME NEW who, NEW start, who \in SUBSET Jobs, Begin(who, start) PROVE Flowing'
  <2>1. orders' = who /\ idx' = [k \in Jobs |-> 1] /\ placed' = Nothing
    BY <1>2 DEF Begin
  <2>2. DOMAIN placed' = {} /\ \A k \in orders' : 1..(idx'[k] - 1) = {}
    BY <1>2, <2>1 DEF Nothing
  <2> QED BY <2>2 DEF Flowing, Fed, StartsInOrder
<1>3. CASE PlaceNext
  <2>1. UNCHANGED <<route, orders>>
    BY <1>3 DEF PlaceNext
  <2>2. CASE Raise
    BY <1>1, <2>1, <2>2 DEF Raise, board
  <2>3. CASE \E k \in Remaining : \E p \in SpotsFrom(k, ready[k]) : p.machine # Unrunnable /\ Commit(k, p)
    BY <2>1, <2>3, CommitFlows
  <2> QED BY <1>3, <2>2, <2>3, TurnPlaces
<1>4. CASE Repair
  <2>1. PICK settings \in Shops, now \in Starts : Begin({k \in Jobs \ NewJobs : TakenIn(k, settings, left')}, now)
    BY <1>4 DEF Repair
  <2> QED BY <1>2, <2>1
<1>5. CASE PlanNewOrders
  <2>1. Begin({k \in NewJobs : TakenIn(k, shop, left)}, today)
    BY <1>5 DEF PlanNewOrders
  <2>2. {k \in NewJobs : TakenIn(k, shop, left)} \in SUBSET Jobs
    BY DecoderAssumption
  <2> QED BY <1>2, <2>1, <2>2
<1>6. CASE UNCHANGED vars
  BY <1>1, <1>6 DEF vars, request, board
<1> QED BY <1>3, <1>4, <1>5, <1>6 DEF Next

-----------------------------------------------------------------------------
(* The hours people work                                                    *)

(* Whatever is placed is in the hours of the machine and of whoever works it,
   and so is everybody the board has on a machine. *)
InHours(g, m) == OpenFrom(m, g.shift, g.start, g.end) /\ g.who \in Eligible(m, g.shift)
Working ==
    /\ Rostered
    /\ \A s \in DOMAIN placed : \A n \in DOMAIN placed[s].segs : InHours(placed[s].segs[n], placed[s].machine)

(* The stretches of what is placed have a start and an end. *)
LEMMA StretchKnown ==
  ASSUME DecoderInv, NEW s \in DOMAIN placed, NEW g \in ToSet(placed[s].segs)
  PROVE  g.start \in Nat /\ g.end \in Nat /\ g.start < g.end
<1> DEFINE p == placed[s]
<1>1. s \in DOMAIN InForce /\ InForce[s] = p
  BY DEF InForce
<1>2. IsPlaced(p)
  BY <1>1 DEF DecoderInv, Recorded, IsKnown
<1>3. PICK n \in DOMAIN p.segs : g = p.segs[n]
  BY DEF ToSet
<1>4. p.machine # NoMachine
  BY <1>2, <1>3 DEF IsPlaced
<1> HIDE DEF p
<1> QED BY <1>2, <1>3, <1>4, JobsStretches

(* Work in the hours of a sound day is work while the shop is open. *)
LEMMA WorkKept ==
  ASSUME HoursSound, DecoderInv, Working
  PROVE  WorksWhenOpen
<1> SUFFICES ASSUME NEW s \in DOMAIN placed, NEW g \in ToSet(placed[s].segs), NEW t \in g.start..(g.end - 1)
             PROVE  /\ ~InBreak(t) /\ ShiftKeyFor(t) = g.shift /\ IsWorkingDay(g.shift[1])
                    /\ CASE g.shift[2] = "day" -> Clock(t) \in FirstStart..(FirstEnd - 1) /\ DayOf(t) = g.shift[1]
                         [] Clock(t) >= FirstEnd -> DayOf(t) = g.shift[1]
                         [] OTHER -> Clock(t) < SecondEnd /\ DayOf(t) = g.shift[1] + 1
                    /\ shop.base[g.who] = g.shift[2] /\ placed[s].machine \in shop.skill[g.who]
                    /\ ~Reserved(shop.leave, g.who, g.shift[1])
                    /\ ~Reserved(shop.down, placed[s].machine, g.shift[1])
  BY DEF WorksWhenOpen
<1> DEFINE m == placed[s].machine
<1>1. g.start \in Nat /\ g.end \in Nat
  BY StretchKnown
<1>2. InHours(g, m)
  BY DEF Working, ToSet
<1> HIDE DEF m
<1>3. PICK w \in Open(m) : w.shift = g.shift /\ w.start <= g.start /\ g.end <= w.end
  BY <1>2 DEF InHours, OpenFrom
<1>4. w.start <= t /\ t < w.end /\ t \in Int
  <2>1. w.start \in Int /\ w.end \in Int
    BY OpenTyped DEF Window
  <2> QED BY <1>1, <1>3, <2>1
<1>5. /\ ~InBreak(t) /\ ShiftKeyFor(t) = g.shift /\ IsWorkingDay(g.shift[1])
      /\ g.shift[2] \in Kinds
      /\ IF g.shift[2] = "day" THEN ByDay(g.shift[1], t) ELSE ByNight(g.shift[1], t)
      /\ Clock(t) \in Int
  BY <1>3, <1>4, OpenHours
<1>6. /\ CASE g.shift[2] = "day" -> Clock(t) \in FirstStart..(FirstEnd - 1) /\ DayOf(t) = g.shift[1]
           [] Clock(t) >= FirstEnd -> DayOf(t) = g.shift[1]
           [] OTHER -> Clock(t) < SecondEnd /\ DayOf(t) = g.shift[1] + 1
  <2>1. FirstStart \in Int /\ FirstEnd \in Int /\ SecondEnd \in Int /\ FirstStart < FirstEnd
    BY HoursAssumption
  <2>2. CASE g.shift[2] = "day"
    BY <1>5, <2>1, <2>2 DEF ByDay
  <2>3. CASE g.shift[2] # "day" /\ Clock(t) >= FirstEnd
    <3>1. DayOf(t) = g.shift[1]
      BY <1>5, <2>1, <2>3 DEF ByNight
    <3> QED BY <2>3, <3>1
  <2>4. CASE g.shift[2] # "day" /\ ~(Clock(t) >= FirstEnd)
    <3>1. Clock(t) < SecondEnd /\ DayOf(t) = g.shift[1] + 1
      BY <1>5, <2>1, <2>4 DEF ByNight
    <3> QED BY <2>4, <3>1
  <2> QED BY <2>2, <2>3, <2>4
<1>7. /\ shop.base[g.who] = g.shift[2] /\ m \in shop.skill[g.who]
      /\ ~Reserved(shop.leave, g.who, g.shift[1])
  BY <1>2 DEF InHours, Eligible, Pool, EffectiveShift, IsOperatorAvailable
<1>8. ~Reserved(shop.down, m, g.shift[1])
  BY <1>2 DEF InHours, OpenFrom, IsMachineAvailable
<1> QED BY <1>5, <1>6, <1>7, <1>8 DEF m

(* A placement that is committed keeps everybody to their hours. *)
LEMMA WorkCommits ==
  ASSUME DecoderInv, Working, NEW k \in Remaining, NEW p, p \in SpotsFrom(k, ready[k]),
         p.machine # Unrunnable, Commit(k, p), UNCHANGED shop
  PROVE  Working'
<1>1. MayGo(k, p) /\ p.segs \in Seq(Segment) /\ Rostered
  BY DEF SpotsFrom, Spot, Working
<1>2. \A n \in DOMAIN p.segs : InHours(p.segs[n], p.machine)
  <2>1. p.machine = NoMachine => DOMAIN p.segs = {}
    BY <1>1 DEF MayGo, IsPlaced
  <2> QED BY <1>1, <2>1 DEF MayGo, Clear, InHours
<1>3. \A m, shift : Eligible(m, shift)' = Eligible(m, shift)
  BY DEF Eligible, Pool, EffectiveShift
<1>4. \A g, m : InHours(g, m)' = InHours(g, m)
  BY <1>3 DEF InHours, OpenFrom
<1>5. Rostered'
  <2> DEFINE on(shift) == {n \in DOMAIN p.segs : p.segs[n].shift = shift}
  <2>1. manned' = [a \in DOMAIN manned |-> IF a[1] = p.machine /\ on(a[2]) # {}
                                           THEN p.segs[Max(on(a[2]))].who ELSE manned[a]]
    BY DEF Commit, Staff
  <2>2. DOMAIN manned = Machines \X Shifts
    BY DEF DecoderInv, Board
  <2>3. ASSUME NEW shift, on(shift) # {} PROVE p.segs[Max(on(shift))].who \in Eligible(p.machine, shift)
    <3>1. on(shift) \in SUBSET Int /\ Len(p.segs) \in Int /\ \A n \in on(shift) : n <= Len(p.segs)
      BY <1>1
    <3>2. Max(on(shift)) \in on(shift)
      <4> HIDE DEF on
      <4> QED BY <2>3, <3>1, GreatestBelow
    <3> QED BY <1>2, <3>2 DEF InHours
  <2> HIDE DEF on
  <2> SUFFICES ASSUME NEW a \in Machines \X Shifts PROVE manned'[a] \in Eligible(a[1], a[2]) \cup {Nobody}
    BY <1>3 DEF Rostered
  <2>4. manned[a] \in Eligible(a[1], a[2]) \cup {Nobody}
    BY <1>1 DEF Rostered
  <2> QED BY <2>1, <2>2, <2>3, <2>4
<1>6. placed' = [x \in DOMAIN placed \cup {Step(k)} |-> IF x = Step(k) THEN p ELSE placed[x]]
  BY DEF Commit
<1>7. \A s \in DOMAIN placed' : \A n \in DOMAIN placed'[s].segs : InHours(placed'[s].segs[n], placed'[s].machine)
  BY <1>2, <1>6 DEF Working
<1> QED BY <1>4, <1>5, <1>7 DEF Working

(* The second stage is handed a board of people in their hours. *)
LEMMA WorkQuotes ==
  ASSUME HoursSound, DecoderInv, Working, PlanNewOrders
  PROVE  Working'
<1>1. manned' = LastManned /\ placed' = Nothing /\ shop' = shop
  BY DEF PlanNewOrders, Begin
<1>2. \A m, shift : Eligible(m, shift)' = Eligible(m, shift)
  BY <1>1 DEF Eligible, Pool, EffectiveShift
<1>3. Rostered'
  <2> SUFFICES ASSUME NEW a \in Machines \X Shifts PROVE LastManned[a] \in Eligible(a[1], a[2]) \cup {Nobody}
    BY <1>1, <1>2 DEF Rostered
  <2>1. CASE LastManned[a] = Nobody
    BY <2>1
  <2>2. CASE WasOn(a, LastManned[a])
    <3>1. PICK s \in DOMAIN placed :
            /\ placed[s].machine = a[1]
            /\ \E g \in ToSet(placed[s].segs) : ShiftKeyFor(g.start) = a[2] /\ g.who = LastManned[a]
      BY <2>2 DEF WasOn
    <3>2. PICK g \in ToSet(placed[s].segs) : ShiftKeyFor(g.start) = a[2] /\ g.who = LastManned[a]
      BY <3>1
    <3>3. g.start \in Nat /\ g.end \in Nat /\ g.start < g.end
      BY StretchKnown
    <3>4. InHours(g, a[1])
      BY <3>1 DEF Working, ToSet
    <3>5. PICK w \in Open(a[1]) : w.shift = g.shift /\ w.start <= g.start /\ g.end <= w.end
      BY <3>4 DEF InHours, OpenFrom
    <3>6. w.start <= g.start /\ g.start < w.end /\ g.start \in Int
      <4>1. w.start \in Int /\ w.end \in Int
        BY OpenTyped DEF Window
      <4> QED BY <3>3, <3>5, <4>1
    <3>7. ShiftKeyFor(g.start) = g.shift
      BY <3>5, <3>6, OpenHours
    <3> QED BY <3>2, <3>4, <3>7 DEF InHours
  <2> QED BY <2>1, <2>2, LastKnown
<1>4. DOMAIN placed' = {}
  BY <1>1 DEF Nothing
<1> QED BY <1>3, <1>4 DEF Working

(* Every step keeps everybody to their hours. *)
LEMMA WorkSteps ==
  ASSUME HoursSound, DecoderInv, Working, [Next]_vars
  PROVE  Working'
<1>1. ASSUME UNCHANGED <<shop, manned, placed>> PROVE Working'
  <2>1. \A m, shift : Eligible(m, shift)' = Eligible(m, shift)
    BY <1>1 DEF Eligible, Pool, EffectiveShift
  <2>2. \A g, m : InHours(g, m)' = InHours(g, m)
    BY <1>1, <2>1 DEF InHours, OpenFrom
  <2>3. Rostered'
    BY <1>1, <2>1 DEF Working, Rostered
  <2> QED BY <1>1, <2>2, <2>3 DEF Working
<1>2. CASE PlaceNext
  <2>1. UNCHANGED shop
    BY <1>2 DEF PlaceNext
  <2>2. CASE Raise
    BY <1>1, <2>1, <2>2 DEF Raise, board
  <2>3. CASE \E k \in Remaining : \E p \in SpotsFrom(k, ready[k]) : p.machine # Unrunnable /\ Commit(k, p)
    BY <2>1, <2>3, WorkCommits
  <2> QED BY <1>2, <2>2, <2>3, TurnPlaces
<1>3. CASE Repair
  <2>1. manned' = Nobodies /\ placed' = Nothing
    BY <1>3 DEF Repair, Begin
  <2>2. DOMAIN placed' = {}
    BY <2>1 DEF Nothing
  <2>3. Rostered'
    BY <2>1 DEF Rostered, Nobodies
  <2> QED BY <2>2, <2>3 DEF Working
<1>4. CASE PlanNewOrders
  BY <1>4, WorkQuotes
<1>5. CASE UNCHANGED vars
  BY <1>1, <1>5 DEF vars, request, board
<1> QED BY <1>2, <1>3, <1>4, <1>5 DEF Next

-----------------------------------------------------------------------------
(* The theorems                                                             *)

(* A fresh plan begins on an empty board. *)
LEMMA DecoderStarts ==
  ASSUME Init
  PROVE  DecoderInv
<1>1. /\ phase = "plan" /\ route \in Books /\ orders \in FirstOrders /\ shop = Home /\ today = 0
      /\ left = [k \in Jobs |-> [n \in DOMAIN route[k] |-> Qty]] /\ sent = [k \in Jobs |-> NotSent]
      /\ pins = Nothing /\ placed = Nothing /\ log = <<>>
      /\ idx = [k \in Jobs |-> 1] /\ ready = [k \in Jobs |-> 0] /\ prevEnd = [k \in Jobs |-> 0]
      /\ spans = [m \in Machines |-> {}] /\ occupied = [m \in Machines |-> {}]
      /\ booked = Idle /\ manned = Nobodies
  BY DEF Init
<1>2. Book
  <2>1. \A k \in Jobs : Len(route[k]) \in Nat
    BY <1>1, DecoderAssumption
  <2>2. \A k \in Jobs : idx[k] \in 1..(Len(route[k]) + 1) /\ today <= ready[k]
    BY <1>1, <2>1
  <2>3. orders \in SUBSET Jobs /\ Qty \in Nat /\ today \in Starts
    BY <1>1, DecoderAssumption
  <2>4. \A k \in Jobs : \A n \in DOMAIN route[k] : left[k][n] \in Nat
    BY <1>1, <2>3
  <2> QED BY <1>1, <2>2, <2>3, <2>4 DEF Book
<1>3. Board
  BY <1>1, DecoderAssumption DEF Board, Idle, Nobodies
<1>4. DOMAIN Nothing = {} /\ Kept = Nothing
  BY <1>1 DEF Nothing, Kept
<1>5. Pinned /\ Staged
  <2>1. orders \cap NewJobs = {}
    BY <1>1, DecoderAssumption
  <2> QED BY <1>1, <1>4, <2>1 DEF Pinned, Staged
<1>6. Logged
  <2>1. <<>> \in Seq(Jobs \X Nat) /\ Len(<<>>) = 0 /\ ToSet(<<>>) = {}
    BY DEF ToSet
  <2> QED BY <1>1, <1>4, <2>1, FS_EmptySet DEF Logged
<1>7. DOMAIN InForce = {}
  BY <1>1, <1>4 DEF InForce
<1>8. Recorded /\ NoDoubleBooking /\ SetupPaidOnce
  BY <1>7 DEF Recorded, NoDoubleBooking, SetupPaidOnce
<1>9. Owing
  BY <1>1, <1>4 DEF Owing
<1> QED BY <1>2, <1>3, <1>5, <1>6, <1>8, <1>9 DEF DecoderInv

(* Every step keeps the invariant. *)
LEMMA DecoderSteps ==
  ASSUME DecoderInv, [Next]_vars
  PROVE  DecoderInv'
<1>1. CASE PlaceNext
  BY <1>1, PlaceStep
<1>2. CASE Repair
  BY <1>2, RepairStep
<1>3. CASE PlanNewOrders
  BY <1>3, QuoteStep
<1>4. CASE UNCHANGED vars
  <2>1. UNCHANGED <<route, phase, orders, shop, today, left, sent, pins, occupied, published,
                    idx, ready, prevEnd, spans, booked, manned, placed, log>>
    BY <1>4 DEF vars, request, board
  <2>2. Book' /\ Board' /\ Logged'
    BY <2>1 DEF DecoderInv, Book, Board, Blocks, Logged
  <2>3. Pinned'
    BY <2>1 DEF DecoderInv, Pinned, IsPin, Segment
  <2>4. Kept' = Kept /\ InForce' = InForce
    BY <2>1 DEF Kept, InForce
  <2>5. Staged'
    BY <2>1, <2>4 DEF DecoderInv, Staged
  <2>6. \A s : Op(s)' = Op(s)
    BY <2>1 DEF Op
  <2>7. NoDoubleBooking' /\ SetupPaidOnce'
    <3>1. NoDoubleBooking'
      BY <2>4 DEF DecoderInv, NoDoubleBooking, Overlap
    <3>2. SetupPaidOnce'
      BY <2>4, <2>6 DEF DecoderInv, SetupPaidOnce, Overlap
    <3> QED BY <3>1, <3>2
  <2>8. Recorded'
    <3> SUFFICES ASSUME NEW s \in DOMAIN InForce' PROVE IsKnown(s, InForce[s])'
      BY DEF Recorded
    <3>1. PICK q : q = InForce'[s]
      OBVIOUS
    <3>2. IsKnown(s, q)
      BY <2>4, <3>1 DEF DecoderInv, Recorded
    <3>3. \A m \in Machines : Busy(m) \in SUBSET (Busy(m)')
      BY <2>1 DEF Busy
    <3>4. IsKnown(s, q)'
      BY <2>1, <3>2, <3>3, KnownStays
    <3> QED BY <3>1, <3>4
  <2>9. Owing'
    <3>1. \A s : Runs(s)' = Runs(s) /\ Queued(s)' = Queued(s)
      BY <2>1, RunsStay DEF Queued
    <3> QED BY <2>1, <3>1 DEF DecoderInv, Owing
  <2> QED BY <2>2, <2>3, <2>5, <2>7, <2>8, <2>9 DEF DecoderInv
<1> QED BY <1>1, <1>2, <1>3, <1>4 DEF Next

(* The invariant says what the board promises. *)
LEMMA DecoderBoards ==
  ASSUME DecoderInv
  PROVE  BoardInv
<1>1. TypeOK
  <2>1. \A a \in DOMAIN manned : manned[a] \in People \cup {Nobody}
    BY DEF DecoderInv, Board
  <2>2. \A s \in DOMAIN placed : s[1] \in orders /\ s[2] < idx[s[1]]
    BY DEF DecoderInv, Logged
  <2>3. \A k \in Jobs : idx[k] \in 1..(Len(route[k]) + 1) /\ ready[k] \in Nat /\ prevEnd[k] \in Nat
    BY DEF DecoderInv, Book
  <2> QED BY <2>1, <2>2, <2>3 DEF TypeOK, DecoderInv, Book, Board, Staged, Logged
<1> QED BY <1>1 DEF BoardInv, DecoderInv

(* The invariant of the scheduler. *)
THEOREM DecoderSafe == Spec => []DecoderInv
<1>1. Init => DecoderInv
  BY DecoderStarts
<1>2. DecoderInv /\ [Next]_vars => DecoderInv'
  BY DecoderSteps
<1> QED BY <1>1, <1>2, PTL DEF Spec

(* Nobody and no machine is in two places at once, whichever stage planned
   them: StaffingBoard and calendar.machine_busy. *)
THEOREM NobodyTwice == Spec => []BoardInv
<1>1. DecoderInv => BoardInv
  BY DecoderBoards
<1> QED BY <1>1, DecoderSafe, PTL

(* A machining job is never split around another one: _lay_around. *)
THEOREM NeverSplit == Spec => []SetupPaidOnce
<1>1. DecoderInv => SetupPaidOnce
  BY DEF DecoderInv
<1> QED BY <1>1, DecoderSafe, PTL

(* No step starts before one that feeds it has, or before it has ended when it
   is not done in the house: _ready_after, whatever the guard, the pins and the
   yields do. *)
THEOREM StartedInOrder == Spec => []StartsInOrder
<1>1. Init => Flowing
  <2> SUFFICES ASSUME Init PROVE Flowing
    OBVIOUS
  <2>1. DOMAIN placed = {} /\ orders \in SUBSET Jobs /\ idx = [k \in Jobs |-> 1]
    BY DecoderAssumption DEF Init, Nothing
  <2>2. \A k \in orders : 1..(idx[k] - 1) = {}
    BY <2>1
  <2> QED BY <2>1, <2>2 DEF Flowing, Fed, StartsInOrder
<1>2. DecoderInv /\ Flowing /\ [Next]_vars => Flowing'
  BY FlowSteps
<1>3. Flowing => StartsInOrder
  BY DEF Flowing
<1> QED BY <1>1, <1>2, <1>3, DecoderSafe, PTL DEF Spec

(* Nobody works in a break, out of their shift, on a day off or on leave, and no
   machine runs while it is out of service, as long as the hours of a day do not
   run into each other: iter_windows, _without_breaks and shift_key_for. *)
THEOREM WorkedInHours == HoursSound /\ Spec => []WorksWhenOpen
<1> SUFFICES ASSUME HoursSound PROVE Spec => []WorksWhenOpen
  OBVIOUS
<1>1. Init => Working
  <2> SUFFICES ASSUME Init PROVE Working
    OBVIOUS
  <2>1. manned = Nobodies /\ DOMAIN placed = {}
    BY DEF Init, Nothing
  <2> QED BY <2>1 DEF Working, Rostered, Nobodies
<1>2. DecoderInv /\ Working /\ [Next]_vars => Working'
  BY WorkSteps
<1>3. DecoderInv /\ Working => WorksWhenOpen
  BY WorkKept
<1> QED BY <1>1, <1>2, <1>3, DecoderSafe, PTL DEF Spec

(* A job that is on time is passed on its machine only by one that is ready
   before it, in a turn in which a late job steps aside: _pick, for every plan
   and every chain of jobs that give way. *)
THEOREM PassedOnlyByTheReady == Spec => PassedByTheReady
<1>1. ASSUME DecoderInv, [Next]_vars, NEW s \in DOMAIN placed' \ DOMAIN placed, Queued(s),
             NEW k \in Remaining \ {s[1]}, Passed(k, s)
      PROVE  /\ Reached(s[1]) < Reached(k)
             /\ \E late \in Remaining \ {s[1], k} : Late(late) /\ pins[Step(late)].machine = pins[s].machine
  <2>1. PlaceNext /\ ~Raise
    <3>1. CASE Repair \/ PlanNewOrders
      <4>1. placed' = Nothing
        BY <3>1 DEF Repair, PlanNewOrders, Begin
      <4> QED BY <4>1 DEF Nothing
    <3>2. CASE Raise \/ UNCHANGED vars
      BY <3>2 DEF Raise, vars, board
    <3> QED BY <1>1, <3>1, <3>2 DEF Next
  <2>2. PICK c \in Remaining : Earned(c) /\ \E p : Commit(c, p)
    BY <1>1, <2>1, TurnPlaces
  <2>3. s = Step(c) /\ s[1] = c
    <3>1. DOMAIN placed' = DOMAIN placed \cup {Step(c)}
      BY <2>2 DEF Commit
    <3> QED BY <3>1 DEF Step
  <2> QED BY <1>1, <2>2, <2>3 DEF Earned
<1>2. DecoderInv /\ [Next]_vars =>
                    [\A s \in DOMAIN placed' \ DOMAIN placed :
                       Queued(s) => \A k \in Remaining \ {s[1]} : Passed(k, s) =>
                          /\ Reached(s[1]) < Reached(k)
                          /\ \E late \in Remaining \ {s[1], k} :
                               Late(late) /\ pins[Step(late)].machine = pins[s].machine]_vars
  BY <1>1
<1> QED BY <1>2, DecoderSafe, PTL DEF Spec, PassedByTheReady

(* A repair keeps a published step that is owed on the machine it was published
   on, whatever became of the shop: _place_operation. *)
PinnedStays == \A s \in DOMAIN placed : Queued(s) => placed[s].machine = pins[s].machine
THEOREM RepairedOnItsMachine == Spec => []PinnedStays
<1>1. DecoderInv => PinnedStays
  BY DEF DecoderInv, Owing, PinnedStays, Queued
<1> QED BY <1>1, DecoderSafe, PTL
=============================================================================
