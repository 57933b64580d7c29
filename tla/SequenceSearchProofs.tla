------------------------ MODULE SequenceSearchProofs ------------------------
(***************************************************************************)
(* Proofs about SequenceSearch, for every set of orders, every score and     *)
(* every budget: the sorts, the moves and the crossover make sequences of    *)
(* every order once each, whatever is drawn; a search stays within its       *)
(* budget and answers with the best sequence it decoded; the planner's       *)
(* answer is no worse than the plan in force.                                *)
(***************************************************************************)
EXTENDS SequenceSearch, FiniteSetTheorems, SequenceTheorems, WellFoundedInduction, TLAPS

(* A set of numbers that is not empty has a least one. *)
LEMMA LeastNumber ==
  ASSUME NEW Nums \in SUBSET Nat, Nums # {}
  PROVE  \E n \in Nums : \A m \in Nums : n <= m
<1>1. PICK n \in Nums : \A m \in Nums : ~(<<m, n>> \in OpToRel(<, Nat))
  BY NatLessThanWellFounded, WFMin
<1>2. \A m \in Nums : ~(m < n)
  BY <1>1 DEF OpToRel
<1> QED BY <1>2

-----------------------------------------------------------------------------
(* Sequences of the members of a finite set, once each                      *)

(* As many numbers as members: every member has its place. *)
LEMMA EveryPlace ==
  ASSUME NEW S, IsFiniteSet(S), NEW s \in SetToSeqs(S), NEW x \in S
  PROVE  /\ \E i \in DOMAIN s : s[i] = x
         /\ DOMAIN s = 1..Cardinality(S) /\ Cardinality(S) \in Nat
<1> DEFINE n == Cardinality(S)
<1>1. n \in Nat
  BY FS_CardinalityType
<1>2. s \in [1..n -> S] /\ \A i, j \in 1..n : i # j => s[i] # s[j]
  BY DEF SetToSeqs
<1>3. s \in Injection(1..n, S)
  BY <1>2 DEF Injection, IsInjective
<1>4. Cardinality(1..n) = n
  BY <1>1, FS_Interval
<1>5. s \in Surjection(1..n, S)
  BY <1>3, <1>4, FS_Injection
<1> QED BY <1>1, <1>2, <1>5 DEF Surjection

(* Members that stand behind as many others as no other member does are      *)
(* sorted.                                                                  *)
LEMMA SortedFits ==
  ASSUME NEW S, IsFiniteSet(S), NEW ahead \in [S -> SUBSET S],
         \A x \in S : x \notin ahead[x],
         \A x, y \in S : x = y \/ x \in ahead[y] \/ y \in ahead[x],
         \A x, y, z \in S : x \in ahead[y] /\ y \in ahead[z] => x \in ahead[z]
  PROVE  Sorted(ahead) \in SetToSeqs(S)
<1> DEFINE n == Cardinality(S)
           rank == [x \in S |-> Cardinality(ahead[x])]
<1>1. n \in Nat
  BY FS_CardinalityType
<1>2. ASSUME NEW x \in S
      PROVE  rank[x] \in 0..(n - 1) /\ IsFiniteSet(ahead[x])
  <2>1. ahead[x] \in SUBSET S /\ ahead[x] # S
    OBVIOUS
  <2>2. IsFiniteSet(ahead[x]) /\ Cardinality(ahead[x]) <= n /\ Cardinality(ahead[x]) # n
    BY <2>1, FS_Subset
  <2> QED BY <1>1, <2>2, FS_CardinalityType
<1>3. ASSUME NEW x \in S, NEW y \in S, x \in ahead[y]
      PROVE  rank[x] < rank[y]
  <2>1. ahead[x] \in SUBSET ahead[y] /\ ahead[x] # ahead[y]
    BY <1>3
  <2>2. Cardinality(ahead[x]) <= Cardinality(ahead[y]) /\ Cardinality(ahead[x]) # Cardinality(ahead[y])
    BY <1>2, <2>1, FS_Subset
  <2> QED BY <1>2, <2>2
<1>4. rank \in Injection(S, 0..(n - 1))
  <2>1. rank \in [S -> 0..(n - 1)]
    BY <1>2
  <2>2. \A x, y \in S : x # y => rank[x] # rank[y]
    BY <1>2, <1>3
  <2> QED BY <2>1, <2>2 DEF Injection, IsInjective
<1>5. rank \in Surjection(S, 0..(n - 1))
  <2>1. IsFiniteSet(0..(n - 1)) /\ Cardinality(0..(n - 1)) = n
    BY <1>1, FS_Interval, SMTT(40)
  <2> QED BY <1>4, <2>1, FS_Injection
<1> DEFINE nth(i) == CHOOSE x \in S : Cardinality(ahead[x]) = i - 1
<1>6. ASSUME NEW i \in 1..n
      PROVE  nth(i) \in S /\ rank[nth(i)] = i - 1
  <2>1. i - 1 \in 0..(n - 1)
    BY <1>1
  <2>2. \E x \in S : rank[x] = i - 1
    BY <1>5, <2>1 DEF Surjection
  <2>3. \E x \in S : Cardinality(ahead[x]) = i - 1
    BY <2>2
  <2> QED BY <2>3
<1>7. Sorted(ahead) = [i \in 1..n |-> nth(i)]
  BY DEF Sorted
<1>8. [i \in 1..n |-> nth(i)] \in [1..n -> S]
  BY <1>6
<1> HIDE DEF nth
<1>9. ASSUME NEW i \in 1..n, NEW j \in 1..n, i # j
      PROVE  nth(i) # nth(j)
  <2> HIDE DEF rank
  <2>1. rank[nth(i)] = i - 1 /\ rank[nth(j)] = j - 1
    BY <1>6
  <2>2. i - 1 # j - 1
    BY <1>1, <1>9
  <2> QED BY <2>1, <2>2
<1> QED BY <1>7, <1>8, <1>9 DEF SetToSeqs

(* By is a sort, whatever the figures. *)
LEMMA ByFits ==
  ASSUME NEW S, IsFiniteSet(S), S \subseteq Int, NEW f \in [S -> Int]
  PROVE  By(f) \in SetToSeqs(S)
<1> DEFINE ahead == [o \in S |-> {p \in S : f[p] < f[o] \/ (f[p] = f[o] /\ p < o)}]
<1>1. ahead \in [S -> SUBSET S]
  OBVIOUS
<1>2. \A x \in S : x \notin ahead[x]
  OBVIOUS
<1>3. \A x, y \in S : x = y \/ x \in ahead[y] \/ y \in ahead[x]
  OBVIOUS
<1>4. \A x, y, z \in S : x \in ahead[y] /\ y \in ahead[z] => x \in ahead[z]
  OBVIOUS
<1>5. By(f) = Sorted(ahead)
  BY DEF By
<1> HIDE DEF ahead
<1>6. Sorted(ahead) \in SetToSeqs(S)
  BY <1>1, <1>2, <1>3, <1>4, SortedFits
<1> QED BY <1>5, <1>6

(* Taking members out keeps the others, once each. *)
LEMMA WithoutFits ==
  ASSUME NEW T, IsFiniteSet(T), T \subseteq Int, NEW s \in SetToSeqs(T), NEW S
  PROVE  Without(s, S) \in SetToSeqs(T \ S)
<1> DEFINE place == [o \in T \ S |-> CHOOSE i \in DOMAIN s : s[i] = o]
<1>1. Range(s) = T
  <2>1. DOMAIN s = 1..Cardinality(T) /\ s \in [1..Cardinality(T) -> T]
    BY DEF SetToSeqs
  <2>2. \A x \in T : \E i \in DOMAIN s : s[i] = x
    BY EveryPlace
  <2> QED BY <2>1, <2>2 DEF Range
<1>2. ASSUME NEW o \in T \ S
      PROVE  (CHOOSE i \in DOMAIN s : s[i] = o) \in Int
  <2>1. /\ \E i \in DOMAIN s : s[i] = o
        /\ DOMAIN s = 1..Cardinality(T) /\ Cardinality(T) \in Nat
    BY EveryPlace
  <2> QED BY <2>1
<1>3. place \in [T \ S -> Int]
  BY <1>2
<1>4. IsFiniteSet(T \ S)
  BY FS_Difference
<1>5. Without(s, S) = By(place)
  BY <1>1 DEF Without
<1> HIDE DEF place
<1>6. By(place) \in SetToSeqs(T \ S)
  BY <1>3, <1>4, ByFits
<1> QED BY <1>5, <1>6

(* Sequences of different sets, one after the other *)
LEMMA JoinFits ==
  ASSUME NEW A, NEW B, IsFiniteSet(A), IsFiniteSet(B), A \cap B = {},
         NEW a \in SetToSeqs(A), NEW b \in SetToSeqs(B)
  PROVE  a \o b \in SetToSeqs(A \cup B)
<1> DEFINE m == Cardinality(A)
           n == Cardinality(B)
<1>1. m \in Nat /\ n \in Nat
  BY FS_CardinalityType
<1>2. Cardinality(A \cup B) = m + n
  BY <1>1, FS_Union, FS_EmptySet
<1>3. /\ a \in [1..m -> A] /\ \A i, j \in 1..m : i # j => a[i] # a[j]
      /\ b \in [1..n -> B] /\ \A i, j \in 1..n : i # j => b[i] # b[j]
  BY DEF SetToSeqs
<1>4. a \in Seq(A \cup B) /\ b \in Seq(A \cup B) /\ Len(a) = m /\ Len(b) = n
  BY <1>1, <1>3
<1>5. /\ a \o b \in Seq(A \cup B) /\ Len(a \o b) = m + n
      /\ \A i \in 1..(m + n) : (a \o b)[i] = IF i <= m THEN a[i] ELSE b[i - m]
  <2>1. /\ a \o b \in Seq(A \cup B) /\ Len(a \o b) = Len(a) + Len(b)
        /\ \A i \in 1..(Len(a) + Len(b)) : (a \o b)[i] = IF i <= Len(a) THEN a[i] ELSE b[i - Len(a)]
    BY <1>4, ConcatProperties
  <2> QED BY <1>4, <2>1
<1> DEFINE c == a \o b
<1> HIDE DEF c, m, n
<1>6. c \in [1..(m + n) -> A \cup B]
  <2>1. c \in Seq(A \cup B) /\ Len(c) = m + n
    BY <1>5 DEF c
  <2> QED BY <2>1, LenProperties
<1>7. ASSUME NEW i \in 1..(m + n), NEW j \in 1..(m + n), i # j
      PROVE  c[i] # c[j]
  <2>1. /\ c[i] = (IF i <= m THEN a[i] ELSE b[i - m])
        /\ c[j] = (IF j <= m THEN a[j] ELSE b[j - m])
    BY <1>5 DEF c
  <2>2. i <= m \/ i - m \in 1..n
    BY <1>1
  <2>3. j <= m \/ j - m \in 1..n
    BY <1>1
  <2> QED BY <1>1, <1>3, <1>7, <2>1, <2>2, <2>3
<1>8. c \in SetToSeqs(A \cup B)
  BY <1>2, <1>6, <1>7 DEF SetToSeqs
<1> QED BY <1>8 DEF c

(* The number of orders, and what sequences of all of them are *)
LEMMA PermFacts ==
  /\ N \in Nat /\ IsFiniteSet(Orders)
  /\ \A s \in Perms : /\ s \in [1..N -> Orders] /\ s \in Seq(Orders) /\ Len(s) = N
                      /\ \A i, j \in 1..N : i # j => s[i] # s[j]
<1>1. N \in Nat /\ IsFiniteSet(Orders)
  BY SearchAssumption, FS_CardinalityType DEF N
<1>2. \A s \in Perms : /\ s \in [1..N -> Orders]
                       /\ \A i, j \in 1..N : i # j => s[i] # s[j]
  BY DEF Perms, SetToSeqs, N
<1>3. \A s \in [1..N -> Orders] : s \in Seq(Orders) /\ Len(s) = N
  BY <1>1
<1> QED BY <1>1, <1>2, <1>3

(* The textbook rules rank every order once. *)
LEMMA RulesFit ==
  /\ EddSequence \in Perms /\ SptSequence \in Perms
  /\ SlackSequence \in Perms /\ LptSequence \in Perms
<1>0. IsFiniteSet(Orders) /\ Orders \subseteq Int
  BY SearchAssumption
<1>1. Due \in [Orders -> Int] /\ Work \in [Orders -> Int] /\ MinPerDay \in Int
  BY SearchAssumption
<1>2. EddSequence \in Perms /\ SptSequence \in Perms
  BY <1>0, <1>1, ByFits DEF EddSequence, SptSequence, Perms
<1>3. SlackSequence \in Perms
  <2> DEFINE slack == [o \in Orders |-> Due[o] * MinPerDay - Work[o]]
  <2>1. slack \in [Orders -> Int]
    BY <1>1
  <2> HIDE DEF slack
  <2>2. By(slack) \in SetToSeqs(Orders)
    BY <1>0, <2>1, ByFits
  <2> QED BY <2>2 DEF slack, SlackSequence, Perms
<1>4. LptSequence \in Perms
  <2> DEFINE ahead == [o \in Orders |-> {p \in Orders :
                         \/ Work[p] > Work[o]
                         \/ Work[p] = Work[o] /\ (Due[p] < Due[o] \/ (Due[p] = Due[o] /\ p < o))}]
  <2>1. ahead \in [Orders -> SUBSET Orders]
    OBVIOUS
  <2>2. \A x \in Orders : x \notin ahead[x]
    BY <1>0, <1>1
  <2>3. \A x, y \in Orders : x = y \/ x \in ahead[y] \/ y \in ahead[x]
    BY <1>0, <1>1
  <2>4. \A x, y, z \in Orders : x \in ahead[y] /\ y \in ahead[z] => x \in ahead[z]
    BY <1>0, <1>1
  <2>5. LptSequence = Sorted(ahead)
    BY DEF LptSequence
  <2> HIDE DEF ahead
  <2>6. Sorted(ahead) \in SetToSeqs(Orders)
    BY <1>0, <2>1, <2>2, <2>3, <2>4, SortedFits
  <2> QED BY <2>5, <2>6 DEF Perms
<1> QED BY <1>2, <1>3, <1>4

(* So does a sequence with the orders that have a date brought to its head. *)
LEMMA HeadFirstFits ==
  ASSUME NEW due \in Musts, NEW base \in Perms
  PROVE  HeadFirst(due, base) \in Perms
<1>1. /\ DOMAIN due \subseteq Orders /\ due \in [DOMAIN due -> Int]
      /\ Orders \subseteq Int /\ IsFiniteSet(Orders)
  BY SearchAssumption
<1>2. IsFiniteSet(DOMAIN due) /\ IsFiniteSet(Orders \ DOMAIN due)
  BY <1>1, FS_Subset, FS_Difference
<1>3. By(due) \in SetToSeqs(DOMAIN due)
  BY <1>1, <1>2, ByFits
<1>4. Without(base, DOMAIN due) \in SetToSeqs(Orders \ DOMAIN due)
  BY <1>1, WithoutFits DEF Perms
<1>5. By(due) \o Without(base, DOMAIN due) \in SetToSeqs(DOMAIN due \cup (Orders \ DOMAIN due))
  BY <1>2, <1>3, <1>4, JoinFits
<1>6. DOMAIN due \cup (Orders \ DOMAIN due) = Orders
  BY <1>1
<1> QED BY <1>5, <1>6 DEF HeadFirst, Perms

-----------------------------------------------------------------------------
(* Moves                                                                    *)

(* Rearranging a sequence of every order once gives one. *)
LEMMA Rearranged ==
  ASSUME NEW s \in Perms, NEW p \in [1..N -> 1..N],
         \A i, j \in 1..N : i # j => p[i] # p[j],
         NEW t \in Seq(Orders), Len(t) = N, \A i \in 1..N : t[i] = s[p[i]]
  PROVE  t \in Perms
<1>1. N \in Nat
  BY PermFacts
<1>2. t \in [1..N -> Orders]
  BY LenProperties
<1>3. ASSUME NEW i \in 1..N, NEW j \in 1..N, i # j PROVE t[i] # t[j]
  <2>1. p[i] \in 1..N /\ p[j] \in 1..N /\ p[i] # p[j]
    BY <1>3
  <2>2. s[p[i]] # s[p[j]]
    BY <2>1, PermFacts
  <2> QED BY <2>2
<1> QED BY <1>2, <1>3 DEF Perms, SetToSeqs, N

(* A block of w orders taken out at i and put back at j *)
Spliced(s, i, j, w) ==
    LET rest == SubSeq(s, 1, i - 1) \o SubSeq(s, i + w, N)
    IN  SubSeq(rest, 1, j - 1) \o SubSeq(s, i, i + w - 1) \o SubSeq(rest, j, N - w)

(* What is left when the block is out *)
LEMMA RestOf ==
  ASSUME NEW s \in Perms, NEW w \in Nat, NEW i \in 1..(N - w + 1)
  PROVE  LET rest == SubSeq(s, 1, i - 1) \o SubSeq(s, i + w, N)
         IN  /\ rest \in Seq(Orders) /\ Len(rest) = N - w
             /\ \A k \in 1..(N - w) : rest[k] = s[IF k < i THEN k ELSE k + w]
<1>1. N \in Nat /\ s \in [1..N -> Orders]
  BY PermFacts
<1> DEFINE a == SubSeq(s, 1, i - 1)
           b == SubSeq(s, i + w, N)
<1>2. /\ a \in Seq(Orders) /\ Len(a) = i - 1
      /\ \A k \in 1..(i - 1) : a[k] = s[k]
  <2>1. \A k \in 1..(i - 1) : s[k] \in Orders
    BY <1>1
  <2>2. /\ a \in Seq(Orders) /\ Len(a) = (IF 1 <= i - 1 THEN i - 1 - 1 + 1 ELSE 0)
        /\ \A k \in 1..(i - 1 - 1 + 1) : a[k] = s[1 + k - 1]
    BY <1>1, <2>1, SubSeqProperties
  <2> HIDE DEF a
  <2> QED BY <1>1, <2>2
<1>3. /\ b \in Seq(Orders) /\ Len(b) = N - w - i + 1
      /\ \A k \in 1..(N - w - i + 1) : b[k] = s[i + w + k - 1]
  <2>1. \A k \in (i + w)..N : s[k] \in Orders
    BY <1>1
  <2>2. /\ b \in Seq(Orders) /\ Len(b) = (IF i + w <= N THEN N - (i + w) + 1 ELSE 0)
        /\ \A k \in 1..(N - (i + w) + 1) : b[k] = s[i + w + k - 1]
    BY <1>1, <2>1, SubSeqProperties
  <2> HIDE DEF b
  <2> QED BY <1>1, <2>2
<1> HIDE DEF a, b
<1>4. /\ a \o b \in Seq(Orders) /\ Len(a \o b) = Len(a) + Len(b)
      /\ \A k \in 1..(Len(a) + Len(b)) : (a \o b)[k] = IF k <= Len(a) THEN a[k] ELSE b[k - Len(a)]
  BY <1>2, <1>3, ConcatProperties
<1> DEFINE c == a \o b
<1> HIDE DEF c
<1>5. /\ c \in Seq(Orders) /\ Len(c) = N - w
      /\ \A k \in 1..(N - w) : c[k] = IF k <= i - 1 THEN a[k] ELSE b[k - (i - 1)]
  BY <1>1, <1>2, <1>3, <1>4 DEF c
<1>6. ASSUME NEW k \in 1..(N - w)
      PROVE  c[k] = s[IF k < i THEN k ELSE k + w]
  <2>1. CASE k < i
    BY <1>1, <1>2, <1>5, <2>1
  <2>2. CASE ~(k < i)
    <3>1. k - (i - 1) \in 1..(N - w - i + 1) /\ i + w + (k - (i - 1)) - 1 = k + w
      BY <1>1, <2>2
    <3>2. b[k - (i - 1)] = s[k + w]
      BY <1>3, <3>1
    <3> QED BY <1>1, <1>5, <2>2, <3>2
  <2> QED BY <2>1, <2>2
<1> QED BY <1>5, <1>6 DEF a, b, c

(* Taking a block out and putting it back rearranges a sequence. *)
LEMMA SplicedFits ==
  ASSUME NEW s \in Perms, NEW w \in Nat, NEW i \in 1..(N - w + 1), NEW j \in 1..(N - w + 1)
  PROVE  Spliced(s, i, j, w) \in Perms
<1> DEFINE rest == SubSeq(s, 1, i - 1) \o SubSeq(s, i + w, N)
           x == SubSeq(rest, 1, j - 1)
           y == SubSeq(s, i, i + w - 1)
           z == SubSeq(rest, j, N - w)
<1>1. N \in Nat /\ s \in [1..N -> Orders]
  BY PermFacts
<1>2. /\ rest \in Seq(Orders) /\ Len(rest) = N - w
      /\ \A k \in 1..(N - w) : rest[k] = s[IF k < i THEN k ELSE k + w]
  BY RestOf
<1>3. \A k \in 1..(N - w) : rest[k] \in Orders
  BY <1>2
<1> HIDE DEF rest
<1>4. /\ x \in Seq(Orders) /\ Len(x) = j - 1
      /\ \A k \in 1..(j - 1) : x[k] = rest[k]
  <2>1. \A k \in 1..(j - 1) : rest[k] \in Orders
    BY <1>1, <1>3
  <2>2. /\ x \in Seq(Orders) /\ Len(x) = (IF 1 <= j - 1 THEN j - 1 - 1 + 1 ELSE 0)
        /\ \A k \in 1..(j - 1 - 1 + 1) : x[k] = rest[1 + k - 1]
    BY <1>1, <2>1, SubSeqProperties
  <2> HIDE DEF x
  <2> QED BY <1>1, <2>2
<1>5. /\ y \in Seq(Orders) /\ Len(y) = w
      /\ \A k \in 1..w : y[k] = s[i + k - 1]
  <2>1. \A k \in i..(i + w - 1) : s[k] \in Orders
    BY <1>1
  <2>2. /\ y \in Seq(Orders) /\ Len(y) = (IF i <= i + w - 1 THEN i + w - 1 - i + 1 ELSE 0)
        /\ \A k \in 1..(i + w - 1 - i + 1) : y[k] = s[i + k - 1]
    BY <1>1, <2>1, SubSeqProperties
  <2> HIDE DEF y
  <2> QED BY <1>1, <2>2
<1>6. /\ z \in Seq(Orders) /\ Len(z) = N - w - j + 1
      /\ \A k \in 1..(N - w - j + 1) : z[k] = rest[j + k - 1]
  <2>1. \A k \in j..(N - w) : rest[k] \in Orders
    BY <1>1, <1>3
  <2>2. /\ z \in Seq(Orders) /\ Len(z) = (IF j <= N - w THEN N - w - j + 1 ELSE 0)
        /\ \A k \in 1..(N - w - j + 1) : z[k] = rest[j + k - 1]
    BY <1>1, <2>1, SubSeqProperties
  <2> HIDE DEF z
  <2> QED BY <1>1, <2>2
<1> HIDE DEF x, y, z
<1>7. /\ x \o y \in Seq(Orders) /\ Len(x \o y) = Len(x) + Len(y)
      /\ \A k \in 1..(Len(x) + Len(y)) : (x \o y)[k] = IF k <= Len(x) THEN x[k] ELSE y[k - Len(x)]
  BY <1>4, <1>5, ConcatProperties
<1> DEFINE u == x \o y
<1> HIDE DEF u
<1>8. /\ u \in Seq(Orders) /\ Len(u) = j + w - 1
      /\ \A k \in 1..(j + w - 1) : u[k] = IF k <= j - 1 THEN x[k] ELSE y[k - (j - 1)]
  BY <1>1, <1>4, <1>5, <1>7 DEF u
<1>9. /\ u \o z \in Seq(Orders) /\ Len(u \o z) = Len(u) + Len(z)
      /\ \A k \in 1..(Len(u) + Len(z)) : (u \o z)[k] = IF k <= Len(u) THEN u[k] ELSE z[k - Len(u)]
  BY <1>6, <1>8, ConcatProperties
<1> DEFINE t == u \o z
           p == [k \in 1..N |-> IF k < j THEN IF k < i THEN k ELSE k + w
                                ELSE IF k < j + w THEN i + (k - j)
                                ELSE IF k - w < i THEN k - w ELSE k]
<1> HIDE DEF t
<1>10. /\ t \in Seq(Orders) /\ Len(t) = N
       /\ \A k \in 1..N : t[k] = IF k <= j + w - 1 THEN u[k] ELSE z[k - (j + w - 1)]
  BY <1>1, <1>6, <1>8, <1>9, SMTT(40) DEF t
<1>11. p \in [1..N -> 1..N]
  BY <1>1
<1>12. \A k, l \in 1..N : k # l => p[k] # p[l]
  BY <1>1
<1>13. ASSUME NEW k \in 1..N
       PROVE  t[k] = s[p[k]]
  <2>1. CASE k < j
    <3>1. k \in 1..(j - 1) /\ k \in 1..(j + w - 1) /\ k \in 1..(N - w)
      BY <1>1, <2>1
    <3>2. t[k] = u[k] /\ u[k] = x[k] /\ x[k] = rest[k]
      BY <1>1, <1>4, <1>8, <1>10, <2>1, <3>1
    <3>3. rest[k] = s[IF k < i THEN k ELSE k + w]
      BY <1>2, <3>1
    <3> QED BY <2>1, <3>2, <3>3
  <2>2. CASE ~(k < j) /\ k < j + w
    <3>1. k \in 1..(j + w - 1) /\ k - (j - 1) \in 1..w /\ i + (k - (j - 1)) - 1 = i + (k - j)
      BY <1>1, <2>2
    <3>2. t[k] = u[k] /\ u[k] = y[k - (j - 1)]
      BY <1>1, <1>8, <1>10, <2>2, <3>1
    <3>3. y[k - (j - 1)] = s[i + (k - (j - 1)) - 1]
      BY <1>5, <3>1
    <3> QED BY <2>2, <3>1, <3>2, <3>3
  <2>3. CASE ~(k < j) /\ ~(k < j + w)
    <3>1. /\ k - (j + w - 1) \in 1..(N - w - j + 1) /\ j + (k - (j + w - 1)) - 1 = k - w
          /\ k - w \in 1..(N - w) /\ (k - w) + w = k /\ ~(k <= j + w - 1)
      BY <1>1, <2>3
    <3>2. t[k] = z[k - (j + w - 1)]
      BY <1>10, <3>1
    <3>3. z[k - (j + w - 1)] = rest[j + (k - (j + w - 1)) - 1]
      BY <1>6, <3>1
    <3>4. rest[k - w] = s[IF k - w < i THEN k - w ELSE (k - w) + w]
      BY <1>2, <3>1
    <3> QED BY <2>3, <3>1, <3>2, <3>3, <3>4
  <2> QED BY <2>1, <2>2, <2>3
<1> HIDE DEF p
<1>14. t \in Perms
  BY <1>10, <1>11, <1>12, <1>13, Rearranged
<1> QED BY <1>14 DEF t, u, x, y, z, rest, Spliced

(* The moves of the climbs, the kicks and the classic engine. *)
LEMMA MovesFit ==
  ASSUME NEW s \in Perms
  PROVE  /\ \A i, j \in 1..N : Move(s, i, j) \in Perms
         /\ \A i, j \in 1..N : Swap(s, i, j) \in Perms
         /\ \A i, j \in 1..(N - 3) : MoveBlock(s, i, j) \in Perms
<1>1. N \in Nat /\ s \in [1..N -> Orders] /\ s \in Seq(Orders) /\ Len(s) = N
  BY PermFacts
<1>2. ASSUME NEW i \in 1..N, NEW j \in 1..N
      PROVE  Move(s, i, j) \in Perms
  <2>0. i \in 1..(N - 1 + 1) /\ j \in 1..(N - 1 + 1)
    BY <1>1
  <2> DEFINE rest == SubSeq(s, 1, i - 1) \o SubSeq(s, i + 1, N)
  <2>1. Len(rest) = N - 1
    BY <2>0, RestOf
  <2>2. SubSeq(s, i, i + 1 - 1) = <<s[i]>>
    <3> DEFINE y == SubSeq(s, i, i + 1 - 1)
    <3>1. \A k \in i..(i + 1 - 1) : s[k] \in Orders
      BY <1>1
    <3>2. /\ y \in Seq(Orders) /\ Len(y) = (IF i <= i + 1 - 1 THEN i + 1 - 1 - i + 1 ELSE 0)
          /\ \A k \in 1..(i + 1 - 1 - i + 1) : y[k] = s[i + k - 1]
      BY <1>1, <3>1, SubSeqProperties
    <3> HIDE DEF y
    <3>3. Len(y) = 1 /\ y[1] = s[i] /\ s[i] \in Orders
      BY <1>1, <3>2
    <3>4. y = <<s[i]>>
      BY <3>2, <3>3
    <3> QED BY <3>4 DEF y
  <2>3. Spliced(s, i, j, 1) \in Perms
    BY <2>0, SplicedFits
  <2>4. Move(s, i, j) = SubSeq(rest, 1, j - 1) \o <<s[i]>> \o SubSeq(rest, j, Len(rest))
    BY <1>1 DEF Move, InsertAt, RemoveAt
  <2>5. Spliced(s, i, j, 1) = SubSeq(rest, 1, j - 1) \o SubSeq(s, i, i + 1 - 1) \o SubSeq(rest, j, N - 1)
    BY DEF Spliced
  <2> HIDE DEF rest
  <2> QED BY <2>1, <2>2, <2>3, <2>4, <2>5
<1>3. ASSUME NEW i \in 1..N, NEW j \in 1..N
      PROVE  Swap(s, i, j) \in Perms
  <2> DEFINE p == [k \in 1..N |-> IF k = i THEN j ELSE IF k = j THEN i ELSE k]
             t == Swap(s, i, j)
  <2>1. p \in [1..N -> 1..N] /\ \A k, l \in 1..N : k # l => p[k] # p[l]
    OBVIOUS
  <2>2. t \in [1..N -> Orders] /\ \A k \in 1..N : t[k] = s[p[k]]
    BY <1>1 DEF Swap
  <2> HIDE DEF t, p
  <2>3. t \in Seq(Orders) /\ Len(t) = N
    BY <1>1, <2>2
  <2>4. t \in Perms
    BY <2>1, <2>2, <2>3, Rearranged
  <2> QED BY <2>4 DEF t
<1>4. ASSUME NEW i \in 1..(N - 3), NEW j \in 1..(N - 3)
      PROVE  MoveBlock(s, i, j) \in Perms
  <2>0. i \in 1..(N - 3 + 1) /\ j \in 1..(N - 3 + 1) /\ i + 3 - 1 = i + 2
    BY <1>1
  <2>1. Spliced(s, i, j, 3) \in Perms
    BY <2>0, SplicedFits
  <2>2. MoveBlock(s, i, j) = Spliced(s, i, j, 3)
    BY <2>0 DEF MoveBlock, Spliced
  <2> QED BY <2>1, <2>2
<1> QED BY <1>2, <1>3, <1>4

(* A child of two sequences ranks every order once. *)
LEMMA CrossoverFits ==
  ASSUME NEW p \in Perms, NEW q \in Perms, NEW a \in 1..(N - 1), NEW b \in 1..(N - 1), a <= b
  PROVE  Crossover(p, q, a, b) \in Perms
<1>1. /\ N \in Nat /\ IsFiniteSet(Orders) /\ Orders \subseteq Int
      /\ p \in [1..N -> Orders] /\ \A i, j \in 1..N : i # j => p[i] # p[j]
  BY PermFacts, SearchAssumption
<1>2. CASE N < 3
  BY <1>2 DEF Crossover
<1>3. CASE ~(N < 3)
  <2> DEFINE kept == {p[i] : i \in a..b}
             fill == Without(q, kept)
             m == Cardinality(Orders \ kept)
             place == [i \in 1..N |-> IF i > b THEN i - b ELSE i + (N - b)]
             child == [i \in 1..N |-> IF i \in a..b THEN p[i] ELSE fill[place[i]]]
  <2>1. kept \subseteq Orders
    BY <1>1
  <2>2. Cardinality(kept) = b - a + 1 /\ IsFiniteSet(kept)
    <3> DEFINE f == [i \in a..b |-> p[i]]
    <3>1. f \in Injection(a..b, kept) /\ f \in Surjection(a..b, kept)
      BY <1>1 DEF Injection, Surjection, IsInjective
    <3>2. IsFiniteSet(a..b) /\ Cardinality(a..b) = b - a + 1
      BY FS_Interval
    <3> HIDE DEF f, kept
    <3> QED BY <3>1, <3>2, FS_Surjection
  <2>3. m = N - (b - a + 1) /\ IsFiniteSet(Orders \ kept)
    <3>1. Orders \cap kept = kept
      BY <2>1
    <3> HIDE DEF kept
    <3>2. /\ IsFiniteSet(Orders \ kept)
          /\ Cardinality(Orders \ kept) = Cardinality(Orders) - Cardinality(Orders \cap kept)
      BY <1>1, FS_Difference
    <3> QED BY <2>2, <3>1, <3>2 DEF N
  <2>4. fill \in SetToSeqs(Orders \ kept)
    <3> HIDE DEF kept
    <3> QED BY <1>1, WithoutFits DEF Perms
  <2>5. fill \in [1..m -> Orders \ kept] /\ \A i, j \in 1..m : i # j => fill[i] # fill[j]
    BY <2>4 DEF SetToSeqs
  <2>6. \A i \in 1..N : i \notin a..b => place[i] \in 1..m
    BY <1>1, <2>3
  <2>7. \A i, j \in 1..N : i # j /\ i \notin a..b /\ j \notin a..b => place[i] # place[j]
    BY <1>1
  <2>8. \A i \in a..b : p[i] \in kept /\ i \in 1..N
    BY <1>1
  <2> HIDE DEF fill, m, place, kept
  <2>9. child \in [1..N -> Orders]
    <3>1. ASSUME NEW i \in 1..N
          PROVE  (IF i \in a..b THEN p[i] ELSE fill[place[i]]) \in Orders
      BY <1>1, <2>1, <2>5, <2>6
    <3> QED BY <3>1
  <2>10. ASSUME NEW i \in 1..N, NEW j \in 1..N, i # j
         PROVE  child[i] # child[j]
    <3>1. CASE i \in a..b /\ j \in a..b
      BY <1>1, <2>10, <3>1
    <3>2. CASE i \in a..b /\ j \notin a..b
      BY <2>5, <2>6, <2>8, <3>2
    <3>3. CASE i \notin a..b /\ j \in a..b
      BY <2>5, <2>6, <2>8, <3>3
    <3>4. CASE i \notin a..b /\ j \notin a..b
      BY <2>5, <2>6, <2>7, <2>10, <3>4
    <3> QED BY <3>1, <3>2, <3>3, <3>4
  <2>11. Crossover(p, q, a, b) = child
    BY <1>3 DEF Crossover, child, fill, kept, place
  <2> HIDE DEF child
  <2> QED BY <2>9, <2>10, <2>11 DEF Perms, SetToSeqs, N
<1> QED BY <1>2, <1>3

(* The sequence a search is to be compared with: the plan in force when it   *)
(* is complete, else the first rule's.                                      *)
Base(s) == IF Complete(s) THEN Known(s) ELSE EddSequence

(* The seeds rank every order once, and the first of them is the base, or    *)
(* the base with the dated orders at its head.                              *)
LEMMA SeedsFit ==
  ASSUME NEW s, NEW due \in Musts
  PROVE  /\ Seeds(s, due) \in Seq(Perms) /\ Seeds(s, due) # <<>>
         /\ Seeds(s, due)[1] = IF DOMAIN due = {} THEN Base(s) ELSE HeadFirst(due, Base(s))
<1> DEFINE rules == <<EddSequence, SptSequence, SlackSequence, LptSequence>>
           first == IF DOMAIN due = {} THEN <<>>
                    ELSE <<HeadFirst(due, Head(Incumbent(s) \o <<EddSequence>>))>>
<1>1. rules \in Seq(Perms) /\ Len(rules) = 4 /\ rules[1] = EddSequence
  BY RulesFit
<1>2. Base(s) \in Perms
  BY RulesFit DEF Base, Complete
<1>3. /\ Incumbent(s) \in Seq(Perms)
      /\ Incumbent(s) = IF Complete(s) THEN <<Known(s)>> ELSE <<>>
  BY DEF Incumbent, Complete
<1>4. Head(Incumbent(s) \o <<EddSequence>>) = Base(s)
  <2>1. CASE Complete(s)
    BY <1>3, <2>1, RulesFit DEF Base
  <2>2. CASE ~Complete(s)
    BY <1>3, <2>2, RulesFit DEF Base
  <2> QED BY <2>1, <2>2
<1>5. HeadFirst(due, Base(s)) \in Perms
  BY <1>2, HeadFirstFits
<1>6. /\ first \in Seq(Perms)
      /\ first = IF DOMAIN due = {} THEN <<>> ELSE <<HeadFirst(due, Base(s))>>
  BY <1>4, <1>5
<1>7. Seeds(s, due) = first \o Incumbent(s) \o rules
  BY DEF Seeds
<1> HIDE DEF rules, first
<1> DEFINE u == first \o Incumbent(s)
<1>8. /\ u \in Seq(Perms) /\ Len(u) = Len(first) + Len(Incumbent(s))
      /\ \A i \in 1..(Len(first) + Len(Incumbent(s))) :
            u[i] = IF i <= Len(first) THEN first[i] ELSE Incumbent(s)[i - Len(first)]
  BY <1>3, <1>6, ConcatProperties
<1> HIDE DEF u
<1>9. /\ u \o rules \in Seq(Perms) /\ Len(u \o rules) = Len(u) + Len(rules)
      /\ \A i \in 1..(Len(u) + Len(rules)) :
            (u \o rules)[i] = IF i <= Len(u) THEN u[i] ELSE rules[i - Len(u)]
  <2>1. u \in Seq(Perms) /\ rules \in Seq(Perms)
    BY <1>1, <1>8
  <2> QED BY <2>1, ConcatProperties
<1>10. (u \o rules)[1] = IF DOMAIN due = {} THEN Base(s) ELSE HeadFirst(due, Base(s))
  <2>1. CASE DOMAIN due # {}
    <3>1. Len(first) = 1 /\ first[1] = HeadFirst(due, Base(s)) /\ Len(Incumbent(s)) \in Nat
      BY <1>3, <1>6, <2>1
    <3> QED BY <1>1, <1>8, <1>9, <2>1, <3>1
  <2>2. CASE DOMAIN due = {} /\ Complete(s)
    <3>1. Len(first) = 0 /\ Len(Incumbent(s)) = 1 /\ Incumbent(s)[1] = Base(s)
      BY <1>3, <1>6, <2>2 DEF Base
    <3> QED BY <1>1, <1>8, <1>9, <2>2, <3>1
  <2>3. CASE DOMAIN due = {} /\ ~Complete(s)
    <3>1. Len(first) = 0 /\ Len(Incumbent(s)) = 0 /\ rules[1] = Base(s)
      BY <1>1, <1>3, <1>6, <2>3 DEF Base
    <3> QED BY <1>1, <1>8, <1>9, <2>3, <3>1
  <2> QED BY <2>1, <2>2, <2>3
<1>11. Len(u \o rules) # 0
  BY <1>1, <1>8, <1>9
<1> QED BY <1>7, <1>9, <1>10, <1>11 DEF u

-----------------------------------------------------------------------------
(* The inductive invariant                                                  *)

Leads(s, T) == \A t \in T : ~Better(t, s)

SearchTypes ==
    /\ TypeOK /\ kind \in Kinds /\ budget \in Nat /\ score \in [Perms -> Int]
    /\ seeds \in Seq(Perms) /\ pop \in Seq(Perms) /\ pop # <<>>
    /\ evals \in Nat /\ limit \in Nat
    /\ at # "seeds" => best \in Perms /\ cur \in Perms

(* While the seeds are decoded the best leads, and what is left to decode    *)
(* was promised when the search began.                                      *)
Seeding ==
    at = "seeds" =>
        /\ seeds # <<>> /\ evals + Len(seeds) <= Len(pop)
        /\ seen = {} => seeds = pop /\ best = <<>>
        /\ seen # {} => best \in seen /\ Leads(best, seen)
        /\ kind = "memetic" => Range(pop) = seen \cup Range(seeds)

(* The planner's first seed is decoded whatever happens, and nobody stops    *)
(* the memetic search.                                                      *)
FirstSeed ==
    /\ kind = "ils" => /\ must \in Musts /\ pop = Seeds(force, must)
                       /\ (at # "seeds" \/ seen # {}) => pop[1] \in seen
    /\ kind = "memetic" => ~stop

(* Nothing that was decoded is ahead of the best, during a climb of both the *)
(* best and the sequence the climb stands on.                               *)
Leading ==
    /\ at \in {"round", "done"} => Leads(best, seen)
    /\ at = "climb" /\ kind = "classic" => Leads(best, seen) /\ cur \in seen
    /\ at = "climb" /\ kind # "classic" =>
           /\ limit <= budget
           /\ \A t \in seen : ~Better(t, best) \/ ~Better(t, cur)

Spent == at # "seeds" => evals <= budget \/ evals <= Len(pop)

(* The population keeps the best sequence's score, during the climbs too.    *)
Elite ==
    kind = "memetic" /\ at # "seeds" =>
        /\ \E s \in Range(pop) : score[s] = score[best]
        /\ Leads(best, Range(pop))

SearchInv == SearchTypes /\ Seeding /\ FirstSeed /\ Leading /\ Spent /\ Elite

(* The greater and the lesser of two numbers *)
LEMMA OfTwo ==
  ASSUME NEW a \in Nat, NEW b \in Nat
  PROVE  /\ Min({a, b}) \in Nat /\ Min({a, b}) <= a
         /\ Max({a, b}) \in Nat /\ Max({a, b}) >= a /\ Max({a, b}) >= b
<1>1. \E x \in {a, b} : \A y \in {a, b} : x <= y
  OBVIOUS
<1>2. Min({a, b}) \in {a, b} /\ \A y \in {a, b} : Min({a, b}) <= y
  BY <1>1 DEF Min
<1>3. \E x \in {a, b} : \A y \in {a, b} : x >= y
  OBVIOUS
<1>4. Max({a, b}) \in {a, b} /\ \A y \in {a, b} : Max({a, b}) >= y
  BY <1>3 DEF Max
<1> QED BY <1>2, <1>4

(* Decoding a sequence counts at most once. *)
LEMMA Decoded ==
  ASSUME SearchTypes, NEW s \in Perms, Evaluates(s)
  PROVE  /\ seen' = seen \cup {s} /\ seen' \subseteq Perms
         /\ evals' \in Nat /\ evals <= evals' /\ evals' <= evals + 1
BY DEF Evaluates, SearchTypes, TypeOK

(* What a search begins with *)
LEMMA Begins ==
  ASSUME Init
  PROVE  SearchInv
<1>1. /\ kind \in Kinds /\ budget \in Nat /\ score \in [Perms -> Int]
      /\ pop = seeds /\ seen = {} /\ evals = 0 /\ best = <<>> /\ cur = <<>>
      /\ untried = {} /\ limit = 0 /\ stop = FALSE /\ at = "seeds"
  BY SearchAssumption DEF Init
<1>2. kind \in {"ils", "memetic", "classic"}
  BY <1>1, SearchAssumption
<1>3. /\ seeds \in Seq(Perms) /\ seeds # <<>>
      /\ kind = "ils" => must \in Musts /\ seeds = Seeds(force, must)
  <2>1. CASE kind = "ils"
    <3>1. must \in Musts /\ seeds = Seeds(force, must)
      BY <2>1 DEF Init
    <3> QED BY <3>1, SeedsFit
  <2>2. CASE kind = "memetic"
    <3> DEFINE rules == <<EddSequence, SptSequence, SlackSequence>>
    <3>1. PICK fill \in [1..(PopSize - 3) -> Perms] : seeds = rules \o fill
      BY <2>2 DEF Init
    <3>2. fill \in Seq(Perms)
      <4>1. PopSize \in Nat
        BY SearchAssumption
      <4>2. CASE PopSize - 3 \in Nat
        BY <4>2
      <4>3. CASE PopSize < 3
        <5>1. 1..(PopSize - 3) = {} /\ 1..0 = {}
          BY <4>1, <4>3
        <5>2. fill \in [1..0 -> Perms]
          BY <5>1
        <5> QED BY <5>2
      <4> QED BY <4>1, <4>2, <4>3
    <3>3. rules \in Seq(Perms) /\ Len(rules) = 3
      BY RulesFit
    <3> HIDE DEF rules
    <3>4. rules \o fill \in Seq(Perms) /\ Len(rules \o fill) = Len(rules) + Len(fill)
      BY <3>2, <3>3, ConcatProperties
    <3>5. Len(rules \o fill) # 0
      BY <3>2, <3>3, <3>4
    <3> QED BY <2>2, <3>1, <3>4, <3>5
  <2>3. CASE kind = "classic"
    <3>1. seeds = <<EddSequence>>
      BY <2>3 DEF Init
    <3> QED BY <2>3, <3>1, RulesFit
  <2> QED BY <1>2, <2>1, <2>2, <2>3
<1>4. Range(pop) \subseteq Perms
  BY <1>1, <1>3 DEF Range
<1>5. SearchTypes
  BY <1>1, <1>3, <1>4 DEF SearchTypes, TypeOK
<1>6. Seeding
  BY <1>1, <1>3 DEF Seeding
<1>7. FirstSeed /\ Leading /\ Spent /\ Elite
  BY <1>1, <1>3 DEF FirstSeed, Leading, Spent, Elite
<1> QED BY <1>5, <1>6, <1>7 DEF SearchInv

(* Scores are numbers, and of two sequences one is not better. *)
LEMMA Scores ==
  ASSUME SearchTypes
  PROVE  /\ \A s \in Perms : score[s] \in Int
         /\ \A s, t \in Perms : /\ BestOf(s, t) \in {s, t}
                                /\ score[BestOf(s, t)] <= score[s]
                                /\ score[BestOf(s, t)] <= score[t]
BY DEF SearchTypes, BestOf, Better

(* A seed is decoded. *)
LEMMA SeedStep ==
  ASSUME SearchInv, TrySeed
  PROVE  SearchInv'
<1>0. /\ SearchTypes /\ Seeding /\ FirstSeed /\ Leading /\ Spent /\ Elite /\ at = "seeds"
      /\ UNCHANGED <<kind, force, must, budget, score, untried, limit, pop, stop>>
  BY DEF SearchInv, TrySeed, given
<1> DEFINE s == Head(seeds)
<1>1. /\ s \in Perms /\ Tail(seeds) \in Seq(Perms) /\ Len(Tail(seeds)) = Len(seeds) - 1
      /\ Len(seeds) \in Nat /\ s = seeds[1]
  <2>1. seeds \in Seq(Perms) /\ seeds # <<>>
    BY <1>0 DEF SearchTypes, Seeding
  <2> QED BY <2>1, HeadTailProperties
<1>2. /\ seen' = seen \cup {s} /\ seen' \subseteq Perms
      /\ evals' \in Nat /\ evals <= evals' /\ evals' <= evals + 1
  BY <1>0, <1>1, Decoded DEF TrySeed
<1>3. /\ best' = IF best = <<>> \/ Better(s, best) THEN s ELSE best
      /\ seeds' = Tail(seeds)
      /\ IF Tail(seeds) = <<>> \/ stop THEN at' = "round" /\ cur' = best'
                                       ELSE at' = at /\ UNCHANGED cur
  BY DEF TrySeed
<1> HIDE DEF s
<1>4. best' \in seen' /\ best' \in Perms /\ \A t \in seen' : score[best'] <= score[t]
  <2>1. \A t \in Perms : score[t] \in Int
    BY <1>0, Scores
  <2>2. CASE seen = {}
    <3>1. best' = s
      BY <1>0, <1>3, <2>2 DEF Seeding
    <3> QED BY <1>1, <1>2, <2>1, <2>2, <3>1
  <2>3. CASE seen # {}
    <3>1. best \in seen /\ best \in Perms /\ \A t \in seen : score[best] <= score[t] /\ t \in Perms
      BY <1>0, <2>1, <2>3 DEF Seeding, Leads, Better, SearchTypes, TypeOK
    <3>2. CASE best = <<>>
      <4>1. \A t \in Perms : t = <<>>
        <5>1. N \in Nat /\ N = 0
          BY <3>1, <3>2, PermFacts
        <5> QED BY <5>1, PermFacts
      <4> QED BY <1>1, <1>2, <1>3, <2>1, <3>1, <3>2, <4>1
    <3>3. CASE best # <<>>
      BY <1>1, <1>2, <1>3, <2>1, <3>1, <3>3 DEF Better
    <3> QED BY <3>2, <3>3
  <2> QED BY <2>2, <2>3
<1>5. Leads(best, seen)'
  <2>1. \A t \in seen' : ~(score[t] < score[best'])
    BY <1>0, <1>2, <1>4, Scores
  <2> QED BY <1>0, <2>1 DEF Leads, Better
<1>6. SearchTypes'
  <2>1. TypeOK'
    BY <1>0, <1>2, <1>3, <1>4 DEF SearchTypes, TypeOK
  <2>2. (at # "seeds" => best \in Perms /\ cur \in Perms)'
    BY <1>0, <1>3, <1>4
  <2> QED BY <1>0, <1>1, <1>2, <1>3, <2>1, <2>2 DEF SearchTypes
<1>7. Range(seeds) = {s} \cup Range(Tail(seeds))
  <2>1. /\ \A i \in 1..Len(Tail(seeds)) : Tail(seeds)[i] = seeds[i + 1]
        /\ DOMAIN seeds = 1..Len(seeds) /\ DOMAIN Tail(seeds) = 1..Len(Tail(seeds))
    <3>1. seeds \in Seq(Perms) /\ seeds # <<>>
      BY <1>0 DEF SearchTypes, Seeding
    <3> QED BY <1>1, <3>1, HeadTailProperties, LenProperties
  <2>2. ASSUME NEW i \in 1..Len(seeds)
        PROVE  seeds[i] \in {s} \cup Range(Tail(seeds))
    <3>1. i = 1 \/ i - 1 \in 1..Len(Tail(seeds))
      BY <1>1
    <3>2. i - 1 \in 1..Len(Tail(seeds)) => Tail(seeds)[i - 1] = seeds[i]
      BY <1>1, <2>1
    <3> QED BY <1>1, <2>1, <3>1, <3>2 DEF Range
  <2>3. ASSUME NEW i \in 1..Len(Tail(seeds))
        PROVE  Tail(seeds)[i] \in Range(seeds)
    <3>1. i + 1 \in 1..Len(seeds)
      BY <1>1
    <3> QED BY <2>1, <3>1 DEF Range
  <2>4. s \in Range(seeds)
    <3>1. 1 \in 1..Len(seeds)
      <4>1. Len(seeds) # 0
        BY <1>0 DEF SearchTypes, Seeding
      <4> QED BY <1>1, <4>1
    <3> QED BY <1>1, <2>1, <3>1 DEF Range
  <2> QED BY <2>1, <2>2, <2>3, <2>4 DEF Range
<1>8. evals' + Len(seeds') <= Len(pop') /\ Len(pop) \in Nat
  BY <1>0, <1>1, <1>2, <1>3 DEF Seeding, SearchTypes
<1>9. Seeding'
  <2>1. kind = "memetic" => Range(pop') = seen' \cup Range(seeds')
    BY <1>0, <1>2, <1>3, <1>7 DEF Seeding
  <2>2. at' = "seeds" => seeds' # <<>>
    BY <1>0, <1>3
  <2> QED BY <1>0, <1>2, <1>4, <1>5, <1>8, <2>1, <2>2 DEF Seeding
<1>10. FirstSeed'
  <2>1. ASSUME kind = "ils" PROVE pop[1] \in seen'
    <3>1. seen = {} => s = pop[1]
      BY <1>0, <1>1 DEF Seeding
    <3> QED BY <1>0, <1>2, <2>1, <3>1 DEF FirstSeed
  <2> QED BY <1>0, <2>1 DEF FirstSeed
<1>11. Leading'
  BY <1>0, <1>3, <1>5 DEF Leading
<1>12. Spent'
  <2>1. evals' <= Len(pop')
    <3>1. Len(seeds') \in Nat
      BY <1>1, <1>3
    <3>2. evals' \in Nat
      BY <1>2
    <3> QED BY <1>0, <1>8, <3>1, <3>2
  <2> QED BY <2>1 DEF Spent
<1>13. Elite'
  <2> SUFFICES ASSUME kind = "memetic", at' # "seeds"
               PROVE  Range(pop) = seen'
    BY <1>0, <1>4, <1>5 DEF Elite
  <2>1. ~stop /\ Tail(seeds) = <<>>
    BY <1>0, <1>3 DEF FirstSeed
  <2>2. Range(seeds) = {s}
    BY <1>7, <2>1 DEF Range
  <2> QED BY <1>0, <1>2, <2>2 DEF Seeding
<1> QED BY <1>6, <1>9, <1>10, <1>11, <1>12, <1>13 DEF SearchInv

(* A climb begins: its first sequence is decoded. *)
LEMMA ClimbStep ==
  ASSUME SearchInv, at = "round", kind # "classic", MayGoOn,
         NEW s \in Perms, NEW n \in Nat, n <= budget, ClimbFrom(s, n),
         UNCHANGED <<given, seeds, best, pop, idle, stop>>
  PROVE  SearchInv'
<1>0. /\ SearchTypes /\ FirstSeed /\ Leading /\ Elite
      /\ at' = "climb" /\ cur' = s /\ limit' = n /\ untried' = EarlierMoves /\ Evaluates(s)
      /\ UNCHANGED <<kind, force, must, budget, score, seeds, best, pop, idle, stop>>
  BY DEF SearchInv, ClimbFrom, given
<1>1. /\ seen' = seen \cup {s} /\ seen' \subseteq Perms
      /\ evals' \in Nat /\ evals <= evals' /\ evals' <= evals + 1
  BY <1>0, Decoded
<1>2. /\ evals \in Nat /\ budget \in Nat /\ evals < budget
      /\ best \in Perms /\ score \in [Perms -> Int]
  BY <1>0 DEF SearchTypes, MayGoOn
<1>3. SearchTypes'
  BY <1>0, <1>1 DEF SearchTypes, TypeOK
<1>4. Seeding' /\ FirstSeed' /\ Elite'
  BY <1>0, <1>1 DEF Seeding, FirstSeed, Elite, Leads, Better
<1>5. Leading'
  <2>1. \A t \in seen' : ~(score[t] < score[best]) \/ ~(score[t] < score[s])
    BY <1>0, <1>1, <1>2 DEF Leading, Leads, Better
  <2> QED BY <1>0, <2>1 DEF Leading, Better
<1>6. Spent'
  BY <1>0, <1>1, <1>2 DEF Spent
<1> QED BY <1>3, <1>4, <1>5, <1>6 DEF SearchInv

(* The planner's round and the memetic search's child begin so. *)
LEMMA RoundStep ==
  ASSUME SearchInv, IlsRound \/ Breed
  PROVE  SearchInv'
<1>1. SearchTypes /\ budget \in Nat /\ Polish \in Nat /\ evals \in Nat
  BY SearchAssumption DEF SearchInv, SearchTypes
<1>2. CASE IlsRound
  <2>1. /\ at = "round" /\ kind # "classic" /\ MayGoOn /\ ClimbFrom(cur, budget)
        /\ UNCHANGED <<given, seeds, best, pop, idle, stop>>
    BY <1>2 DEF IlsRound
  <2>2. cur \in Perms
    BY <1>1, <2>1 DEF SearchTypes
  <2> QED BY <1>1, <2>1, <2>2, ClimbStep
<1>3. CASE Breed
  <2>1. /\ at = "round" /\ kind # "classic" /\ MayGoOn
        /\ UNCHANGED <<given, seeds, best, pop, idle, stop>>
    BY <1>3 DEF Breed
  <2> DEFINE n == Min({budget, evals + Polish})
  <2>2. n \in Nat /\ n <= budget
    <3>1. evals + Polish \in Nat
      BY <1>1
    <3> QED BY <1>1, <3>1, OfTwo
  <2>3. PICK p \in Range(pop), q \in Range(pop), a \in 1..(N - 1), b \in 1..(N - 1) :
          /\ a <= b
          /\ \/ ClimbFrom(Crossover(p, q, a, b), n)
             \/ \E i, j \in 1..N : ClimbFrom(Swap(Crossover(p, q, a, b), i, j), n)
    BY <1>3 DEF Breed
  <2>4. Crossover(p, q, a, b) \in Perms
    <3>1. p \in Perms /\ q \in Perms
      BY <1>1 DEF SearchTypes, TypeOK
    <3> QED BY <2>3, <3>1, CrossoverFits
  <2> HIDE DEF n
  <2>5. CASE ClimbFrom(Crossover(p, q, a, b), n)
    BY <2>1, <2>2, <2>4, <2>5, ClimbStep
  <2>6. CASE \E i, j \in 1..N : ClimbFrom(Swap(Crossover(p, q, a, b), i, j), n)
    <3>1. PICK i \in 1..N, j \in 1..N : ClimbFrom(Swap(Crossover(p, q, a, b), i, j), n)
      BY <2>6
    <3>2. Swap(Crossover(p, q, a, b), i, j) \in Perms
      BY <2>4, MovesFit
    <3> QED BY <2>1, <2>2, <3>1, <3>2, ClimbStep
  <2> QED BY <2>3, <2>5, <2>6
<1> QED BY <1>2, <1>3

(* A move of the climb is tried. *)
LEMMA TryStep ==
  ASSUME SearchInv, TryMove
  PROVE  SearchInv'
<1>0. /\ SearchTypes /\ Leading /\ FirstSeed /\ Elite
      /\ at = "climb" /\ at' = "climb" /\ kind # "classic" /\ evals < limit
      /\ UNCHANGED <<kind, force, must, budget, score, seeds, best, limit, pop, stop>>
  BY DEF SearchInv, TryMove, given
<1>1. PICK m \in untried : LET s == Move(cur, m[1], m[2]) IN
           /\ Evaluates(s) /\ cur' = BestOf(s, cur)
           /\ untried' = IF Better(s, cur) THEN EarlierMoves ELSE untried \ {m}
  BY DEF TryMove
<1> DEFINE s == Move(cur, m[1], m[2])
<1>2. s \in Perms /\ cur \in Perms /\ best \in Perms
  <2>1. cur \in Perms /\ best \in Perms /\ untried \subseteq EarlierMoves
    BY <1>0 DEF SearchTypes, TypeOK
  <2>2. m[1] \in 1..N /\ m[2] \in 1..N
    BY <1>1, <2>1 DEF EarlierMoves
  <2> QED BY <2>1, <2>2, MovesFit
<1>3. /\ Evaluates(s) /\ cur' = BestOf(s, cur)
      /\ untried' \subseteq EarlierMoves
  BY <1>0, <1>1 DEF SearchTypes, TypeOK
<1> HIDE DEF s
<1>4. /\ seen' = seen \cup {s} /\ seen' \subseteq Perms
      /\ evals' \in Nat /\ evals <= evals' /\ evals' <= evals + 1
  BY <1>0, <1>2, <1>3, Decoded
<1>5. /\ cur' \in Perms /\ score[cur'] <= score[s] /\ score[cur'] <= score[cur]
      /\ \A t \in Perms : score[t] \in Int
  <2>1. BestOf(s, cur) \in {s, cur}
    BY <1>0, <1>2, Scores
  <2> QED BY <1>0, <1>2, <1>3, <2>1, Scores
<1>6. SearchTypes'
  BY <1>0, <1>3, <1>4, <1>5 DEF SearchTypes, TypeOK
<1>7. Seeding' /\ FirstSeed' /\ Elite'
  BY <1>0, <1>4 DEF Seeding, FirstSeed, Elite, Leads, Better
<1>8. Leading'
  <2>1. ASSUME NEW t \in seen'
        PROVE  ~(score[t] < score[best]) \/ ~(score[t] < score[cur'])
    <3>1. t \in Perms
      BY <1>4
    <3>2. CASE t = s
      BY <1>2, <1>5, <3>2
    <3>3. CASE t \in seen
      <4>1. ~(score[t] < score[best]) \/ ~(score[t] < score[cur])
        BY <1>0, <3>3 DEF Leading, Better
      <4> QED BY <1>2, <1>5, <3>1, <4>1
    <3> QED BY <1>4, <3>2, <3>3
  <2> QED BY <1>0, <2>1 DEF Leading, Better
<1>9. Spent'
  <2>1. evals' <= budget /\ budget \in Nat /\ limit \in Nat
    BY <1>0, <1>4 DEF Leading, SearchTypes
  <2> QED BY <1>0, <2>1 DEF Spent
<1> QED BY <1>6, <1>7, <1>8, <1>9 DEF SearchInv

(* The best of the climb's end and the best leads. *)
LEMMA ClimbsEnd ==
  ASSUME SearchInv, ClimbOver, best' = BestOf(cur, best), UNCHANGED <<score, seen>>
  PROVE  /\ best' \in Perms /\ best' \in {cur, best}
         /\ Leads(best, seen)'
         /\ score[best'] <= score[cur] /\ score[best'] <= score[best]
<1>1. SearchTypes /\ Leading /\ at = "climb" /\ kind # "classic"
  BY DEF SearchInv, ClimbOver
<1>2. cur \in Perms /\ best \in Perms /\ seen \subseteq Perms
  BY <1>1 DEF SearchTypes, TypeOK
<1>3. /\ BestOf(cur, best) \in {cur, best}
      /\ score[BestOf(cur, best)] <= score[cur] /\ score[BestOf(cur, best)] <= score[best]
  BY <1>1, <1>2, Scores
<1>4. \A t \in Perms : score[t] \in Int
  BY <1>1, Scores
<1>5. ASSUME NEW t \in seen
      PROVE  ~(score[t] < score[best'])
  <2>1. ~(score[t] < score[best]) \/ ~(score[t] < score[cur])
    BY <1>1 DEF Leading, Better
  <2> QED BY <1>2, <1>3, <1>4, <2>1
<1> QED BY <1>2, <1>3, <1>5 DEF Leads, Better

(* The planner's round is over. *)
LEMMA IlsStep ==
  ASSUME SearchInv, IlsClimbed
  PROVE  SearchInv'
<1>0. /\ SearchTypes /\ Leading /\ FirstSeed /\ Spent /\ ClimbOver /\ kind = "ils"
      /\ best' = BestOf(cur, best) /\ at = "climb"
      /\ UNCHANGED <<kind, force, must, budget, score, seeds, seen, evals, untried, limit, pop, stop>>
      /\ \/ at' = "done" /\ UNCHANGED cur
         \/ at' = "round" /\ \E i, j \in 1..N : cur' = Move(best', i, j)
  BY DEF SearchInv, IlsClimbed, ClimbOver, given
<1>1. best' \in Perms /\ Leads(best, seen)'
  BY <1>0, ClimbsEnd
<1>2. cur' \in Perms
  <2>1. CASE at' = "done" /\ UNCHANGED cur
    BY <1>0, <2>1 DEF SearchTypes
  <2>2. CASE \E i, j \in 1..N : cur' = Move(best', i, j)
    BY <1>1, <2>2, MovesFit
  <2> QED BY <1>0, <2>1, <2>2
<1>3. SearchTypes'
  BY <1>0, <1>1, <1>2 DEF SearchTypes, TypeOK
<1>4. Seeding' /\ FirstSeed' /\ Leading' /\ Spent' /\ Elite'
  BY <1>0, <1>1 DEF Seeding, FirstSeed, Leading, Spent, Elite
<1> QED BY <1>3, <1>4 DEF SearchInv

(* A population has a worst member, and a first of the worst. *)
LEMMA WorstIs ==
  ASSUME SearchTypes
  PROVE  \E k \in DOMAIN pop : /\ \A l \in DOMAIN pop : ~Better(pop[k], pop[l])
                               /\ \A l \in 1..(k - 1) : Better(pop[l], pop[k])
<1> DEFINE n == Len(pop)
           v == [k \in 1..n |-> score[pop[k]]]
           Worst(m) == \E k \in 1..m : \A l \in 1..m : v[l] <= v[k]
           Bad == {m \in 1..n : ~Worst(m)}
<1>1. /\ n \in Nat /\ n # 0 /\ DOMAIN pop = 1..n /\ \A k \in 1..n : pop[k] \in Perms
      /\ \A s \in Perms : score[s] \in Int
  <2>1. pop \in Seq(Perms) /\ pop # <<>>
    BY DEF SearchTypes
  <2> QED BY <2>1, Scores, LenProperties
<1>2. \A k \in 1..n : v[k] \in Int /\ v[k] = score[pop[k]]
  BY <1>1
<1> HIDE DEF v, n
<1>3. Bad = {}
  <2> SUFFICES ASSUME Bad # {} PROVE FALSE
    OBVIOUS
  <2>0. Bad \in SUBSET Nat
    BY <1>1
  <2>1. PICK m \in Bad : \A l \in Bad : m <= l
    <3> HIDE DEF Bad
    <3> QED BY <2>0, LeastNumber
  <2>2. m \in 1..n /\ ~Worst(m)
    OBVIOUS
  <2>3. m # 1
    BY <1>1, <1>2, <2>2
  <2>4. m - 1 \in 1..n /\ m - 1 < m
    BY <1>1, <2>2, <2>3
  <2>5. Worst(m - 1)
    BY <2>1, <2>4
  <2>6. PICK k \in 1..(m - 1) : \A l \in 1..(m - 1) : v[l] <= v[k]
    BY <2>5
  <2>7. k \in 1..m /\ k \in 1..n /\ m \in 1..m /\ \A l \in 1..m : l = m \/ l \in 1..(m - 1)
    BY <1>1, <2>2, <2>4, SMTT(40)
  <2>8. \A l \in 1..m : l \in 1..n
    BY <1>1, <2>2
  <2>9. CASE v[m] <= v[k]
    BY <2>2, <2>6, <2>7, <2>9
  <2>10. \A l \in 1..m : v[l] \in Int
    <3> HIDE DEF Bad
    <3> QED BY <1>2, <2>8
  <2>11. CASE v[k] < v[m]
    <3>1. \A l \in 1..m : v[l] <= v[m]
      <4> HIDE DEF Bad
      <4> QED BY <2>6, <2>7, <2>10, <2>11
    <3> QED BY <2>2, <2>7, <3>1
  <2>12. v[m] <= v[k] \/ v[k] < v[m]
    <3> HIDE DEF Bad
    <3> QED BY <2>7, <2>10
  <2> QED BY <2>9, <2>11, <2>12
<1>4. Worst(n)
  <2>1. n \in 1..n
    BY <1>1
  <2> QED BY <1>3, <2>1
<1> DEFINE All == {k \in 1..n : \A l \in 1..n : v[l] <= v[k]}
<1>5. All # {} /\ All \in SUBSET Nat
  BY <1>1, <1>4
<1>6. PICK k \in All : \A l \in All : k <= l
  <2> HIDE DEF All
  <2> QED BY <1>5, LeastNumber
<1>7. k \in 1..n /\ \A l \in 1..n : ~(v[k] < v[l])
  BY <1>2, <1>6
<1>8. ASSUME NEW l \in 1..(k - 1)
      PROVE  v[l] < v[k]
  <2>1. l \in 1..n /\ ~(k <= l)
    BY <1>1, <1>7
  <2>2. l \notin All
    BY <1>6, <2>1
  <2>3. PICK i \in 1..n : ~(v[i] <= v[l])
    BY <2>1, <2>2
  <2>4. v[i] <= v[k]
    BY <1>6
  <2> QED BY <1>2, <1>7, <2>1, <2>3, <2>4
<1>9. \A l \in 1..(k - 1) : l \in 1..n
  BY <1>1, <1>7
<1>10. \A l \in 1..n : ~(score[pop[k]] < score[pop[l]])
  BY <1>2, <1>7
<1>11. \A l \in 1..(k - 1) : score[pop[l]] < score[pop[k]]
  BY <1>2, <1>7, <1>8, <1>9
<1> QED BY <1>1, <1>7, <1>10, <1>11 DEF Better

(* The memetic search's child is grown up. *)
LEMMA MemeticStep ==
  ASSUME SearchInv, MemeticClimbed
  PROVE  SearchInv'
<1>0. /\ SearchTypes /\ Leading /\ FirstSeed /\ Spent /\ Elite /\ ClimbOver /\ kind = "memetic"
      /\ best' = BestOf(cur, best) /\ at = "climb" /\ at' = "round" /\ OustWorst(cur)
      /\ UNCHANGED <<kind, force, must, budget, score, seeds, seen, evals, cur, untried, limit, stop>>
  BY DEF SearchInv, MemeticClimbed, ClimbOver, given
<1>1. /\ best' \in Perms /\ best' \in {cur, best} /\ Leads(best, seen)'
      /\ score[best'] <= score[cur] /\ score[best'] <= score[best]
  BY <1>0, ClimbsEnd
<1>2. /\ cur \in Perms /\ best \in Perms /\ \A s \in Perms : score[s] \in Int
      /\ pop \in Seq(Perms) /\ pop # <<>> /\ DOMAIN pop = 1..Len(pop) /\ Len(pop) \in Nat
      /\ \A l \in DOMAIN pop : pop[l] \in Perms
  BY <1>0, Scores DEF SearchTypes
<1> DEFINE Worst(k) == /\ \A l \in DOMAIN pop : ~Better(pop[k], pop[l])
                       /\ \A l \in 1..(k - 1) : Better(pop[l], pop[k])
           i == CHOOSE k \in DOMAIN pop : Worst(k)
           new == IF Better(cur, pop[i]) THEN cur ELSE pop[i]
<1>3. i \in DOMAIN pop /\ \A l \in DOMAIN pop : ~Better(pop[i], pop[l])
  <2>1. \E k \in DOMAIN pop : Worst(k)
    BY <1>0, WorstIs
  <2>2. i \in DOMAIN pop /\ Worst(i)
    BY <2>1
  <2> QED BY <2>2
<1>4. pop' = [pop EXCEPT ![i] = new]
  BY <1>0 DEF OustWorst
<1> HIDE DEF i
<1>5. new \in Perms
  BY <1>2, <1>3
<1>6. /\ pop' \in Seq(Perms) /\ Len(pop') = Len(pop) /\ DOMAIN pop' = DOMAIN pop
      /\ \A l \in DOMAIN pop : pop'[l] = IF l = i THEN new ELSE pop[l]
  <2>1. pop' \in [1..Len(pop) -> Perms]
    BY <1>2, <1>4, <1>5
  <2>2. pop' \in Seq(Perms) /\ Len(pop') = Len(pop)
    BY <1>2, <2>1
  <2>3. \A l \in DOMAIN pop : pop'[l] = IF l = i THEN new ELSE pop[l]
    BY <1>2, <1>3, <1>4
  <2> QED BY <1>2, <2>1, <2>2, <2>3
<1>7. SearchTypes'
  <2>1. Range(pop') \subseteq Perms
    BY <1>2, <1>5, <1>6 DEF Range
  <2>2. pop' # <<>>
    BY <1>2, <1>6
  <2> QED BY <1>0, <1>1, <1>6, <2>1, <2>2 DEF SearchTypes, TypeOK
<1>8. Seeding' /\ FirstSeed' /\ Leading'
  BY <1>0, <1>1 DEF Seeding, FirstSeed, Leading
<1>9. Spent'
  BY <1>0, <1>6 DEF Spent
<1>10. Elite'
  <2>1. PICK e \in DOMAIN pop : score[pop[e]] = score[best]
    BY <1>0 DEF Elite, Range
  <2>2. \A l \in DOMAIN pop : ~(score[pop[l]] < score[best])
    BY <1>0 DEF Elite, Leads, Better, Range
  <2>3. ~(score[pop[i]] < score[pop[e]]) /\ i \in DOMAIN pop
    BY <1>3, <2>1 DEF Better
  <2>4. ASSUME NEW l \in DOMAIN pop
        PROVE  ~(score[pop'[l]] < score[best'])
    <3>1. ~(score[new] < score[best'])
      BY <1>1, <1>2, <2>2, <2>3 DEF Better
    <3>2. ~(score[pop[l]] < score[best'])
      BY <1>1, <1>2, <2>2
    <3> HIDE DEF new
    <3> QED BY <1>6, <3>1, <3>2
  <2>5. \E l \in DOMAIN pop : score[pop'[l]] = score[best']
    <3>1. CASE score[cur] < score[best]
      <4>1. score[best'] = score[cur]
        BY <1>1, <1>2, <3>1
      <4>2. new = cur
        BY <1>2, <2>1, <2>3, <3>1 DEF Better
      <4> HIDE DEF new
      <4> QED BY <1>6, <2>3, <4>1, <4>2
    <3>2. CASE ~(score[cur] < score[best])
      <4>1. score[best'] = score[best]
        BY <1>1, <1>2, <3>2
      <4>2. i = e => new = pop[e]
        BY <2>1, <3>2 DEF Better
      <4> HIDE DEF new
      <4> QED BY <1>6, <2>1, <4>1, <4>2
    <3> QED BY <3>1, <3>2
  <2> QED BY <1>0, <1>6, <2>4, <2>5 DEF Elite, Leads, Better, Range
<1> QED BY <1>7, <1>8, <1>9, <1>10 DEF SearchInv

(* The classic engine starts over. *)
LEMMA RestartStep ==
  ASSUME SearchInv, Restart
  PROVE  SearchInv'
<1>0. /\ SearchTypes /\ Leading /\ FirstSeed /\ MayGoOn
      /\ at = "round" /\ at' = "climb" /\ kind = "classic"
      /\ UNCHANGED <<kind, force, must, budget, score, seeds, untried, limit, pop, stop>>
  BY DEF SearchInv, Restart, given
<1>1. PICK s \in Perms : Evaluates(s) /\ cur' = s /\ best' = BestOf(s, best)
  BY DEF Restart
<1>2. best \in Perms /\ evals \in Nat /\ budget \in Nat
  BY <1>0 DEF SearchTypes
<1>3. /\ seen' = seen \cup {s} /\ seen' \subseteq Perms
      /\ evals' \in Nat /\ evals <= evals' /\ evals' <= evals + 1
  BY <1>0, <1>1, Decoded
<1>4. /\ best' \in Perms /\ score[best'] <= score[s] /\ score[best'] <= score[best]
      /\ \A t \in Perms : score[t] \in Int
  <2>1. BestOf(s, best) \in {s, best}
    BY <1>0, <1>2, Scores
  <2> QED BY <1>0, <1>1, <1>2, <2>1, Scores
<1>5. \A t \in seen' : ~(score[t] < score[best'])
  <2>1. \A t \in seen : ~(score[t] < score[best])
    BY <1>0 DEF Leading, Leads, Better
  <2> QED BY <1>2, <1>3, <1>4, <2>1
<1>6. SearchTypes'
  BY <1>0, <1>1, <1>3, <1>4 DEF SearchTypes, TypeOK
<1>7. Seeding' /\ FirstSeed' /\ Elite'
  BY <1>0 DEF Seeding, FirstSeed, Elite
<1>8. Leading'
  BY <1>0, <1>1, <1>3, <1>5 DEF Leading, Leads, Better
<1>9. Spent'
  BY <1>0, <1>2, <1>3 DEF Spent, MayGoOn
<1> QED BY <1>6, <1>7, <1>8, <1>9 DEF SearchInv

(* The classic engine moves. *)
LEMMA ClassicStays ==
  ASSUME SearchInv, ClassicMove
  PROVE  SearchInv'
<1>0. /\ SearchTypes /\ Leading /\ FirstSeed /\ MayGoOn
      /\ at = "climb" /\ at' = "climb" /\ kind = "classic"
      /\ UNCHANGED <<kind, force, must, budget, score, seeds, untried, limit, pop, stop>>
  BY DEF SearchInv, ClassicMove, given
<1>1. PICK s \in ClassicStep(cur) :
         /\ Evaluates(s)
         /\ \/ Better(s, cur) /\ cur' = s /\ best' = BestOf(s, best)
            \/ score[s] = score[cur] /\ cur' = s /\ best' = best
            \/ ~Better(s, cur) /\ cur' = cur /\ best' = best
  BY DEF ClassicMove
<1>2. best \in Perms /\ cur \in Perms /\ evals \in Nat /\ budget \in Nat
  BY <1>0 DEF SearchTypes
<1>3. s \in Perms
  BY <1>1, <1>2, MovesFit DEF ClassicStep
<1>4. /\ seen' = seen \cup {s} /\ seen' \subseteq Perms
      /\ evals' \in Nat /\ evals <= evals' /\ evals' <= evals + 1
  BY <1>0, <1>1, <1>3, Decoded
<1>5. /\ BestOf(s, best) \in {s, best} /\ \A t \in Perms : score[t] \in Int
      /\ score[BestOf(s, best)] <= score[s] /\ score[BestOf(s, best)] <= score[best]
  BY <1>0, <1>2, <1>3, Scores
<1>6. cur \in seen /\ \A t \in seen : ~(score[t] < score[best])
  BY <1>0 DEF Leading, Leads, Better
<1>7. best' \in Perms /\ cur' \in seen' /\ cur' \in Perms /\ \A t \in seen' : ~(score[t] < score[best'])
  BY <1>1, <1>2, <1>3, <1>4, <1>5, <1>6 DEF Better
<1>8. SearchTypes'
  BY <1>0, <1>4, <1>7 DEF SearchTypes, TypeOK
<1>9. Seeding' /\ FirstSeed' /\ Elite'
  BY <1>0 DEF Seeding, FirstSeed, Elite
<1>10. Leading'
  BY <1>0, <1>7 DEF Leading, Leads, Better
<1>11. Spent'
  BY <1>0, <1>2, <1>4 DEF Spent, MayGoOn
<1> QED BY <1>8, <1>9, <1>10, <1>11 DEF SearchInv

(* The other steps decode nothing and keep the best. *)
LEMMA OtherSteps ==
  ASSUME SearchInv, LeaveBasin \/ Finish \/ Cancel \/ UNCHANGED vars
  PROVE  SearchInv'
<1>0. SearchTypes /\ Seeding /\ Leading /\ FirstSeed /\ Spent /\ Elite
  BY DEF SearchInv
<1>1. CASE LeaveBasin
  <2>1. /\ at = "climb" /\ at' = "round" /\ kind = "classic"
        /\ UNCHANGED <<kind, force, must, budget, score, seeds, seen, evals, best, cur, untried, limit, pop, stop>>
    BY <1>1 DEF LeaveBasin, given
  <2> QED BY <1>0, <2>1 DEF SearchInv, SearchTypes, TypeOK, Seeding, Leading, Leads, Better, FirstSeed, Spent, Elite
<1>2. CASE Finish
  <2>1. /\ at = "round" /\ at' = "done"
        /\ UNCHANGED <<kind, force, must, budget, score, seeds, seen, evals, best, cur, untried, limit, pop, stop>>
    BY <1>2 DEF Finish, given
  <2> QED BY <1>0, <2>1 DEF SearchInv, SearchTypes, TypeOK, Seeding, Leading, Leads, Better, FirstSeed, Spent, Elite
<1>3. CASE Cancel
  <2>1. /\ kind # "memetic" /\ stop' = TRUE
        /\ UNCHANGED <<kind, force, must, budget, score, seeds, seen, evals, best, cur, untried, limit, pop, at>>
    BY <1>3 DEF Cancel, given
  <2> QED BY <1>0, <2>1 DEF SearchInv, SearchTypes, TypeOK, Seeding, Leading, Leads, Better, FirstSeed, Spent, Elite
<1>4. CASE UNCHANGED vars
  BY <1>0, <1>4 DEF vars, SearchInv, SearchTypes, TypeOK, Seeding, Leading, Leads, Better, FirstSeed, Spent, Elite
<1> QED BY <1>1, <1>2, <1>3, <1>4

(* Every step keeps the invariant. *)
LEMMA SearchStep ==
  SearchInv /\ [Next]_vars => SearchInv'
<1> SUFFICES ASSUME SearchInv, [Next]_vars
             PROVE  SearchInv'
  OBVIOUS
<1>1. CASE TrySeed
  BY <1>1, SeedStep
<1>2. CASE IlsRound \/ Breed
  BY <1>2, RoundStep
<1>3. CASE Restart
  BY <1>3, RestartStep
<1>4. CASE TryMove
  BY <1>4, TryStep
<1>5. CASE IlsClimbed
  BY <1>5, IlsStep
<1>6. CASE MemeticClimbed
  BY <1>6, MemeticStep
<1>7. CASE ClassicMove
  BY <1>7, ClassicStays
<1>8. CASE LeaveBasin \/ Finish \/ Cancel \/ UNCHANGED vars
  BY <1>8, OtherSteps
<1>9. CASE Idle
  BY <1>9, OtherSteps DEF Idle
<1> QED BY <1>1, <1>2, <1>3, <1>4, <1>5, <1>6, <1>7, <1>8, <1>9 DEF Next, Step

(* The invariant holds in every state of every search. *)
LEMMA SearchAlways == Spec => []SearchInv
<1>1. Init => SearchInv
  BY Begins
<1> QED BY <1>1, SearchStep, PTL DEF Spec

-----------------------------------------------------------------------------
(* What the invariant says                                                  *)

(* A search, whichever it is and whenever it is stopped, spends its budget   *)
(* and no more, answers with the best of everything it decoded, and a        *)
(* population never loses its best (optimize, memetic, the classic engine). *)
THEOREM KeepsBest == Spec => []SearchKeeps
<1>1. SearchInv => SearchKeeps
  <2> SUFFICES ASSUME SearchInv PROVE SearchKeeps
    OBVIOUS
  <2>1. SearchTypes /\ Seeding /\ Leading /\ Spent /\ Elite
    BY DEF SearchInv
  <2>2. TypeOK
    BY <2>1 DEF SearchTypes
  <2>3. WithinBudget
    <3>1. budget \in Nat /\ Len(pop) \in Nat /\ evals \in Nat /\ Len(seeds) \in Nat
      BY <2>1 DEF SearchTypes
    <3>2. evals <= budget \/ evals <= Len(pop)
      <4>1. CASE at = "seeds"
        BY <2>1, <3>1, <4>1 DEF Seeding
      <4>2. CASE at # "seeds"
        BY <2>1, <4>2 DEF Spent
      <4> QED BY <4>1, <4>2
    <3>3. /\ Max({budget, Len(pop)}) \in Nat
          /\ Max({budget, Len(pop)}) >= budget /\ Max({budget, Len(pop)}) >= Len(pop)
      BY <3>1, OfTwo
    <3> QED BY <3>1, <3>2, <3>3 DEF WithinBudget
  <2>4. BestOfSeen
    BY <2>1 DEF BestOfSeen, Leading, Leads
  <2>5. EliteKept
    BY <2>1 DEF EliteKept, Elite, Leads
  <2> QED BY <2>2, <2>3, <2>4, <2>5 DEF SearchKeeps
<1> QED BY <1>1, SearchAlways, PTL

(* The planner's search (optimize) never returns a plan worse than the one    *)
(* in force, however early it is stopped; with must-finish dates, none worse *)
(* than the sequence that has those orders first.                           *)
THEOREM PlannerNotWorse == Spec => []NeverWorse
<1>1. SearchInv => NeverWorse
  <2> SUFFICES ASSUME SearchInv, at = "done", kind = "ils"
               PROVE  IF must = <<>> THEN Complete(force) => ~Better(Known(force), best)
                      ELSE ~Better(HeadFirst(must, Base(force)), best)
    BY DEF NeverWorse, Base
  <2>1. /\ must \in Musts /\ pop = Seeds(force, must) /\ pop[1] \in seen /\ Leads(best, seen)
    BY DEF SearchInv, FirstSeed, Leading
  <2>2. pop[1] = IF DOMAIN must = {} THEN Base(force) ELSE HeadFirst(must, Base(force))
    BY <2>1, SeedsFit
  <2>3. must = <<>> <=> DOMAIN must = {}
    <3>1. must \in [DOMAIN must -> Int]
      BY <2>1, SearchAssumption
    <3>2. <<>> \in [1..0 -> Int] /\ 1..0 = {}
      OBVIOUS
    <3>3. ASSUME DOMAIN must = {} PROVE must = <<>>
      <4>1. must \in [1..0 -> Int]
        BY <3>1, <3>2, <3>3
      <4> QED BY <4>1
    <3>4. DOMAIN <<>> = {}
      OBVIOUS
    <3> QED BY <3>3, <3>4
  <2>4. ~Better(pop[1], best)
    BY <2>1 DEF Leads
  <2> QED BY <2>2, <2>3, <2>4 DEF Base
<1> QED BY <1>1, SearchAlways, PTL
=============================================================================
