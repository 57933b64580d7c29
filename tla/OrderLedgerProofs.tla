------------------------- MODULE OrderLedgerProofs -------------------------
(***************************************************************************)
(* What is proved of OrderLedger for every number of orders, steps, pieces, *)
(* punches and crashes.  The accounting first: how a punch that is appended,*)
(* one that is undone and an order that is deleted change what the steps    *)
(* made.  Then the types, for any number of requests.  Then, for the server *)
(* that serves one request at a time: the steps stay in order, an order is  *)
(* in one book, and no order and no rolled-back mark is lost.  And, for any *)
(* number of requests of which those that rewrite the list run alone: what  *)
(* may take a saved punch out of it.                                        *)
(***************************************************************************)
EXTENDS OrderLedger, FiniteSetTheorems, TLAPS

(* Every step of es made no more than what the step before it passed on.    *)
StepsFollow(es) ==
    \A o \in Orders, k \in 2..NSteps : Produced(es, o, k) <= Good(es, o, k - 1)

(* The pieces rejected at a step.                                           *)
Lost(es, o, k) == Cardinality(Rejected(Of(es, o, k)))

-----------------------------------------------------------------------------
(* The pieces of the accounting.                                            *)

(* One entry less is its pieces less. *)
LEMMA PiecesCount ==
  ASSUME NEW e, NEW n \in Nat, NEW P, IsFiniteSet(P), \A x \in P : x[1] # e
  PROVE  /\ IsFiniteSet(Pieces(e, n) \cup P)
         /\ Cardinality(Pieces(e, n) \cup P) = n + Cardinality(P)
<1>1. IsFiniteSet(Pieces(e, n)) /\ Cardinality(Pieces(e, n)) = n
  <2>1. IsFiniteSet({e}) /\ Cardinality({e}) = 1
    BY FS_Singleton
  <2>2. 1 \in Int /\ n \in Int /\ (IF 1 > n THEN 0 ELSE n - 1 + 1) = n
    OBVIOUS
  <2>3. IsFiniteSet(1..n) /\ Cardinality(1..n) = n
    BY <2>2, FS_Interval
  <2>4. IsFiniteSet({e} \X (1..n)) /\ Cardinality({e} \X (1..n)) = Cardinality({e}) * Cardinality(1..n)
    BY <2>1, <2>3, FS_Product
  <2>5. 1 * n = n
    OBVIOUS
  <2> QED BY <2>1, <2>3, <2>4, <2>5 DEF Pieces
<1>2. Pieces(e, n) \cap P = {}
  BY DEF Pieces
<1>3. Cardinality(P) \in Nat
  BY FS_CardinalityType
<1>4. /\ IsFiniteSet(Pieces(e, n) \cup P)
      /\ Cardinality(Pieces(e, n) \cup P) = Cardinality(Pieces(e, n)) + Cardinality(P) - Cardinality({})
  BY <1>1, <1>2, FS_Union
<1>5. Cardinality({}) = 0
  BY FS_EmptySet
<1> QED BY <1>1, <1>3, <1>4, <1>5

(* What a set of entries made and rejected is finite. *)
LEMMA PiecesFinite ==
  ASSUME NEW S \in SUBSET Entry, IsFiniteSet(S)
  PROVE  /\ IsFiniteSet(Made(S)) /\ IsFiniteSet(Rejected(S))
         /\ Cardinality(Made(S)) \in Nat /\ Cardinality(Rejected(S)) \in Nat
<1>1. Made(S) \in SUBSET (S \X (1..MaxQty)) /\ Rejected(S) \in SUBSET (S \X (1..MaxQty))
  <2>1. \A e \in S : e.made \in 0..MaxQty /\ e.rej \in 0..MaxQty
    BY DEF Entry
  <2> QED BY <2>1, LedgerAssumption DEF Made, Rejected, Pieces
<1>2. IsFiniteSet(S \X (1..MaxQty))
  <2>1. IsFiniteSet(1..MaxQty)
    <3>1. 1 \in Int /\ MaxQty \in Int
      BY LedgerAssumption
    <3> QED BY <3>1, FS_Interval
  <2> QED BY <2>1, FS_Product
<1> QED BY <1>1, <1>2, FS_Subset, FS_CardinalityType

(* Taking one entry out of a set takes its pieces and rejections off. *)
LEMMA EntryCounts ==
  ASSUME NEW S \in SUBSET Entry, IsFiniteSet(S)
  PROVE  /\ Cardinality(Made(S)) \in Nat /\ Cardinality(Rejected(S)) \in Nat
         /\ S = {} => Cardinality(Made(S)) = 0
         /\ \A e \in S :
              /\ Cardinality(Made(S)) = e.made + Cardinality(Made(S \ {e}))
              /\ Cardinality(Rejected(S)) = e.rej + Cardinality(Rejected(S \ {e}))
<1>1. S = {} => Cardinality(Made(S)) = 0
  BY FS_EmptySet DEF Made
<1>2. ASSUME NEW x \in S
      PROVE  /\ Cardinality(Made(S)) = x.made + Cardinality(Made(S \ {x}))
             /\ Cardinality(Rejected(S)) = x.rej + Cardinality(Rejected(S \ {x}))
  <2>1. S \ {x} \in SUBSET Entry /\ IsFiniteSet(S \ {x})
    BY FS_RemoveElement
  <2>2. x.made \in Nat /\ x.rej \in Nat
    BY LedgerAssumption DEF Entry
  <2>3. Made(S) = Pieces(x, x.made) \cup Made(S \ {x})
        /\ Rejected(S) = Pieces(x, x.rej) \cup Rejected(S \ {x})
    BY DEF Made, Rejected
  <2>4. (\A y \in Made(S \ {x}) : y[1] # x) /\ (\A y \in Rejected(S \ {x}) : y[1] # x)
    BY DEF Made, Rejected, Pieces
  <2>5. IsFiniteSet(Made(S \ {x})) /\ IsFiniteSet(Rejected(S \ {x}))
    BY <2>1, PiecesFinite
  <2>6. Cardinality(Made(S)) = x.made + Cardinality(Made(S \ {x}))
    <3> DEFINE rest == Made(S \ {x})
    <3>1. IsFiniteSet(rest) /\ \A y \in rest : y[1] # x
      BY <2>4, <2>5
    <3> HIDE DEF rest
    <3>2. Cardinality(Pieces(x, x.made) \cup rest) = x.made + Cardinality(rest)
      BY <2>2, <3>1, PiecesCount
    <3> QED BY <2>3, <3>2 DEF rest
  <2>7. Cardinality(Rejected(S)) = x.rej + Cardinality(Rejected(S \ {x}))
    <3> DEFINE rest == Rejected(S \ {x})
    <3>1. IsFiniteSet(rest) /\ \A y \in rest : y[1] # x
      BY <2>4, <2>5
    <3> HIDE DEF rest
    <3>2. Cardinality(Pieces(x, x.rej) \cup rest) = x.rej + Cardinality(rest)
      BY <2>2, <3>1, PiecesCount, ZenonT(60)
    <3> QED BY <2>3, <3>2 DEF rest
  <2> QED BY <2>6, <2>7
<1> QED BY <1>1, <1>2, PiecesFinite

(* What a step made and passed on are numbers, and nothing was made of what *)
(* no entry is about.                                                       *)
LEMMA StepTypes ==
  ASSUME NEW es \in SUBSET Entry, IsFiniteSet(es), NEW o, NEW k
  PROVE  /\ Of(es, o, k) \in SUBSET Entry /\ IsFiniteSet(Of(es, o, k))
         /\ Produced(es, o, k) \in Nat /\ Lost(es, o, k) \in Nat /\ Good(es, o, k) \in Nat
         /\ Of(es, o, k) = {} => Produced(es, o, k) = 0
         /\ Good(es, o, k) = IF Produced(es, o, k) > Lost(es, o, k)
                             THEN Produced(es, o, k) - Lost(es, o, k) ELSE 0
<1>1. Of(es, o, k) \in SUBSET Entry /\ IsFiniteSet(Of(es, o, k))
  <2>1. Of(es, o, k) \in SUBSET es
    BY DEF Of
  <2> QED BY <2>1, FS_Subset
<1>2. /\ Produced(es, o, k) \in Nat /\ Lost(es, o, k) \in Nat
      /\ Of(es, o, k) = {} => Produced(es, o, k) = 0
  BY <1>1, EntryCounts DEF Produced, Lost
<1>3. Good(es, o, k) = IF Produced(es, o, k) > Lost(es, o, k)
                      THEN Produced(es, o, k) - Lost(es, o, k) ELSE 0
  BY DEF Good, Lost
<1>4. Good(es, o, k) \in Nat
  BY <1>2, <1>3
<1> QED BY <1>1, <1>2, <1>3, <1>4

(* An entry counts for its own step of its own order. *)
LEMMA OneEntryLess ==
  ASSUME NEW es \in SUBSET Entry, IsFiniteSet(es), NEW e \in es
  PROVE  /\ es \ {e} \in SUBSET Entry /\ IsFiniteSet(es \ {e})
         /\ Produced(es \ {e}, e.order, e.step) <= Produced(es, e.order, e.step)
         /\ e.rej <= e.made => Good(es \ {e}, e.order, e.step) <= Good(es, e.order, e.step)
         /\ \A o, k : o # e.order \/ k # e.step =>
                /\ Produced(es \ {e}, o, k) = Produced(es, o, k)
                /\ Good(es \ {e}, o, k) = Good(es, o, k)
<1> DEFINE S == Of(es, e.order, e.step)
           less == es \ {e}
<1>1. less \in SUBSET Entry /\ IsFiniteSet(less)
  BY FS_RemoveElement
<1>2. e \in Entry /\ e.made \in Nat /\ e.rej \in Nat
  <2>1. e \in Entry
    OBVIOUS
  <2> QED BY <2>1, LedgerAssumption DEF Entry
<1>3. S \in SUBSET Entry /\ IsFiniteSet(S)
  BY StepTypes
<1>4. e \in S /\ Of(less, e.order, e.step) = S \ {e}
  BY DEF Of
<1>5. /\ Produced(es, e.order, e.step) = e.made + Produced(less, e.order, e.step)
      /\ Lost(es, e.order, e.step) = e.rej + Lost(less, e.order, e.step)
  <2> HIDE DEF S, less
  <2>1. /\ Cardinality(Made(S)) = e.made + Cardinality(Made(S \ {e}))
        /\ Cardinality(Rejected(S)) = e.rej + Cardinality(Rejected(S \ {e}))
    BY <1>3, <1>4, EntryCounts
  <2> QED BY <1>4, <2>1 DEF S, Produced, Lost
<1>6. /\ Produced(less, e.order, e.step) <= Produced(es, e.order, e.step)
      /\ e.rej <= e.made => Good(less, e.order, e.step) <= Good(es, e.order, e.step)
  <2> DEFINE p == Produced(less, e.order, e.step)
             l == Lost(less, e.order, e.step)
  <2>1. /\ p \in Nat /\ l \in Nat
        /\ Good(less, e.order, e.step) = IF p > l THEN p - l ELSE 0
    BY <1>1, StepTypes
  <2>2. Good(es, e.order, e.step) = IF e.made + p > e.rej + l THEN (e.made + p) - (e.rej + l) ELSE 0
    BY <1>5, StepTypes
  <2>3. p <= Produced(es, e.order, e.step)
    BY <1>2, <1>5, <2>1
  <2> HIDE DEF p, l
  <2> QED BY <1>2, <2>1, <2>2, <2>3 DEF p
<1>7. ASSUME NEW o, NEW k, o # e.order \/ k # e.step
      PROVE  /\ Produced(less, o, k) = Produced(es, o, k)
             /\ Good(less, o, k) = Good(es, o, k)
  <2>1. Of(less, o, k) = Of(es, o, k)
    BY <1>7 DEF Of
  <2> QED BY <2>1 DEF Produced, Good
<1> QED BY <1>1, <1>6, <1>7

-----------------------------------------------------------------------------
(* The steps stay in order under the three ways the list is changed.        *)

(* A punch under the cap, with no more rejections than pieces. *)
LEMMA AppendFollows ==
  ASSUME NEW es \in SUBSET Entry, IsFiniteSet(es), StepsFollow(es),
         NEW e \in Entry, e.rej <= e.made, NEW b, ~OverCap(es \cup {e}, e.order, e.step, b)
  PROVE  StepsFollow(es \cup {e})
<1> DEFINE more == es \cup {e}
<1>1. CASE e \in es
  <2>1. more = es
    BY <1>1
  <2> QED BY <2>1
<1>2. CASE e \notin es
  <2>1. more \in SUBSET Entry /\ IsFiniteSet(more) /\ e \in more /\ more \ {e} = es
    BY <1>2, FS_AddElement
  <2>2. /\ Good(es, e.order, e.step) <= Good(more, e.order, e.step)
        /\ \A o, k : o # e.order \/ k # e.step =>
               Produced(es, o, k) = Produced(more, o, k) /\ Good(es, o, k) = Good(more, o, k)
    <3> HIDE DEF more
    <3>1. /\ Good(more \ {e}, e.order, e.step) <= Good(more, e.order, e.step)
          /\ \A o, k : o # e.order \/ k # e.step =>
                 /\ Produced(more \ {e}, o, k) = Produced(more, o, k)
                 /\ Good(more \ {e}, o, k) = Good(more, o, k)
      BY <2>1, OneEntryLess
    <3> QED BY <2>1, <3>1
  <2> SUFFICES ASSUME NEW o \in Orders, NEW k \in 2..NSteps
               PROVE  Produced(more, o, k) <= Good(more, o, k - 1)
    BY DEF StepsFollow
  <2>3. /\ Produced(es, o, k) <= Good(es, o, k - 1) /\ e.step \in Nat /\ k \in Nat /\ k - 1 # k
        /\ Produced(es, o, k) \in Nat /\ Good(es, o, k - 1) \in Nat /\ Good(more, o, k - 1) \in Nat
    <3>1. e.step \in Nat /\ k \in Nat /\ k - 1 # k
      BY LedgerAssumption DEF Entry, Steps
    <3>2. Produced(es, o, k) \in Nat /\ Good(es, o, k - 1) \in Nat /\ Good(more, o, k - 1) \in Nat
      BY <2>1, StepTypes
    <3> QED BY <3>1, <3>2 DEF StepsFollow
  <2>4. CASE o = e.order /\ k = e.step
    <3>1. k > 1
      BY LedgerAssumption
    <3>2. Produced(more, o, k) \in Nat
      BY <2>1, StepTypes
    <3>3. ~(Produced(more, o, k) > Good(more, o, k - 1))
      BY <2>4, <3>1 DEF OverCap
    <3> HIDE DEF more
    <3> QED BY <2>3, <3>2, <3>3
  <2> HIDE DEF more
  <2>5. CASE o # e.order \/ k # e.step
    <3>1. Produced(more, o, k) = Produced(es, o, k)
      BY <2>2, <2>5
    <3>2. CASE o = e.order /\ k - 1 = e.step
      <4>1. Good(es, o, k - 1) <= Good(more, o, k - 1)
        BY <2>2, <3>2
      <4> QED BY <2>3, <3>1, <4>1
    <3>3. CASE o # e.order \/ k - 1 # e.step
      BY <2>2, <2>3, <3>1, <3>3
    <3> QED BY <3>2, <3>3
  <2> QED BY <2>4, <2>5
<1> QED BY <1>1, <1>2

(* A punch taken back that the next step does not need. *)
LEMMA UndoFollows ==
  ASSUME NEW es \in SUBSET Entry, IsFiniteSet(es), StepsFollow(es),
         NEW e \in es, ~Undercuts(es \ {e}, e)
  PROVE  StepsFollow(es \ {e})
<1> DEFINE less == es \ {e}
<1>1. /\ less \in SUBSET Entry /\ IsFiniteSet(less)
      /\ Produced(less, e.order, e.step) <= Produced(es, e.order, e.step)
      /\ \A o, k : o # e.order \/ k # e.step =>
             Produced(less, o, k) = Produced(es, o, k) /\ Good(less, o, k) = Good(es, o, k)
  BY OneEntryLess
<1> SUFFICES ASSUME NEW o \in Orders, NEW k \in 2..NSteps
             PROVE  Produced(less, o, k) <= Good(less, o, k - 1)
  BY DEF StepsFollow
<1>2. e.step \in Nat /\ k \in Nat /\ k - 1 # k /\ k - 1 < NSteps /\ (k - 1) + 1 = k
  <2>1. e \in Entry /\ NSteps \in Nat
    BY LedgerAssumption
  <2> QED BY <2>1 DEF Entry, Steps
<1>3. /\ Produced(es, o, k) <= Good(es, o, k - 1)
      /\ Produced(es, o, k) \in Nat /\ Good(es, o, k - 1) \in Nat
      /\ Produced(less, o, k) \in Nat /\ Good(less, o, k - 1) \in Nat
  BY <1>1, StepTypes DEF StepsFollow
<1>4. ~Undercuts(less, e)
  OBVIOUS
<1> HIDE DEF less
<1>5. CASE o = e.order /\ k - 1 = e.step
  <2>1. e.step + 1 = k /\ e.step < NSteps
    BY <1>2, <1>5
  <2>2. ~(Produced(less, o, k) > Good(less, o, k - 1))
    BY <1>4, <1>5, <2>1 DEF Undercuts
  <2> QED BY <1>3, <2>2
<1>6. CASE o # e.order \/ k - 1 # e.step
  <2>1. Good(less, o, k - 1) = Good(es, o, k - 1)
    BY <1>1, <1>6
  <2>2. Produced(less, o, k) <= Produced(es, o, k)
    <3>1. CASE o = e.order /\ k = e.step
      BY <1>1, <3>1
    <3>2. CASE o # e.order \/ k # e.step
      <4>1. Produced(less, o, k) = Produced(es, o, k)
        BY <1>1, <3>2
      <4> QED BY <1>3, <4>1
    <3> QED BY <3>1, <3>2
  <2> QED BY <1>3, <2>1, <2>2
<1> QED BY <1>5, <1>6

(* The punches of some orders dropped, all of them. *)
LEMMA DropFollows ==
  ASSUME NEW es \in SUBSET Entry, IsFiniteSet(es), StepsFollow(es), NEW gone
  PROVE  LET left == {e \in es : e.order \notin gone}
         IN  StepsFollow(left) /\ left \in SUBSET Entry /\ IsFiniteSet(left)
<1> DEFINE left == {e \in es : e.order \notin gone}
<1>1. left \in SUBSET Entry /\ IsFiniteSet(left)
  <2>1. left \in SUBSET es
    OBVIOUS
  <2> QED BY <2>1, FS_Subset
<1>2. ASSUME NEW o \in Orders, NEW k \in 2..NSteps
      PROVE  Produced(left, o, k) <= Good(left, o, k - 1)
  <2>1. CASE o \in gone
    <3>1. Of(left, o, k) = {}
      BY <2>1 DEF Of
    <3>2. Produced(left, o, k) = 0 /\ Good(left, o, k - 1) \in Nat
      <4> HIDE DEF left
      <4> QED BY <1>1, <3>1, StepTypes
    <3> QED BY <3>2
  <2>2. CASE o \notin gone
    <3>1. Of(left, o, k) = Of(es, o, k) /\ Of(left, o, k - 1) = Of(es, o, k - 1)
      BY <2>2 DEF Of
    <3>2. Produced(left, o, k) = Produced(es, o, k) /\ Good(left, o, k - 1) = Good(es, o, k - 1)
      BY <3>1 DEF Produced, Good
    <3> QED BY <3>2 DEF StepsFollow
  <2> QED BY <2>1, <2>2
<1> QED BY <1>1, <1>2 DEF StepsFollow

(* No punch at all. *)
LEMMA NothingFollows == StepsFollow({}) /\ {} \in SUBSET Entry /\ IsFiniteSet({})
<1>1. IsFiniteSet({}) /\ {} \in SUBSET Entry
  BY FS_EmptySet
<1>2. ASSUME NEW o \in Orders, NEW k \in 2..NSteps
      PROVE  Produced({}, o, k) <= Good({}, o, k - 1)
  <2>1. Of({}, o, k) = {}
    BY DEF Of
  <2>2. Produced({}, o, k) = 0 /\ Good({}, o, k - 1) \in Nat
    BY <1>1, <2>1, StepTypes
  <2> QED BY <2>2
<1> QED BY <1>1, <1>2 DEF StepsFollow

-----------------------------------------------------------------------------
(* The invariant behind the types: a number names one punch, whether it is  *)
(* in the list or held by a request, and the numbers given out so far are   *)
(* those up to punched.                                                     *)
Request == [op : Ops, at : Calls, order : SUBSET Orders, punch : SUBSET Entry,
            inBook : BOOLEAN, kept : SUBSET Entry]

Known == actuals \cup UNION {req[r].punch \cup req[r].kept : r \in Requests}

TypeInv ==
    /\ active \subseteq Orders /\ archive \subseteq Orders /\ Known \subseteq Entry
    /\ punched \in 0..MaxEntries /\ crashes \in 0..MaxCrashes
    /\ req \in [Requests -> Request]
    /\ \A e \in Known : e.id <= punched
    /\ \A e, f \in Known : e.id = f.id => e = f

(* The invariant of the server that serves one request at a time.  What a   *)
(* request is about; which store calls each kind of request makes.          *)
OneAtATime == \E r \in Requests : Requests = {r}

AboutOK(q) ==
    /\ q.op = "none" => q.at = "idle"
    /\ q.op = "punch" => q.at \in {"check", "append", "toArchive", "outOfActive"}
    /\ q.op = "complete" => q.at \in {"toArchive", "outOfActive"}
    /\ q.op = "rollback" => q.at \in {"rewrite", "push", "recheck", "toActive", "outOfArchive"}
    /\ q.op = "delete" => q.at \in {"dropActive", "dropArchive", "readList", "rewrite", "push"}
    /\ q.op = "clear" => q.at \in {"clearActive", "clearArchive", "clearList"}
    /\ q.op \notin {"none", "clear"} => \E o \in Orders : q.order = {o}
    /\ q.op \in {"punch", "rollback"} => \E e \in Entry : q.punch = {e} /\ q.order = {e.order}
    /\ q.op = "punch" => \A e \in q.punch : LateRejects \/ e.rej <= e.made

(* The books: unless the process was killed, an order is in both only while *)
(* it is moved, and what leaves one is already in the other.                *)
Moving == {"outOfActive", "outOfArchive"}

BooksOK(q) ==
    /\ crashes = 0 => active \cap archive \subseteq (IF q.at \in Moving THEN q.order ELSE {})
    /\ q.at = "outOfActive" => q.order \subseteq archive
    /\ q.at = "outOfArchive" => q.order \subseteq active

(* The list: what was checked or read still holds at the call that writes.  *)
InOrder(es) == LateRejects \/ StepsFollow(es)

ListOK(q) ==
    /\ q.at = "append" => \A e \in q.punch : ~OverCap(actuals \cup {e}, e.order, e.step, q.inBook)
    /\ q.at \in {"rewrite", "push"} => InOrder(q.kept) /\ IsFiniteSet(q.kept)
    /\ q.at = "rewrite" => q.kept = IF q.op = "rollback" THEN actuals \ q.punch
                                    ELSE {e \in actuals : e.order \notin q.order}
    /\ q.at = "push" => actuals = {}
    /\ q.at = "toActive" => ~\E e \in actuals : e.order \in q.order /\ e.mark

OneInv ==
    /\ TypeInv
    /\ IsFiniteSet(actuals) /\ InOrder(actuals)
    /\ \A r \in Requests : AboutOK(req[r]) /\ BooksOK(req[r]) /\ ListOK(req[r])

-----------------------------------------------------------------------------
(* The types.                                                               *)

(* The idle request, and one that goes on to its next call with what it has. *)
LEMMA RequestTypes ==
  ASSUME TypeInv, NEW r \in Requests
  PROVE  /\ req[r] \in Request /\ Idle \in Request /\ Idle.punch = {} /\ Idle.kept = {}
         /\ req[r].punch \subseteq Known /\ req[r].kept \subseteq Known /\ actuals \subseteq Known
         /\ \A at \in Calls :
              LET q == [req[r] EXCEPT !.at = at]
              IN  /\ q \in Request /\ q.at = at /\ q.op = req[r].op /\ q.order = req[r].order
                  /\ q.punch = req[r].punch /\ q.inBook = req[r].inBook /\ q.kept = req[r].kept
<1>1. req[r] \in Request
  BY DEF TypeInv
<1>2. Idle \in Request /\ Idle.punch = {} /\ Idle.kept = {}
  BY DEF Idle, Request, Ops, Calls
<1>3. req[r].punch \subseteq Known /\ req[r].kept \subseteq Known /\ actuals \subseteq Known
  BY DEF Known
<1>4. ASSUME NEW at \in Calls
      PROVE  LET q == [req[r] EXCEPT !.at = at]
             IN  /\ q \in Request /\ q.at = at /\ q.op = req[r].op /\ q.order = req[r].order
                 /\ q.punch = req[r].punch /\ q.inBook = req[r].inBook /\ q.kept = req[r].kept
  BY <1>1 DEF Request
<1> QED BY <1>1, <1>2, <1>3, <1>4

(* A request, field by field. *)
Holds(q, op, at, order, punch, inBook, kept) ==
    /\ q \in Request /\ q.op = op /\ q.at = at /\ q.order = order
    /\ q.punch = punch /\ q.inBook = inBook /\ q.kept = kept

(* An idle request holds nothing. *)
LEMMA IdleHolds == Holds(Idle, "none", "idle", {}, {}, FALSE, {})
  BY DEF Holds, Idle, Request, Ops, Calls

(* What each request holds when it begins. *)
LEMMA Begins ==
  ASSUME TypeInv, NEW r \in Requests
  PROVE  /\ CompleteBegins(r) => \E o \in active : \E q :
                Serves(r, q) /\ Holds(q, "complete", "toArchive", {o}, {}, TRUE, {})
         /\ RollbackBegins(r) => \E e \in actuals : \E q :
                /\ ~Undercuts(actuals \ {e}, e)
                /\ Serves(r, q) /\ Holds(q, "rollback", "rewrite", {e.order}, {e}, FALSE, actuals \ {e})
         /\ DeleteBegins(r) => \E o \in active \cup archive : \E q :
                Serves(r, q) /\ Holds(q, "delete", "dropActive", {o}, {}, FALSE, {})
         /\ ClearBegins(r) => \E q :
                Serves(r, q) /\ Holds(q, "clear", "clearActive", {}, {}, FALSE, {})
<1>1. ASSUME NEW op \in Ops, NEW at \in Calls, NEW order \in SUBSET Orders, NEW punch \in SUBSET Entry,
             NEW inBook \in BOOLEAN, NEW kept \in SUBSET Entry
      PROVE  /\ Holds([Idle EXCEPT !.op = op, !.at = at], op, at, {}, {}, FALSE, {})
             /\ Holds([Idle EXCEPT !.op = op, !.at = at, !.order = order], op, at, order, {}, FALSE, {})
             /\ Holds([Idle EXCEPT !.op = op, !.at = at, !.order = order, !.inBook = inBook],
                      op, at, order, {}, inBook, {})
             /\ Holds([Idle EXCEPT !.op = op, !.at = at, !.order = order, !.punch = punch, !.kept = kept],
                      op, at, order, punch, FALSE, kept)
  BY IdleHolds DEF Holds, Request
<1>2. /\ {"complete", "delete", "clear", "rollback"} \subseteq Ops
      /\ {"toArchive", "dropActive", "clearActive", "rewrite"} \subseteq Calls
  BY DEF Ops, Calls
<1>3. \A o \in active \cup archive : {o} \in SUBSET Orders
  BY DEF TypeInv
<1>4. \A e \in actuals : {e.order} \in SUBSET Orders /\ {e} \in SUBSET Entry /\ actuals \ {e} \in SUBSET Entry
  <2>1. actuals \subseteq Entry
    BY DEF TypeInv, Known
  <2> QED BY <2>1 DEF Entry
<1>5. CompleteBegins(r) => \E o \in active : \E q :
          Serves(r, q) /\ Holds(q, "complete", "toArchive", {o}, {}, TRUE, {})
  BY <1>1, <1>2, <1>3 DEF CompleteBegins
<1>6. RollbackBegins(r) => \E e \in actuals : \E q :
          /\ ~Undercuts(actuals \ {e}, e)
          /\ Serves(r, q) /\ Holds(q, "rollback", "rewrite", {e.order}, {e}, FALSE, actuals \ {e})
  BY <1>1, <1>2, <1>4 DEF RollbackBegins
<1>7. DeleteBegins(r) => \E o \in active \cup archive : \E q :
          Serves(r, q) /\ Holds(q, "delete", "dropActive", {o}, {}, FALSE, {})
  BY <1>1, <1>2, <1>3 DEF DeleteBegins
<1>8. ClearBegins(r) => \E q :
          Serves(r, q) /\ Holds(q, "clear", "clearActive", {}, {}, FALSE, {})
  BY <1>1, <1>2 DEF ClearBegins
<1> QED BY <1>5, <1>6, <1>7, <1>8

(* What a request holds once it has read the list. *)
LEMMA ListRead ==
  ASSUME TypeInv, NEW r \in Requests, NEW at \in {"append", "rewrite"}, NEW left \in SUBSET Entry,
         NEW q, q = [req[r] EXCEPT !.at = at, !.kept = left]
  PROVE  Holds(q, req[r].op, at, req[r].order, req[r].punch, req[r].inBook, left)
<1>1. req[r] \in Request
  BY DEF TypeInv
<1> QED BY <1>1 DEF Request, Calls, Holds

(* A punch that is not refused was under the cap of the list as it was read. *)
LEMMA PunchPasses ==
  ASSUME TypeInv, NEW r \in Requests, PunchChecked(r), ~Done(r)
  PROVE  /\ \E e \in req[r].punch : ~OverCap(actuals \cup {e}, e.order, e.step, req[r].inBook)
         /\ \E q : /\ Serves(r, q)
                   /\ Holds(q, req[r].op, "append", req[r].order, req[r].punch, req[r].inBook, actuals)
<1> DEFINE q == [req[r] EXCEPT !.at = "append", !.kept = actuals]
<1>1. /\ \E e \in req[r].punch : ~OverCap(actuals \cup {e}, e.order, e.step, req[r].inBook)
      /\ Serves(r, q)
  BY DEF PunchChecked
<1>2. actuals \in SUBSET Entry
  BY DEF TypeInv, Known
<1>3. Holds(q, req[r].op, "append", req[r].order, req[r].punch, req[r].inBook, actuals)
  BY <1>2, ListRead
<1> QED BY <1>1, <1>3

(* A step that makes no new punch keeps the types. *)
LEMMA NoNewPunch ==
  ASSUME TypeInv, NEW r \in Requests, NEW q \in Request, Serves(r, q),
         q.punch \subseteq Known, q.kept \subseteq Known, actuals' \subseteq Known, punched' = punched,
         active' \subseteq Orders, archive' \subseteq Orders, crashes' = crashes
  PROVE  TypeInv'
<1>1. req' \in [Requests -> Request]
  BY DEF TypeInv, Serves
<1>2. ASSUME NEW e \in Known' PROVE e \in Known
  <2>1. CASE e \in actuals'
    BY <2>1
  <2>2. CASE \E s \in Requests : e \in req'[s].punch \cup req'[s].kept
    <3>1. PICK s \in Requests : e \in req'[s].punch \cup req'[s].kept
      BY <2>2
    <3>2. req'[s] = IF s = r THEN q ELSE req[s]
      BY DEF TypeInv, Serves
    <3> QED BY <3>1, <3>2, RequestTypes
  <2> QED BY <1>2, <2>1, <2>2 DEF Known
<1> HIDE DEF Known
<1> QED BY <1>1, <1>2 DEF TypeInv

(* A new punch gets a number of its own. *)
LEMMA NewPunch ==
  ASSUME TypeInv, NEW r \in Requests, PunchBegins(r)
  PROVE  TypeInv'
<1>1. PICK o \in Orders, k \in Steps, made \in 0..MaxQty, rej \in 0..MaxQty, mark \in BOOLEAN, d \in 1..MaxDay :
        Serves(r, [op |-> "punch", at |-> "check", order |-> {o},
                   punch |-> {[id |-> punched', order |-> o, step |-> k, made |-> made,
                               rej |-> rej, mark |-> mark, day |-> d]},
                   inBook |-> o \in active, kept |-> {}])
  BY ZenonT(60) DEF PunchBegins
<1> DEFINE e == [id |-> punched + 1, order |-> o, step |-> k, made |-> made,
                 rej |-> rej, mark |-> mark, day |-> d]
           q == [op |-> "punch", at |-> "check", order |-> {o}, punch |-> {e},
                 inBook |-> o \in active, kept |-> {}]
<1>2. /\ punched' = punched + 1 /\ punched + 1 \in 1..MaxEntries /\ punched \in Nat
      /\ UNCHANGED <<active, archive, actuals, crashes>>
  BY LedgerAssumption DEF PunchBegins, TypeInv
<1>3. e \in Entry /\ e.id = punched + 1
  BY <1>2 DEF Entry
<1>4. q \in Request /\ Serves(r, q)
  <2>1. (o \in active) \in BOOLEAN
    OBVIOUS
  <2>2. q \in Request
    BY <1>3, <2>1 DEF Request, Ops, Calls
  <2> QED BY <1>1, <1>2, <2>2
<1> HIDE DEF e
<1>5. q.punch = {e} /\ q.kept = {}
  OBVIOUS
<1> HIDE DEF q
<1>6. req' \in [Requests -> Request]
  BY <1>4 DEF TypeInv, Serves
<1>7. ASSUME NEW f \in Known' PROVE f \in Known \/ f = e
  <2>1. CASE f \in actuals
    BY <2>1, RequestTypes
  <2>2. CASE \E s \in Requests : f \in req'[s].punch \cup req'[s].kept
    <3>1. PICK s \in Requests : f \in req'[s].punch \cup req'[s].kept
      BY <2>2
    <3>2. req'[s] = IF s = r THEN q ELSE req[s]
      BY <1>4 DEF TypeInv, Serves
    <3> QED BY <1>5, <3>1, <3>2, RequestTypes
  <2> QED BY <1>2, <1>7, <2>1, <2>2 DEF Known
<1>8. \A f \in Known' : f \in Entry /\ f.id <= punched + 1
  <2>1. \A f \in Known : f \in Entry /\ f.id <= punched /\ f.id \in Nat
    BY DEF TypeInv, Entry
  <2> QED BY <1>2, <1>3, <1>7, <2>1
<1>9. \A f, g \in Known' : f.id = g.id => f = g
  <2>1. \A f \in Known : f.id <= punched /\ f.id \in Nat
    BY DEF TypeInv, Entry
  <2>2. \A f, g \in Known : f.id = g.id => f = g
    BY DEF TypeInv
  <2> QED BY <1>2, <1>3, <1>7, <2>1, <2>2
<1> QED BY <1>2, <1>6, <1>8, <1>9, LedgerAssumption DEF TypeInv

(* So every step of the server keeps the types. *)
LEMMA TypeStep ==
  ASSUME TypeInv, [Next]_vars
  PROVE  TypeInv'
<1>1. CASE UNCHANGED vars
  BY <1>1 DEF TypeInv, Known, vars
<1>2. CASE Restart
  <2>1. /\ req' = [r \in Requests |-> Idle] /\ UNCHANGED <<active, archive, actuals, punched>>
        /\ crashes' \in 0..MaxCrashes /\ req' \in [Requests -> Request]
    <3>1. Idle \in Request
      BY DEF Idle, Request, Ops, Calls
    <3> QED BY <1>2, <3>1, LedgerAssumption DEF Restart, TypeInv
  <2>2. Known' \subseteq Known
    BY <2>1 DEF Known, Idle
  <2> HIDE DEF Known
  <2> QED BY <2>1, <2>2 DEF TypeInv
<1>3. CASE \E o \in Orders : OrderAdded(o)
  <2>1. /\ UNCHANGED <<archive, actuals, punched, req, crashes>> /\ active' \subseteq Orders
    BY <1>3 DEF OrderAdded, TypeInv
  <2>2. Known' = Known
    BY <2>1 DEF Known
  <2> QED BY <2>1, <2>2 DEF TypeInv
<1>4. ASSUME NEW r \in Requests,
             \/ PunchBegins(r) \/ PunchChecked(r) \/ PunchAppended(r)
             \/ CompleteBegins(r) \/ Archived(r)
             \/ RollbackBegins(r) \/ Rewrite(r) \/ Recheck(r) \/ Unarchived(r)
             \/ DeleteBegins(r) \/ Deleted(r)
             \/ ClearBegins(r) \/ Cleared(r)
      PROVE  TypeInv'
  <2> DEFINE Goes == \E q \in Request : /\ Serves(r, q) /\ q.punch \subseteq Known /\ q.kept \subseteq Known
  <2>0. /\ active \subseteq Orders /\ archive \subseteq Orders /\ req[r].order \subseteq Orders
        /\ actuals \subseteq Known /\ Known \subseteq Entry
        /\ \A a \in Calls : GoOn(r, a) => Goes
        /\ Done(r) => Goes
    <3>1. ASSUME NEW a \in Calls, GoOn(r, a) PROVE Goes
      <4> DEFINE q == [req[r] EXCEPT !.at = a]
      <4>1. q \in Request /\ q.punch \subseteq Known /\ q.kept \subseteq Known
        BY RequestTypes
      <4> QED BY <3>1, <4>1 DEF GoOn
    <3>2. ASSUME Done(r) PROVE Goes
      BY <3>2, RequestTypes DEF Done
    <3>3. req[r].order \subseteq Orders
      BY RequestTypes DEF Request
    <3> QED BY <3>1, <3>2, <3>3, RequestTypes DEF TypeInv
  <2>1. CASE PunchBegins(r)
    BY <2>1, NewPunch
  <2> HIDE DEF Goes
  <2>2a. {"append", "toArchive", "outOfActive", "push", "recheck", "toActive", "outOfArchive",
          "dropArchive", "readList", "clearArchive", "clearList"} \subseteq Calls
    BY DEF Calls
  <2>2b. ASSUME Goes, UNCHANGED <<punched, crashes>>, actuals' \subseteq Known,
                active' \subseteq Orders, archive' \subseteq Orders
         PROVE  TypeInv'
    BY <2>2b, NoNewPunch DEF Goes
  <2>2. CASE PunchChecked(r)
    <3>1. ASSUME ~Done(r) PROVE Goes
      <4>1. PICK q : /\ Serves(r, q)
                     /\ Holds(q, req[r].op, "append", req[r].order, req[r].punch, req[r].inBook, actuals)
        BY <2>2, <3>1, PunchPasses
      <4> QED BY <4>1, RequestTypes DEF Holds, Goes
    <3>2. UNCHANGED <<active, archive, actuals, punched, crashes>>
      BY <2>2 DEF PunchChecked
    <3> QED BY <2>0, <2>2b, <3>1, <3>2
  <2>2c. CASE PunchAppended(r)
    <3>1. req[r].punch \subseteq Known
      BY RequestTypes
    <3>2. Goes
      BY <2>0, <2>2a, <2>2c DEF PunchAppended
    <3> QED BY <2>0, <2>2b, <2>2c, <3>1, <3>2 DEF PunchAppended
  <2>3. CASE CompleteBegins(r) \/ DeleteBegins(r) \/ ClearBegins(r)
    <3>1. \E op, at, order, b, q : Serves(r, q) /\ Holds(q, op, at, order, {}, b, {})
      BY <2>3, Begins
    <3>2. Goes
      BY <3>1 DEF Holds, Goes
    <3>3. UNCHANGED <<active, archive, actuals, punched, crashes>>
      BY <2>3 DEF CompleteBegins, DeleteBegins, ClearBegins
    <3> QED BY <2>0, <2>2b, <3>2, <3>3
  <2>4. CASE Archived(r) \/ Unarchived(r)
    <3>1. Goes
      BY <2>0, <2>2a, <2>4 DEF Archived, Unarchived
    <3>2. UNCHANGED <<actuals, punched, crashes>> /\ active' \subseteq Orders /\ archive' \subseteq Orders
      BY <2>0, <2>4 DEF Archived, Unarchived
    <3> QED BY <2>0, <2>2b, <3>1, <3>2
  <2>5. CASE RollbackBegins(r)
    <3>1. UNCHANGED <<active, archive, actuals, punched, crashes>>
      BY <2>5 DEF RollbackBegins
    <3>2. PICK e, q :
             e \in actuals /\ Serves(r, q) /\ Holds(q, "rollback", "rewrite", {e.order}, {e}, FALSE, actuals \ {e})
      BY <2>5, Begins
    <3>3. Goes
      BY <2>0, <3>2 DEF Holds, Goes
    <3> QED BY <2>0, <2>2b, <3>1, <3>3
  <2>6. CASE Rewrite(r) \/ Recheck(r)
    <3>1. Goes
      BY <2>0, <2>2a, <2>6 DEF Rewrite, Rewritten, Recheck
    <3>2. req[r].kept \subseteq Known
      BY RequestTypes
    <3>3. UNCHANGED <<active, archive, punched, crashes>>
      BY <2>6 DEF Rewrite, Recheck
    <3>4. actuals' \subseteq Known
      BY <2>0, <2>6, <3>2 DEF Rewrite, Recheck
    <3> QED BY <2>0, <2>2b, <3>1, <3>3, <3>4
  <2>7. CASE Deleted(r)
    <3>1. CASE At(r, "readList")
      <4>1. /\ UNCHANGED <<active, archive, actuals, punched, crashes>>
            /\ Serves(r, [req[r] EXCEPT !.at = "rewrite", !.kept = {e \in actuals : ~Its(r, e.order)}])
        BY <2>7, <3>1 DEF Deleted, At
      <4> DEFINE left == {e \in actuals : ~Its(r, e.order)}
                 q == [req[r] EXCEPT !.at = "rewrite", !.kept = left]
      <4>2. Goes
        <5>1. left \subseteq Known /\ left \subseteq Entry
          BY <2>0
        <5> HIDE DEF left
        <5>2. q \in Request /\ q.punch = req[r].punch /\ q.kept = left
          <6>1. Holds(q, req[r].op, "rewrite", req[r].order, req[r].punch, req[r].inBook, left)
            BY <5>1, ListRead
          <6> QED BY <6>1 DEF Holds
        <5> HIDE DEF q
        <5>3. req[r].punch \subseteq Known
          BY RequestTypes
        <5> QED BY <2>0, <4>1, <5>1, <5>2, <5>3 DEF q, left, Goes
      <4> QED BY <2>0, <2>2b, <4>1, <4>2
    <3>2. CASE ~At(r, "readList")
      <4>1. Goes
        BY <2>0, <2>2a, <2>7, <3>2 DEF Deleted
      <4>2. UNCHANGED <<actuals, punched, crashes>> /\ active' \subseteq Orders /\ archive' \subseteq Orders
        BY <2>0, <2>7, <3>2 DEF Deleted
      <4> QED BY <2>0, <2>2b, <4>1, <4>2
    <3> QED BY <3>1, <3>2
  <2>8. CASE Cleared(r)
    <3>1. Goes
      BY <2>0, <2>2a, <2>8 DEF Cleared
    <3>2. /\ UNCHANGED <<punched, crashes>> /\ active' \subseteq Orders /\ archive' \subseteq Orders
          /\ actuals' \subseteq Known
      BY <2>0, <2>8 DEF Cleared
    <3> QED BY <2>2b, <3>1, <3>2
  <2> QED BY <1>4, <2>1, <2>2, <2>2c, <2>3, <2>4, <2>5, <2>6, <2>7, <2>8
<1> QED BY <1>1, <1>2, <1>3, <1>4 DEF Next

(* The empty books are well typed, and nothing is served. *)
LEMMA TypeInit ==
  ASSUME Init
  PROVE  TypeInv
<1>1. Known = {}
  BY DEF Init, Known, Idle
<1>2. Idle \in Request
  BY DEF Idle, Request, Ops, Calls
<1> QED BY <1>1, <1>2, LedgerAssumption DEF Init, TypeInv

(* The types hold however many requests run at once: in particular a number *)
(* in the list names one punch.                                             *)
THEOREM LedgerTypes == Spec => []TypeOK
<1>1. Init => TypeInv
  BY TypeInit
<1>2. TypeInv /\ [Next]_vars => TypeInv'
  BY TypeStep
<1>3. TypeInv => TypeOK
  BY DEF TypeInv, TypeOK, Known, Request
<1> QED BY <1>1, <1>2, <1>3, PTL DEF Spec

-----------------------------------------------------------------------------
(* One request at a time.                                                   *)

(* What the request is after a call. *)
LEMMA Served ==
  ASSUME TypeInv, NEW r \in Requests
  PROVE  /\ \A q : Serves(r, q) => req'[r] = q
         /\ \A at \in Calls : GoOn(r, at) =>
                Holds(req'[r], req[r].op, at, req[r].order, req[r].punch, req[r].inBook, req[r].kept)
         /\ Done(r) => Holds(req'[r], "none", "idle", {}, {}, FALSE, {})
<1>1. \A q : Serves(r, q) => req'[r] = q
  BY DEF TypeInv, Serves
<1>2. ASSUME NEW at \in Calls, GoOn(r, at)
      PROVE  Holds(req'[r], req[r].op, at, req[r].order, req[r].punch, req[r].inBook, req[r].kept)
  <2>1. req'[r] = [req[r] EXCEPT !.at = at]
    BY <1>1, <1>2 DEF GoOn
  <2> QED BY <2>1, RequestTypes DEF Holds
<1>3. Done(r) => Holds(req'[r], "none", "idle", {}, {}, FALSE, {})
  BY <1>1, IdleHolds DEF Done
<1> QED BY <1>1, <1>2, <1>3

(* What a request that begins holds. *)
LEMMA PunchHolds ==
  ASSUME TypeInv, TypeInv', NEW r \in Requests, PunchBegins(r)
  PROVE  \E e \in Entry :
           /\ LateRejects \/ e.rej <= e.made
           /\ Holds(req'[r], "punch", "check", {e.order}, {e}, e.order \in active, {})
<1>1. PICK o \in Orders, k \in Steps, made \in 0..MaxQty, rej \in 0..MaxQty, mark \in BOOLEAN, d \in 1..MaxDay :
        /\ LateRejects \/ rej <= made
        /\ Serves(r, [op |-> "punch", at |-> "check", order |-> {o},
                   punch |-> {[id |-> punched', order |-> o, step |-> k, made |-> made,
                               rej |-> rej, mark |-> mark, day |-> d]},
                   inBook |-> o \in active, kept |-> {}])
  BY ZenonT(60) DEF PunchBegins
<1> DEFINE e == [id |-> punched', order |-> o, step |-> k, made |-> made,
                 rej |-> rej, mark |-> mark, day |-> d]
<1>2. req'[r] = [op |-> "punch", at |-> "check", order |-> {o}, punch |-> {e},
                 inBook |-> o \in active, kept |-> {}]
  BY <1>1, Served
<1>3. e.order = o /\ e.rej = rej /\ e.made = made
  OBVIOUS
<1>4. e \in Entry /\ req'[r] \in Request
  <2>1. req'[r] \in Request
    BY DEF TypeInv
  <2>2. req'[r].punch = {e}
    BY <1>2
  <2> HIDE DEF e
  <2> QED BY <2>1, <2>2 DEF Request
<1> HIDE DEF e
<1>5. Holds(req'[r], "punch", "check", {e.order}, {e}, e.order \in active, {})
  BY <1>2, <1>3, <1>4 DEF Holds
<1> QED BY <1>1, <1>3, <1>4, <1>5

(* It goes through the calls of its kind, with what it began with. *)
LEMMA AboutStep ==
  ASSUME TypeInv, TypeInv', NEW r \in Requests, AboutOK(req[r]),
         \/ PunchBegins(r) \/ PunchChecked(r) \/ PunchAppended(r)
         \/ CompleteBegins(r) \/ Archived(r)
         \/ RollbackBegins(r) \/ Rewrite(r) \/ Recheck(r) \/ Unarchived(r)
         \/ DeleteBegins(r) \/ Deleted(r)
         \/ ClearBegins(r) \/ Cleared(r)
  PROVE  AboutOK(req'[r])
<1> USE DEF At
<1>0. req[r] \in Request
  BY RequestTypes
<1>1. ASSUME NEW at \in Calls, GoOn(r, at),
             req[r].op = "punch" => at \in {"append", "toArchive", "outOfActive"},
             req[r].op = "complete" => at = "outOfActive",
             req[r].op = "rollback" => at \in {"push", "recheck", "toActive", "outOfArchive"},
             req[r].op = "delete" => at \in {"dropArchive", "readList", "rewrite", "push"},
             req[r].op = "clear" => at \in {"clearArchive", "clearList"},
             req[r].op # "none"
      PROVE  AboutOK(req'[r])
  <2>1. Holds(req'[r], req[r].op, at, req[r].order, req[r].punch, req[r].inBook, req[r].kept)
    BY <1>1, Served
  <2> QED BY <1>1, <2>1 DEF AboutOK, Holds
<1>2. Done(r) => AboutOK(req'[r])
  BY Served DEF Holds, AboutOK
<1>3. CASE PunchBegins(r)
  <2>1. PICK e \in Entry : /\ LateRejects \/ e.rej <= e.made
                           /\ Holds(req'[r], "punch", "check", {e.order}, {e}, e.order \in active, {})
    BY <1>3, PunchHolds
  <2>2. e.order \in Orders
    BY DEF Entry
  <2> QED BY <2>1, <2>2 DEF Holds, AboutOK
<1>4. CASE PunchAppended(r)
  BY <1>0, <1>1, <1>2, <1>4 DEF PunchAppended, Calls, AboutOK, Request, Ops
<1>11. CASE PunchChecked(r)
  <2>1. CASE Done(r)
    BY <1>2, <2>1
  <2>2. CASE ~Done(r)
    <3>1. Holds(req'[r], req[r].op, "append", req[r].order, req[r].punch, req[r].inBook, actuals)
      BY <1>11, <2>2, PunchPasses, Served
    <3>2. req[r].op = "punch"
      BY <1>0, <1>11 DEF PunchChecked, AboutOK, Request, Ops
    <3> QED BY <3>1, <3>2 DEF AboutOK, Holds
  <2> QED BY <2>1, <2>2
<1>5. CASE Archived(r) \/ Unarchived(r) \/ Cleared(r)
  BY <1>0, <1>1, <1>2, <1>5 DEF Archived, Unarchived, Cleared, Calls, AboutOK, Request, Ops
<1>6. CASE Rewrite(r)
  BY <1>0, <1>1, <1>2, <1>6 DEF Rewrite, Rewritten, Calls, AboutOK, Request, Ops
<1>7. CASE Recheck(r)
  BY <1>0, <1>1, <1>2, <1>7 DEF Recheck, Calls, AboutOK, Request, Ops
<1>8. CASE CompleteBegins(r) \/ DeleteBegins(r) \/ ClearBegins(r)
  <2>1. active \cup archive \subseteq Orders
    BY DEF TypeInv
  <2>2. CASE CompleteBegins(r)
    <3>1. PICK o, q : o \in active /\ Serves(r, q) /\ Holds(q, "complete", "toArchive", {o}, {}, TRUE, {})
      BY <2>2, Begins
    <3>2. req'[r] = q
      BY <3>1, Served
    <3> QED BY <2>1, <3>1, <3>2 DEF Holds, AboutOK
  <2>3. CASE DeleteBegins(r)
    <3>1. PICK o, q : o \in active \cup archive /\ Serves(r, q) /\ Holds(q, "delete", "dropActive", {o}, {}, FALSE, {})
      BY <2>3, Begins
    <3>2. req'[r] = q
      BY <3>1, Served
    <3> QED BY <2>1, <3>1, <3>2 DEF Holds, AboutOK
  <2>4. CASE ClearBegins(r)
    <3>1. PICK q : Serves(r, q) /\ Holds(q, "clear", "clearActive", {}, {}, FALSE, {})
      BY <2>4, Begins
    <3>2. req'[r] = q
      BY <3>1, Served
    <3> QED BY <3>1, <3>2 DEF Holds, AboutOK
  <2> QED BY <1>8, <2>2, <2>3, <2>4
<1>9. CASE RollbackBegins(r)
  <2>1. PICK e, q :
            e \in actuals /\ Serves(r, q) /\ Holds(q, "rollback", "rewrite", {e.order}, {e}, FALSE, actuals \ {e})
    BY <1>9, Begins
  <2>2. e \in Entry /\ e.order \in Orders
    <3>1. actuals \subseteq Entry
      BY DEF TypeInv, Known
    <3> QED BY <2>1, <3>1 DEF Entry
  <2>3. req'[r] = q
    BY <2>1, Served
  <2> QED BY <2>1, <2>2, <2>3 DEF Holds, AboutOK
<1>10. CASE Deleted(r)
  <2>1. CASE At(r, "readList")
    <3> DEFINE left == {e \in actuals : ~Its(r, e.order)}
    <3>1. left \in SUBSET Entry /\ Serves(r, [req[r] EXCEPT !.at = "rewrite", !.kept = left])
      BY <1>10, <2>1 DEF Deleted, TypeInv, Known
    <3> HIDE DEF left
    <3>2. /\ req'[r].at = "rewrite" /\ req'[r].op = req[r].op /\ req'[r].order = req[r].order
          /\ req'[r].punch = req[r].punch
      <4>1. req'[r] = [req[r] EXCEPT !.at = "rewrite", !.kept = left]
        BY <3>1, Served
      <4>2. Holds(req'[r], req[r].op, "rewrite", req[r].order, req[r].punch, req[r].inBook, left)
        BY <3>1, <4>1, ListRead
      <4> QED BY <4>2 DEF Holds
    <3> QED BY <1>0, <2>1, <3>2 DEF AboutOK, Request, Ops
  <2>2. CASE ~At(r, "readList")
    BY <1>0, <1>1, <1>10, <2>2 DEF Deleted, Calls, AboutOK, Request, Ops
  <2> QED BY <2>1, <2>2
<1> QED BY <1>3, <1>4, <1>5, <1>6, <1>7, <1>8, <1>9, <1>10, <1>11

(* What its books are after a call: a move puts the order in the second book *)
(* before it leaves the first.                                              *)
LEMMA BooksStep ==
  ASSUME TypeInv, TypeInv', NEW r \in Requests, AboutOK(req[r]), BooksOK(req[r]),
         \/ PunchBegins(r) \/ PunchChecked(r) \/ PunchAppended(r)
         \/ CompleteBegins(r) \/ Archived(r)
         \/ RollbackBegins(r) \/ Rewrite(r) \/ Recheck(r) \/ Unarchived(r)
         \/ DeleteBegins(r) \/ Deleted(r)
         \/ ClearBegins(r) \/ Cleared(r)
  PROVE  BooksOK(req[r])'
<1> USE DEF At, Moving
<1>1. ASSUME UNCHANGED <<active, archive, crashes>>, req[r].at \notin Moving, req'[r].at \notin Moving
      PROVE  BooksOK(req[r])'
  BY <1>1 DEF BooksOK
<1>2. \A at \in Calls : GoOn(r, at) => req'[r].at = at /\ req'[r].order = req[r].order
  BY Served DEF Holds
<1>3. Done(r) => req'[r].at = "idle"
  BY Served DEF Holds
<1>4. CASE PunchBegins(r)
  <2>1. req'[r].at = "check"
    BY <1>4, PunchHolds DEF Holds
  <2> QED BY <1>1, <1>4, <2>1 DEF PunchBegins
<1>5. CASE PunchChecked(r)
  <2>1. ASSUME ~Done(r) PROVE req'[r].at = "append"
    <3>1. PICK q : /\ Serves(r, q)
                   /\ Holds(q, req[r].op, "append", req[r].order, req[r].punch, req[r].inBook, actuals)
      BY <1>5, <2>1, PunchPasses
    <3> QED BY <3>1, Served DEF Holds
  <2> QED BY <1>1, <1>3, <1>5, <2>1 DEF PunchChecked
<1>6. CASE PunchAppended(r)
  BY <1>1, <1>2, <1>3, <1>6 DEF PunchAppended, Calls
<1>7. CASE CompleteBegins(r) \/ RollbackBegins(r) \/ DeleteBegins(r) \/ ClearBegins(r)
  <2>1. req'[r].at \notin Moving
    BY <1>7, Begins, Served DEF Holds
  <2> QED BY <1>1, <1>7, <2>1 DEF CompleteBegins, RollbackBegins, DeleteBegins, ClearBegins
<1>8. CASE Rewrite(r)
  BY <1>1, <1>2, <1>3, <1>8 DEF Rewrite, Rewritten, Calls
<1>9. CASE Recheck(r)
  BY <1>1, <1>2, <1>3, <1>9 DEF Recheck, Calls
<1>10. CASE Archived(r)
  BY <1>2, <1>3, <1>10 DEF Archived, Calls, BooksOK
<1>11. CASE Unarchived(r)
  BY <1>2, <1>3, <1>11 DEF Unarchived, Calls, BooksOK
<1>12. CASE Deleted(r)
  <2>1. CASE At(r, "readList")
    <3>1. req'[r].at = "rewrite"
      <4> DEFINE left == {e \in actuals : ~Its(r, e.order)}
      <4>1. left \in SUBSET Entry /\ req'[r] = [req[r] EXCEPT !.at = "rewrite", !.kept = left]
        BY <1>12, <2>1, Served DEF Deleted, TypeInv, Known
      <4> HIDE DEF left
      <4>2. Holds(req'[r], req[r].op, "rewrite", req[r].order, req[r].punch, req[r].inBook, left)
        BY <4>1, ListRead
      <4> QED BY <4>2 DEF Holds
    <3> QED BY <1>1, <1>12, <2>1, <3>1 DEF Deleted
  <2>2. CASE ~At(r, "readList")
    BY <1>2, <1>12, <2>2 DEF Deleted, Calls, BooksOK
  <2> QED BY <2>1, <2>2
<1>13. CASE Cleared(r)
  BY <1>2, <1>3, <1>13 DEF Cleared, Calls, BooksOK
<1> QED BY <1>4, <1>5, <1>6, <1>7, <1>8, <1>9, <1>10, <1>11, <1>12, <1>13

(* What the list is after a call, and what the request still knows of it.   *)
LEMMA ListStep ==
  ASSUME TypeInv, TypeInv', NEW r \in Requests, AboutOK(req[r]), ListOK(req[r]),
         IsFiniteSet(actuals), InOrder(actuals),
         \/ PunchBegins(r) \/ PunchChecked(r) \/ PunchAppended(r)
         \/ CompleteBegins(r) \/ Archived(r)
         \/ RollbackBegins(r) \/ Rewrite(r) \/ Recheck(r) \/ Unarchived(r)
         \/ DeleteBegins(r) \/ Deleted(r)
         \/ ClearBegins(r) \/ Cleared(r)
  PROVE  IsFiniteSet(actuals') /\ InOrder(actuals') /\ ListOK(req[r])'
<1> USE DEF At
<1> DEFINE Careful == {"append", "rewrite", "push", "toActive"}
<1>0. actuals \in SUBSET Entry /\ req[r] \in Request
  BY DEF TypeInv, Known
<1>1. req'[r].at \notin Careful => ListOK(req[r])'
  BY DEF ListOK
<1>2. \A at \in Calls : GoOn(r, at) =>
          /\ req'[r].at = at /\ req'[r].order = req[r].order /\ req'[r].op = req[r].op
          /\ req'[r].punch = req[r].punch /\ req'[r].kept = req[r].kept /\ req'[r].inBook = req[r].inBook
  BY Served DEF Holds
<1>3. Done(r) => req'[r].at = "idle"
  BY Served DEF Holds
<1>4. CASE PunchBegins(r)
  <2>1. req'[r].at = "check"
    BY <1>4, PunchHolds DEF Holds
  <2> QED BY <1>1, <1>4, <2>1 DEF PunchBegins
<1>5. CASE PunchChecked(r)
  <2>1. UNCHANGED actuals
    BY <1>5 DEF PunchChecked
  <2>2. CASE Done(r)
    BY <1>1, <1>3, <2>1, <2>2
  <2>3. CASE ~Done(r)
    <3>1. PICK e \in req[r].punch : ~OverCap(actuals \cup {e}, e.order, e.step, req[r].inBook)
      BY <1>5, <2>3, PunchPasses
    <3>2. req[r].punch = {e}
      BY <1>0, <1>5, <3>1 DEF AboutOK, PunchChecked, Request, Ops
    <3>3. /\ req'[r].at = "append" /\ req'[r].punch = {e} /\ req'[r].inBook = req[r].inBook
      <4>1. PICK q : /\ Serves(r, q)
                     /\ Holds(q, req[r].op, "append", req[r].order, req[r].punch, req[r].inBook, actuals)
        BY <1>5, <2>3, PunchPasses
      <4>2. req'[r] = q
        BY <4>1, Served
      <4> QED BY <3>2, <4>1, <4>2 DEF Holds
    <3> QED BY <2>1, <3>1, <3>3 DEF ListOK
  <2> QED BY <2>2, <2>3
<1>6. CASE PunchAppended(r)
  <2>1. PICK e \in Entry : req[r].punch = {e}
    BY <1>0, <1>6 DEF AboutOK, PunchAppended, Request, Ops
  <2>2. LateRejects \/ e.rej <= e.made
    BY <1>0, <1>6, <2>1 DEF AboutOK, PunchAppended, Request, Ops
  <2>3. actuals' = actuals \cup {e} /\ ~OverCap(actuals \cup {e}, e.order, e.step, req[r].inBook)
    BY <1>6, <2>1 DEF PunchAppended, ListOK
  <2>4. IsFiniteSet(actuals')
    BY <2>3, FS_AddElement
  <2>5. InOrder(actuals')
    BY <1>0, <2>2, <2>3, AppendFollows DEF InOrder
  <2> QED BY <1>1, <1>2, <1>3, <1>6, <2>4, <2>5 DEF PunchAppended, Calls
<1>7. CASE CompleteBegins(r) \/ DeleteBegins(r) \/ ClearBegins(r)
  <2>1. req'[r].at \notin Careful
    BY <1>7, Begins, Served DEF Holds
  <2> QED BY <1>1, <1>7, <2>1 DEF CompleteBegins, DeleteBegins, ClearBegins
<1>8. CASE Archived(r)
  BY <1>1, <1>2, <1>3, <1>8 DEF Archived, Calls
<1>9. CASE RollbackBegins(r)
  <2>1. PICK e, q :
            /\ e \in actuals /\ ~Undercuts(actuals \ {e}, e)
            /\ Serves(r, q) /\ Holds(q, "rollback", "rewrite", {e.order}, {e}, FALSE, actuals \ {e})
    BY <1>9, Begins
  <2>2. Holds(req'[r], "rollback", "rewrite", {e.order}, {e}, FALSE, actuals \ {e}) /\ UNCHANGED actuals
    BY <1>9, <2>1, Served DEF RollbackBegins
  <2>3. IsFiniteSet(actuals \ {e}) /\ InOrder(actuals \ {e})
    BY <1>0, <2>1, UndoFollows, FS_RemoveElement DEF InOrder
  <2> QED BY <2>2, <2>3 DEF Holds, ListOK
<1>10. CASE Rewrite(r)
  <2>1. Rewritten(r) => ListOK(req[r])'
    BY <1>1, <1>2, <1>3 DEF Rewritten, Calls
  <2>2. /\ req[r].at \in {"rewrite", "push"}
        /\ \/ actuals' = req[r].kept /\ Rewritten(r)
           \/ actuals' = {} /\ GoOn(r, "push") /\ req[r].at = "rewrite"
    BY <1>10 DEF Rewrite, ListOK
  <2>3. InOrder(req[r].kept) /\ IsFiniteSet(req[r].kept)
    BY <2>2 DEF ListOK
  <2>4. CASE actuals' = req[r].kept /\ Rewritten(r)
    BY <2>1, <2>3, <2>4
  <2>5. CASE actuals' = {} /\ GoOn(r, "push") /\ req[r].at = "rewrite"
    <3>1. InOrder({}) /\ IsFiniteSet({})
      BY NothingFollows DEF InOrder
    <3>2. req'[r].at = "push" /\ req'[r].kept = req[r].kept
      BY <1>2, <2>5 DEF Calls
    <3> QED BY <2>3, <2>5, <3>1, <3>2 DEF ListOK
  <2> QED BY <2>2, <2>4, <2>5
<1>11. CASE Recheck(r)
  <2>1. UNCHANGED actuals
    BY <1>11 DEF Recheck
  <2>2. CASE GoOn(r, "toActive")
    <3>1. /\ req'[r].at = "toActive" /\ req'[r].order = req[r].order
          /\ ~\E e \in actuals : e.order \in req[r].order /\ e.mark
      BY <1>2, <1>3, <1>11, <2>2 DEF Recheck, Calls, Its
    <3> QED BY <2>1, <3>1 DEF ListOK
  <2>3. CASE Done(r)
    BY <1>1, <1>3, <2>1, <2>3
  <2> QED BY <1>11, <2>2, <2>3 DEF Recheck
<1>12. CASE Unarchived(r)
  BY <1>1, <1>2, <1>3, <1>12 DEF Unarchived, Calls
<1>13. CASE Deleted(r)
  <2>1. CASE At(r, "readList")
    <3> DEFINE left == {e \in actuals : e.order \notin req[r].order}
    <3>1. /\ left \in SUBSET Entry /\ UNCHANGED actuals
          /\ req'[r] = [req[r] EXCEPT !.at = "rewrite", !.kept = left]
      BY <1>0, <1>13, <2>1, Served DEF Deleted, Its
    <3>2. InOrder(left) /\ IsFiniteSet(left)
      <4>1. IsFiniteSet(left)
        <5>1. left \in SUBSET actuals
          OBVIOUS
        <5> QED BY <5>1, FS_Subset
      <4> QED BY <1>0, <4>1, DropFollows DEF InOrder
    <3>3. left = {e \in actuals : e.order \notin req[r].order}
      OBVIOUS
    <3> HIDE DEF left
    <3>4. Holds(req'[r], req[r].op, "rewrite", req[r].order, req[r].punch, req[r].inBook, left)
      BY <3>1, ListRead
    <3>5. req[r].op = "delete"
      BY <1>0, <2>1 DEF AboutOK, Request, Ops
    <3> QED BY <3>1, <3>2, <3>3, <3>4, <3>5 DEF ListOK, Holds
  <2>2. CASE ~At(r, "readList")
    BY <1>1, <1>2, <1>13, <2>2 DEF Deleted, Calls
  <2> QED BY <2>1, <2>2
<1>14. CASE Cleared(r)
  <2>1. InOrder({}) /\ IsFiniteSet({})
    BY NothingFollows DEF InOrder
  <2>2. req'[r].at \notin Careful
    BY <1>2, <1>3, <1>14 DEF Cleared, Calls
  <2> QED BY <1>1, <1>14, <2>1, <2>2 DEF Cleared
<1> QED BY <1>4, <1>5, <1>6, <1>7, <1>8, <1>9, <1>10, <1>11, <1>12, <1>13, <1>14

(* So the invariant holds after every step of a server with one request.    *)
LEMMA OneStep ==
  ASSUME OneAtATime, OneInv, [Next]_vars
  PROVE  OneInv'
<1>0. TypeInv /\ TypeInv'
  BY TypeStep DEF OneInv
<1>1. PICK r \in Requests : Requests = {r}
  BY DEF OneAtATime
<1>2. AboutOK(req[r]) /\ BooksOK(req[r]) /\ ListOK(req[r]) /\ IsFiniteSet(actuals) /\ InOrder(actuals)
  BY DEF OneInv
<1>3. SUFFICES AboutOK(req'[r]) /\ BooksOK(req[r])' /\ IsFiniteSet(actuals') /\ InOrder(actuals') /\ ListOK(req[r])'
  <2>1. \A s \in Requests : s = r
    BY <1>1
  <2> QED BY <1>0, <2>1 DEF OneInv
<1>4. CASE UNCHANGED vars
  BY <1>2, <1>4 DEF vars, BooksOK, ListOK
<1>5. CASE Restart
  <2>1. req'[r] = Idle /\ crashes' # 0 /\ UNCHANGED actuals
    BY <1>0, <1>5 DEF Restart, TypeInv
  <2>2. Idle.op = "none" /\ Idle.at = "idle"
    BY IdleHolds DEF Holds
  <2> QED BY <1>2, <2>1, <2>2 DEF AboutOK, BooksOK, ListOK, Moving
<1>6. CASE \E o \in Orders : OrderAdded(o)
  <2>1. UNCHANGED <<archive, actuals, req, crashes>>
    BY <1>6 DEF OrderAdded
  <2>2. active' \cap archive = active \cap archive /\ active \subseteq active'
    BY <1>6 DEF OrderAdded
  <2> QED BY <1>2, <2>1, <2>2 DEF BooksOK, ListOK
<1>7. CASE \/ PunchBegins(r) \/ PunchChecked(r) \/ PunchAppended(r)
           \/ CompleteBegins(r) \/ Archived(r)
           \/ RollbackBegins(r) \/ Rewrite(r) \/ Recheck(r) \/ Unarchived(r)
           \/ DeleteBegins(r) \/ Deleted(r)
           \/ ClearBegins(r) \/ Cleared(r)
  BY <1>0, <1>2, <1>7, AboutStep, BooksStep, ListStep
<1> QED BY <1>1, <1>4, <1>5, <1>6, <1>7 DEF Next

(* At the start no request is served and no entry is on the books. *)
LEMMA OneInit ==
  ASSUME Init
  PROVE  OneInv
<1>1. \A r \in Requests : req[r].op = "none" /\ req[r].at = "idle"
  BY IdleHolds DEF Init, Holds
<1>2. actuals = {} /\ archive = {}
  BY DEF Init
<1>3. \A r \in Requests : AboutOK(req[r]) /\ BooksOK(req[r]) /\ ListOK(req[r])
  BY <1>1, <1>2 DEF AboutOK, BooksOK, ListOK, Moving
<1> QED BY <1>2, <1>3, TypeInit, NothingFollows DEF OneInv, InOrder

(* One request at a time: the books are consistent with the one served. *)
LEMMA OneAlways ==
  ASSUME OneAtATime
  PROVE  Spec => []OneInv
<1>1. Init => OneInv
  BY OneInit
<1>2. OneInv /\ [Next]_vars => OneInv'
  BY OneStep
<1> QED BY <1>1, <1>2, PTL DEF Spec

(* With one request at a time, and rejections entered with their pieces, no *)
(* step of any order is ever ahead of the one before it, and between two    *)
(* requests every order is in one book unless the process was killed.       *)
THEOREM LedgerKept == OneAtATime /\ ~LateRejects /\ Spec => []LedgerInv
<1> SUFFICES ASSUME OneAtATime, ~LateRejects PROVE Spec => []LedgerInv
  OBVIOUS
<1>1. OneInv => LedgerInv
  <2> SUFFICES ASSUME OneInv PROVE LedgerInv
    OBVIOUS
  <2>1. TypeOK
    BY DEF OneInv, TypeInv, TypeOK, Known, Request
  <2>2. OneBook
    <3>1. PICK r \in Requests : Requests = {r}
      BY DEF OneAtATime
    <3> QED BY <3>1 DEF OneInv, BooksOK, OneBook, Quiet, At, Moving
  <2>3. StepsInOrder
    BY DEF OneInv, InOrder, StepsFollow, StepsInOrder
  <2> QED BY <2>1, <2>2, <2>3 DEF LedgerInv
<1> QED BY <1>1, OneAlways, PTL

(* Any number of requests, those that rewrite the list alone.  What a       *)
(* rewriter read is still the list when it writes it back.                  *)
Rewrites(q) == q.op \notin Appending \cup {"none"}

AloneInv ==
    /\ TypeInv
    /\ \A r \in Requests :
         /\ AboutOK(req[r])
         /\ Rewrites(req[r]) => \A s \in Requests \ {r} : At(s, "idle")
         /\ At(r, "rewrite") =>
              req[r].kept = IF req[r].op = "rollback" THEN actuals \ req[r].punch
                            ELSE {e \in actuals : e.order \notin req[r].order}

(* A request begins only where its users may, goes on with what it began, and *)
(* leaves the others alone.                                                 *)
LEMMA OneMoves ==
  ASSUME TypeInv, TypeInv', NEW r \in Requests,
         \/ PunchBegins(r) \/ PunchChecked(r) \/ PunchAppended(r)
         \/ CompleteBegins(r) \/ Archived(r)
         \/ RollbackBegins(r) \/ Rewrite(r) \/ Recheck(r) \/ Unarchived(r)
         \/ DeleteBegins(r) \/ Deleted(r)
         \/ ClearBegins(r) \/ Cleared(r)
  PROVE  /\ \A s \in Requests \ {r} : req'[s] = req[s]
         /\ \/ At(r, "idle") /\ UNCHANGED actuals /\ \E os : MayBegin(r, req'[r].op, os)
            \/ ~At(r, "idle") /\ req'[r].op \in {req[r].op, "none"}
<1> USE DEF At
<1>1. \A q : Serves(r, q) => \A s \in Requests \ {r} : req'[s] = req[s]
  BY DEF TypeInv, Serves
<1>2. \A at \in Calls : GoOn(r, at) => (\A s \in Requests \ {r} : req'[s] = req[s]) /\ req'[r].op = req[r].op
  BY <1>1, Served DEF GoOn, Holds
<1>3. Done(r) => (\A s \in Requests \ {r} : req'[s] = req[s]) /\ req'[r].op = "none"
  BY <1>1, Served DEF Done, Holds
<1>4. CASE PunchBegins(r)
  <2>1. At(r, "idle") /\ UNCHANGED actuals
    BY <1>4 DEF PunchBegins
  <2>2. PICK o, q : MayBegin(r, "punch", {o}) /\ Serves(r, q)
    BY <1>4, ZenonT(60) DEF PunchBegins
  <2>3. req'[r].op = "punch"
    BY <1>4, PunchHolds DEF Holds
  <2> QED BY <1>1, <2>1, <2>2, <2>3
<1>5. CASE PunchChecked(r)
  <2>1. ASSUME ~Done(r) PROVE (\A s \in Requests \ {r} : req'[s] = req[s]) /\ req'[r].op = req[r].op
    <3>1. PICK q : /\ Serves(r, q)
                   /\ Holds(q, req[r].op, "append", req[r].order, req[r].punch, req[r].inBook, actuals)
      BY <1>5, <2>1, PunchPasses
    <3>2. req'[r].op = req[r].op
      BY <3>1, Served DEF Holds
    <3> QED BY <1>1, <3>1, <3>2
  <2> QED BY <1>3, <1>5, <2>1 DEF PunchChecked
<1>6. CASE PunchAppended(r) \/ Archived(r) \/ Unarchived(r) \/ Cleared(r)
  BY <1>2, <1>3, <1>6 DEF PunchAppended, Archived, Unarchived, Cleared, Calls
<1>7. CASE Rewrite(r) \/ Recheck(r)
  BY <1>2, <1>3, <1>7 DEF Rewrite, Rewritten, Recheck, Calls
<1>8. CASE CompleteBegins(r)
  <2>1. PICK o, q : Serves(r, q) /\ Holds(q, "complete", "toArchive", {o}, {}, TRUE, {})
    BY <1>8, Begins
  <2>2. \E os : MayBegin(r, "complete", os)
    BY <1>8 DEF CompleteBegins
  <2>3. At(r, "idle") /\ UNCHANGED actuals
    BY <1>8 DEF CompleteBegins
  <2>4. req'[r].op = "complete"
    BY <2>1, Served DEF Holds
  <2> QED BY <1>1, <2>1, <2>2, <2>3, <2>4
<1>9. CASE RollbackBegins(r)
  <2>1. PICK e, q : Serves(r, q) /\ Holds(q, "rollback", "rewrite", {e.order}, {e}, FALSE, actuals \ {e})
    BY <1>9, Begins
  <2>2. \E os : MayBegin(r, "rollback", os)
    BY <1>9 DEF RollbackBegins
  <2>3. At(r, "idle") /\ UNCHANGED actuals
    BY <1>9 DEF RollbackBegins
  <2>4. req'[r].op = "rollback"
    BY <2>1, Served DEF Holds
  <2> QED BY <1>1, <2>1, <2>2, <2>3, <2>4
<1>10. CASE DeleteBegins(r)
  <2>1. PICK o, q : Serves(r, q) /\ Holds(q, "delete", "dropActive", {o}, {}, FALSE, {})
    BY <1>10, Begins
  <2>2. \E os : MayBegin(r, "delete", os)
    BY <1>10 DEF DeleteBegins
  <2>3. At(r, "idle") /\ UNCHANGED actuals
    BY <1>10 DEF DeleteBegins
  <2>4. req'[r].op = "delete"
    BY <2>1, Served DEF Holds
  <2> QED BY <1>1, <2>1, <2>2, <2>3, <2>4
<1>11. CASE ClearBegins(r)
  <2>1. PICK q : Serves(r, q) /\ Holds(q, "clear", "clearActive", {}, {}, FALSE, {})
    BY <1>11, Begins
  <2>2. \E os : MayBegin(r, "clear", os)
    BY <1>11 DEF ClearBegins
  <2>3. At(r, "idle") /\ UNCHANGED actuals
    BY <1>11 DEF ClearBegins
  <2>4. req'[r].op = "clear"
    BY <2>1, Served DEF Holds
  <2> QED BY <1>1, <2>1, <2>2, <2>3, <2>4
<1>12. CASE Deleted(r)
  <2>1. CASE At(r, "readList")
    <3> DEFINE left == {e \in actuals : ~Its(r, e.order)}
               q == [req[r] EXCEPT !.at = "rewrite", !.kept = left]
    <3>1. left \in SUBSET Entry /\ Serves(r, q)
      BY <1>12, <2>1 DEF Deleted, TypeInv, Known
    <3>2. Holds(q, req[r].op, "rewrite", req[r].order, req[r].punch, req[r].inBook, left)
      BY <3>1, ListRead
    <3>3. req'[r] = q
      BY <3>1, Served
    <3> QED BY <1>1, <2>1, <3>1, <3>2, <3>3 DEF Holds
  <2>2. CASE ~At(r, "readList")
    BY <1>2, <1>12, <2>2 DEF Deleted, Calls
  <2> QED BY <2>1, <2>2
<1> QED BY <1>4, <1>5, <1>6, <1>7, <1>8, <1>9, <1>10, <1>11, <1>12

(* What a request read for its rewrite, when it reads and until it writes.   *)
LEMMA ReadStep ==
  ASSUME TypeInv, TypeInv', NEW r \in Requests, AboutOK(req[r]), req'[r].at = "rewrite",
         \/ PunchBegins(r) \/ PunchChecked(r) \/ PunchAppended(r)
         \/ CompleteBegins(r) \/ Archived(r)
         \/ RollbackBegins(r) \/ Rewrite(r) \/ Recheck(r) \/ Unarchived(r)
         \/ DeleteBegins(r) \/ Deleted(r)
         \/ ClearBegins(r) \/ Cleared(r)
  PROVE  req'[r].kept = IF req'[r].op = "rollback" THEN actuals' \ req'[r].punch
                        ELSE {e \in actuals' : e.order \notin req'[r].order}
<1> USE DEF At
<1>1. \A at \in Calls : GoOn(r, at) => req'[r].at = at
  BY Served DEF Holds
<1>2. ~Done(r)
  BY Served DEF Holds
<1>3. ~PunchBegins(r)
  BY PunchHolds DEF Holds
<1>4. ~PunchChecked(r)
  BY <1>2, PunchPasses, Served DEF Holds
<1>5. ~PunchAppended(r) /\ ~Archived(r) /\ ~Unarchived(r) /\ ~Cleared(r)
  BY <1>1, <1>2 DEF PunchAppended, Archived, Unarchived, Cleared, Calls
<1>6. ~Rewrite(r) /\ ~Recheck(r)
  BY <1>1, <1>2 DEF Rewrite, Rewritten, Recheck, Calls
<1>7. ~CompleteBegins(r) /\ ~DeleteBegins(r) /\ ~ClearBegins(r)
  BY Begins, Served DEF Holds
<1>8. CASE RollbackBegins(r)
  <2>1. PICK e, q : Serves(r, q) /\ Holds(q, "rollback", "rewrite", {e.order}, {e}, FALSE, actuals \ {e})
    BY <1>8, Begins
  <2>2. req'[r] = q /\ UNCHANGED actuals
    BY <1>8, <2>1, Served DEF RollbackBegins
  <2> QED BY <2>1, <2>2 DEF Holds
<1>9. CASE Deleted(r)
  <2>0. req[r].op = "delete"
    BY <1>9, RequestTypes DEF Deleted, AboutOK, Request, Ops
  <2> DEFINE left == {e \in actuals : e.order \notin req[r].order}
  <2>1. /\ left \in SUBSET Entry /\ UNCHANGED actuals
        /\ req'[r] = [req[r] EXCEPT !.at = "rewrite", !.kept = left]
    BY <1>1, <1>9, Served DEF Deleted, Its, TypeInv, Known, Calls
  <2>2. left = {e \in actuals : e.order \notin req[r].order}
    OBVIOUS
  <2> HIDE DEF left
  <2>3. Holds(req'[r], req[r].op, "rewrite", req[r].order, req[r].punch, req[r].inBook, left)
    BY <2>1, ListRead
  <2> QED BY <2>0, <2>1, <2>2, <2>3 DEF Holds
<1> QED BY <1>3, <1>4, <1>5, <1>6, <1>7, <1>8, <1>9

(* The invariant holds after every step, of whichever request. *)
LEMMA AloneStep ==
  ASSUME RewritesAlone, AloneInv, [Next]_vars
  PROVE  AloneInv'
<1>0. TypeInv /\ TypeInv'
  BY TypeStep DEF AloneInv
<1>1. CASE UNCHANGED vars
  BY <1>0, <1>1 DEF vars, AloneInv, At, Rewrites
<1>2. CASE \E o \in Orders : OrderAdded(o)
  <2>1. UNCHANGED <<actuals, req>>
    BY <1>2 DEF OrderAdded
  <2> QED BY <1>0, <2>1 DEF AloneInv, At, Rewrites
<1>3. CASE Restart
  <2>1. \A r \in Requests : req'[r].op = "none" /\ req'[r].at = "idle"
    BY <1>3, IdleHolds DEF Restart, Holds
  <2> QED BY <1>0, <2>1 DEF AloneInv, AboutOK, At, Rewrites
<1>4. ASSUME NEW r \in Requests,
             \/ PunchBegins(r) \/ PunchChecked(r) \/ PunchAppended(r)
             \/ CompleteBegins(r) \/ Archived(r)
             \/ RollbackBegins(r) \/ Rewrite(r) \/ Recheck(r) \/ Unarchived(r)
             \/ DeleteBegins(r) \/ Deleted(r)
             \/ ClearBegins(r) \/ Cleared(r)
      PROVE  AloneInv'
  <2>1. /\ \A s \in Requests \ {r} : req'[s] = req[s]
        /\ \/ At(r, "idle") /\ UNCHANGED actuals /\ \E os : MayBegin(r, req'[r].op, os)
           \/ ~At(r, "idle") /\ req'[r].op \in {req[r].op, "none"}
    BY <1>0, <1>4, OneMoves
  <2>2. AboutOK(req'[r])
    BY <1>0, <1>4, AboutStep DEF AloneInv
  <2>3. \A s \in Requests : AboutOK(req[s]) /\ req[s] \in Request /\ req'[s] \in Request
    BY <1>0 DEF AloneInv, TypeInv
  <2>4. ASSUME NEW s \in Requests \ {r}, Rewrites(req[s])
        PROVE  FALSE
    <3>1. At(r, "idle") /\ ~At(s, "idle")
      BY <2>3, <2>4 DEF AloneInv, Rewrites, Appending, AboutOK, At, Request, Ops
    <3>2. PICK os : MayBegin(r, req'[r].op, os)
      BY <2>1, <3>1
    <3>3. req[s].op \in Appending
      BY <3>1, <3>2 DEF MayBegin
    <3> QED BY <2>4, <3>3 DEF Rewrites
  <2>5. Rewrites(req'[r]) => \A s \in Requests \ {r} : At(s, "idle")'
    <3> SUFFICES ASSUME Rewrites(req'[r]), NEW s \in Requests \ {r} PROVE At(s, "idle")
      BY <2>1 DEF At
    <3>1. CASE ~At(r, "idle")
      BY <2>1, <3>1 DEF AloneInv, Rewrites
    <3>2. CASE At(r, "idle")
      BY <2>1, <3>2 DEF MayBegin, Rewrites
    <3> QED BY <3>1, <3>2
  <2>6. At(r, "rewrite")' =>
              req'[r].kept = IF req'[r].op = "rollback" THEN actuals' \ req'[r].punch
                             ELSE {e \in actuals' : e.order \notin req'[r].order}
    <3> SUFFICES ASSUME At(r, "rewrite")'
                 PROVE  req'[r].kept = IF req'[r].op = "rollback" THEN actuals' \ req'[r].punch
                                       ELSE {e \in actuals' : e.order \notin req'[r].order}
      OBVIOUS
    <3>1. req'[r].at = "rewrite"
      BY DEF At
    <3> QED BY <1>0, <1>4, <3>1, ReadStep DEF AloneInv
  <2>7. ASSUME NEW s \in Requests \ {r}
        PROVE  /\ ~Rewrites(req'[s])
               /\ ~At(s, "rewrite")'
    <3>1. ~Rewrites(req[s])
      BY <2>4
    <3>2. ~At(s, "rewrite")
      BY <2>3, <3>1 DEF Rewrites, Appending, AboutOK, At, Request, Ops
    <3> QED BY <2>1, <3>1, <3>2 DEF At
  <2>8. \A s \in Requests : AboutOK(req'[s])
    BY <2>1, <2>2, <2>3
  <2> QED BY <1>0, <2>5, <2>6, <2>7, <2>8 DEF AloneInv
<1> QED BY <1>1, <1>2, <1>3, <1>4 DEF Next

(* No request is served at the start. *)
LEMMA AloneAlways ==
  ASSUME RewritesAlone
  PROVE  Spec => []AloneInv
<1>1. Init => AloneInv
  <2> SUFFICES ASSUME Init PROVE AloneInv
    OBVIOUS
  <2>1. \A r \in Requests : req[r].op = "none" /\ req[r].at = "idle"
    BY IdleHolds DEF Init, Holds
  <2> QED BY <2>1, TypeInit DEF AloneInv, AboutOK, At, Rewrites
<1>2. AloneInv /\ [Next]_vars => AloneInv'
  BY AloneStep
<1> QED BY <1>1, <1>2, PTL DEF Spec

(* However many users append at once: a saved punch leaves the list only when *)
(* it is rolled back itself, with its order, or while the one request that  *)
(* rewrites the list holds it, which puts it back unless it is killed.      *)
THEOREM SavedPunchesStay == RewritesAlone /\ Spec => PunchesStay
<1> SUFFICES ASSUME RewritesAlone PROVE Spec => PunchesStay
  OBVIOUS
<1>1. AloneInv /\ [Next]_vars =>
        [/\ \A e \in actuals \ actuals' :
              \/ Works(e.order, {"delete", "clear"})
              \/ \E r \in Requests : Removes(r, e) \/ PutsBack(r, e)
         /\ \A r \in Requests :
              At(r, "push") /\ req'[r] # req[r] => req[r].kept \subseteq actuals' \/ crashes' # crashes]_vars
  <2> SUFFICES ASSUME AloneInv, Next
               PROVE  /\ \A e \in actuals \ actuals' :
                           \/ Works(e.order, {"delete", "clear"})
                           \/ \E r \in Requests : Removes(r, e) \/ PutsBack(r, e)
                      /\ \A r \in Requests :
                           At(r, "push") /\ req'[r] # req[r] => req[r].kept \subseteq actuals' \/ crashes' # crashes
    BY DEF vars
  <2>0. TypeInv /\ TypeInv'
    BY TypeStep DEF AloneInv
  <2>1. CASE \E o \in Orders : OrderAdded(o)
    BY <2>1 DEF OrderAdded
  <2>2. CASE Restart
    <3>1. crashes' # crashes /\ UNCHANGED actuals
      BY <2>0, <2>2, LedgerAssumption DEF Restart, TypeInv
    <3> QED BY <3>1
  <2>3. ASSUME NEW r \in Requests,
               \/ PunchBegins(r) \/ PunchChecked(r) \/ PunchAppended(r)
               \/ CompleteBegins(r) \/ Archived(r)
               \/ RollbackBegins(r) \/ Rewrite(r) \/ Recheck(r) \/ Unarchived(r)
               \/ DeleteBegins(r) \/ Deleted(r)
               \/ ClearBegins(r) \/ Cleared(r)
        PROVE  /\ \A e \in actuals \ actuals' :
                    \/ Works(e.order, {"delete", "clear"})
                    \/ \E s \in Requests : Removes(s, e) \/ PutsBack(s, e)
               /\ \A s \in Requests :
                    At(s, "push") /\ req'[s] # req[s] => req[s].kept \subseteq actuals' \/ crashes' # crashes
    <3>1. req[r] \in Request /\ AboutOK(req[r]) /\ \A s \in Requests \ {r} : req'[s] = req[s]
      BY <2>0, <2>3, OneMoves DEF AloneInv, TypeInv
    <3>2. ASSUME NEW s \in Requests, At(s, "push"), req'[s] # req[s]
          PROVE  req[s].kept \subseteq actuals'
      <4>1. s = r
        BY <3>1, <3>2
      <4>2. Rewrite(r)
        BY <2>3, <3>2, <4>1 DEF At, PunchBegins, PunchChecked, PunchAppended, CompleteBegins, Archived,
             RollbackBegins, Recheck, Unarchived, DeleteBegins, Deleted, ClearBegins, Cleared
      <4> QED BY <3>2, <4>1, <4>2 DEF Rewrite, At
    <3>3. ASSUME NEW e \in actuals, e \notin actuals'
          PROVE  \/ Works(e.order, {"delete", "clear"})
                 \/ \E s \in Requests : Removes(s, e) \/ PutsBack(s, e)
      <4>1. CASE Cleared(r)
        <5>1. req[r].op = "clear"
          BY <3>1, <4>1 DEF Cleared, At, AboutOK, Request, Ops
        <5> QED BY <5>1 DEF Works
      <4>2. CASE Rewrite(r)
        <5>1. At(r, "rewrite")
          BY <3>3, <4>2 DEF Rewrite
        <5>2. req[r].op \in {"rollback", "delete"}
          BY <3>1, <5>1 DEF At, AboutOK, Request, Ops
        <5>3. req[r].kept = IF req[r].op = "rollback" THEN actuals \ req[r].punch
                            ELSE {f \in actuals : f.order \notin req[r].order}
          BY <5>1 DEF AloneInv
        <5>4. CASE e \in req[r].kept
          <6>1. GoOn(r, "push")
            BY <3>3, <4>2, <5>1, <5>4 DEF Rewrite, At
          <6>2. req'[r].at = "push"
            BY <2>0, <6>1, Served DEF Holds, Calls
          <6> QED BY <5>4, <6>2 DEF PutsBack
        <5>5. CASE e \notin req[r].kept /\ req[r].op = "rollback"
          BY <5>3, <5>5 DEF Removes
        <5>6. CASE e \notin req[r].kept /\ req[r].op = "delete"
          BY <5>3, <5>6 DEF Works, Its
        <5> QED BY <5>2, <5>4, <5>5, <5>6
      <4>3. ~UNCHANGED actuals /\ ~PunchAppended(r)
        BY <3>3 DEF PunchAppended
      <4> QED BY <2>3, <4>1, <4>2, <4>3
              DEF PunchBegins, PunchChecked, CompleteBegins, Archived, RollbackBegins, Recheck,
                  Unarchived, DeleteBegins, Deleted, ClearBegins
    <3> QED BY <3>2, <3>3
  <2> QED BY <2>1, <2>2, <2>3 DEF Next
<1> QED BY <1>1, AloneAlways, PTL DEF PunchesStay, Spec

(* An order leaves both books only with an admin's delete, wherever the     *)
(* process is killed.                                                       *)
THEOREM OrdersNotLost == OneAtATime /\ Spec => OrdersStay
<1> SUFFICES ASSUME OneAtATime PROVE Spec => OrdersStay
  OBVIOUS
<1>1. OneInv /\ [Next]_vars =>
        [\A o \in (active \cup archive) \ (active' \cup archive') : Works(o, {"delete", "clear"})]_vars
  <2> SUFFICES ASSUME OneInv, Next, NEW o \in active \cup archive, o \notin active' \cup archive'
               PROVE  Works(o, {"delete", "clear"})
    BY DEF vars
  <2>1. PICK r \in Requests : Requests = {r}
    BY DEF OneAtATime
  <2>2. req[r] \in Request /\ AboutOK(req[r]) /\ BooksOK(req[r])
    BY DEF OneInv, TypeInv
  <2>3. CASE Cleared(r)
    <3>1. req[r].op = "clear"
      BY <2>2, <2>3 DEF Cleared, At, AboutOK, Request, Ops
    <3> QED BY <3>1 DEF Works
  <2>4. CASE Deleted(r)
    <3>1. req[r].op = "delete"
      BY <2>2, <2>4 DEF Deleted, At, AboutOK, Request, Ops
    <3>2. Its(r, o)
      BY <2>4 DEF Deleted, Its
    <3> QED BY <3>1, <3>2 DEF Works
  <2>5. CASE Archived(r)
    BY <2>2, <2>5 DEF Archived, At, BooksOK
  <2>6. CASE Unarchived(r)
    BY <2>2, <2>6 DEF Unarchived, At, BooksOK
  <2>7. CASE (\E p \in Orders : OrderAdded(p)) \/ UNCHANGED <<active, archive>>
    BY <2>7 DEF OrderAdded
  <2> QED BY <2>1, <2>3, <2>4, <2>5, <2>6, <2>7
          DEF Next, PunchBegins, PunchChecked, PunchAppended, CompleteBegins, RollbackBegins, Rewrite, Recheck,
              DeleteBegins, ClearBegins, Restart
<1> QED BY <1>1, OneAlways, PTL DEF OrdersStay, Spec

(* A rolled-back "mark complete" ends with its order active again, or still *)
(* marked by another punch; it never returns an order that is still marked. *)
THEOREM UndoneMarkReturns == OneAtATime /\ Spec => RollbackReturns
<1> SUFFICES ASSUME OneAtATime PROVE Spec => RollbackReturns
  OBVIOUS
<1>1. OneInv /\ [Next]_vars =>
        [\A r \in Requests, o \in Orders : UndoesMark(r, o) /\ crashes' = crashes =>
           /\ req'[r] = Idle /\ o \in active' \cup archive' => StillMarked(o)' \/ o \in active'
           /\ At(r, "toActive") /\ req'[r] # req[r] => ~StillMarked(o)]_vars
  <2> SUFFICES ASSUME OneInv, Next, NEW r \in Requests, NEW o \in Orders,
                      UndoesMark(r, o), crashes' = crashes
               PROVE  /\ req'[r] = Idle /\ o \in active' \cup archive' => StillMarked(o)' \/ o \in active'
                      /\ At(r, "toActive") /\ req'[r] # req[r] => ~StillMarked(o)
    BY DEF vars
  <2>1. Requests = {r}
    BY DEF OneAtATime
  <2>2. /\ req[r] \in Request /\ AboutOK(req[r]) /\ BooksOK(req[r]) /\ ListOK(req[r])
        /\ TypeInv
    BY DEF OneInv, TypeInv
  <2>3. /\ req[r].op = "rollback" /\ req[r].order = {o} /\ \E e \in req[r].punch : e.mark
        /\ req[r].at \in {"rewrite", "push", "recheck", "toActive", "outOfArchive"}
    BY <2>2 DEF UndoesMark, Its, AboutOK
  <2>4. At(r, "toActive") => ~StillMarked(o)
    BY <2>2, <2>3 DEF ListOK, At, StillMarked
  <2>5. SUFFICES ASSUME req'[r] = Idle, o \in active' \cup archive'
                 PROVE  StillMarked(o)' \/ o \in active'
    BY <2>4
  <2>6. /\ \A at \in Calls : GoOn(r, at) => at = "idle"
        /\ Idle.op = "none"
    <3>1. Idle.at = "idle" /\ Idle.op = "none"
      BY IdleHolds DEF Holds
    <3> QED BY <2>2, <2>5, <3>1, Served DEF Holds
  <2>7. CASE Rewrite(r)
    BY <2>3, <2>6, <2>7 DEF Rewrite, Rewritten, Calls
  <2>8. CASE Recheck(r)
    <3>1. UNCHANGED <<active, archive, actuals>>
      BY <2>8 DEF Recheck
    <3>2. ~((\E p \in archive : Its(r, p)) /\ ~(\E e \in actuals : Its(r, e.order) /\ e.mark))
      BY <2>6, <2>8 DEF Recheck, Calls
    <3> QED BY <2>3, <2>5, <3>1, <3>2 DEF StillMarked, Its
  <2>9. CASE Unarchived(r)
    <3>1. At(r, "outOfArchive") /\ UNCHANGED active
      BY <2>6, <2>9 DEF Unarchived, Calls
    <3> QED BY <2>2, <2>3, <3>1 DEF BooksOK, At
  <2>10. ~UNCHANGED req
    BY <2>3, <2>5, <2>6
  <2>11. ~Restart
    BY <2>2, LedgerAssumption DEF Restart, TypeInv
  <2>12. ~\E p \in Orders : OrderAdded(p)
    BY <2>10 DEF OrderAdded
  <2>13. /\ ~PunchBegins(r) /\ ~PunchChecked(r) /\ ~PunchAppended(r)
         /\ ~CompleteBegins(r) /\ ~Archived(r) /\ ~RollbackBegins(r)
         /\ ~DeleteBegins(r) /\ ~Deleted(r) /\ ~ClearBegins(r) /\ ~Cleared(r)
    BY <2>3 DEF At, PunchBegins, PunchChecked, PunchAppended, CompleteBegins, Archived, RollbackBegins,
                DeleteBegins, Deleted, ClearBegins, Cleared
  <2> QED BY <2>1, <2>7, <2>8, <2>9, <2>11, <2>12, <2>13 DEF Next
<1> QED BY <1>1, OneAlways, PTL DEF RollbackReturns, Spec
=============================================================================
