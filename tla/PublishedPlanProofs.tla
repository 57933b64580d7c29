------------------------ MODULE PublishedPlanProofs ------------------------
(* Proofs about PublishedPlan for every set of order lines and requests.     *)
EXTENDS PublishedPlan, TLAPS

(* The constants of the records are of the records' types. *)
LEMMA Constants ==
    /\ NoPlan \in Rows /\ Idle \in Request /\ 0 \in Plans
    /\ Idle.at = "idle" /\ {} \subseteq Lines /\ <<>> \in Seq(SUBSET Lines)
<1>1. 0 \in Plans
  BY PlanAssumption DEF Plans
<1>2. NoPlan \in Rows
  BY <1>1 DEF NoPlan, Rows, Kinds
<1>3. <<>> \in Seq(SUBSET Lines)
  OBVIOUS
<1>4. [rows |-> NoPlan, meta |-> 0, frozen |-> 0, queue |-> <<>>] \in Old
  BY <1>1, <1>2, <1>3 DEF Old
<1>5. Idle \in Request
  BY <1>1, <1>4 DEF Idle, Request, Ats
<1> QED BY <1>1, <1>2, <1>3, <1>5 DEF Idle

(* A request that moves on keeps its operation, its candidate and what it     *)
(* read. *)
LEMMA Moves ==
  ASSUME req \in [Requests -> Request], NEW r \in Requests, NEW at \in Ats, GoOn(r, at)
  PROVE  /\ req' \in [Requests -> Request] /\ req'[r].at = at
         /\ req'[r].plan = req[r].plan /\ req'[r].op = req[r].op /\ req'[r].new = req[r].new
         /\ req'[r].covers = req[r].covers /\ req'[r].old = req[r].old
         /\ \A q \in Requests : q # r => req'[q] = req[q]
<1>1. [req[r] EXCEPT !.at = at] \in Request
  BY DEF Request
<1>2. /\ [req[r] EXCEPT !.at = at].at = at /\ [req[r] EXCEPT !.at = at].plan = req[r].plan
      /\ [req[r] EXCEPT !.at = at].op = req[r].op /\ [req[r] EXCEPT !.at = at].new = req[r].new
      /\ [req[r] EXCEPT !.at = at].covers = req[r].covers
      /\ [req[r] EXCEPT !.at = at].old = req[r].old
  BY DEF Request
<1> QED BY <1>1, <1>2 DEF GoOn

(* A request that ends is idle. *)
LEMMA Ends ==
  ASSUME req \in [Requests -> Request], NEW r \in Requests, Done(r)
  PROVE  /\ req' \in [Requests -> Request] /\ req'[r].at = "idle" /\ req'[r].op = "none"
         /\ \A q \in Requests : q # r => req'[q] = req[q]
  BY Constants DEF Done, Idle

(* So is a request set to another record. *)
LEMMA Sets ==
  ASSUME req \in [Requests -> Request], NEW r \in Requests, NEW q \in Request,
         req' = [req EXCEPT ![r] = q]
  PROVE  /\ req' \in [Requests -> Request] /\ req'[r] = q
         /\ \A p \in Requests : p # r => req'[p] = req[p]
  OBVIOUS

(* What a request read is of its type. *)
LEMMA ReadsOK == StoredOK => Reads \in Old
  BY DEF StoredOK, Reads, Old

(* A candidate is a well-formed request at its first write. *)
LEMMA BuildsOK ==
  ASSUME StoredOK, req \in [Requests -> Request], NEW r \in Requests,
         NEW op \in AllOps \cup {"none"}, NEW new \in SUBSET Lines, Builds(r, op, new)
  PROVE  /\ plans' \in Plans /\ req' \in [Requests -> Request]
         /\ req'[r].at = "rows" /\ req'[r].op = op /\ req'[r].plan = plans' /\ req'[r].new = new
         /\ req'[r].covers = book \cup new /\ req'[r].old = Reads
         /\ \A q \in Requests : q # r => req'[q] = req[q]
<1>1. plans' \in Plans
  BY PlanAssumption DEF Builds, StoredOK, Plans
<1> DEFINE q == [op |-> op, at |-> "rows", plan |-> plans', new |-> new,
                 covers |-> book \cup new, old |-> Reads]
<1>2. q \in Request
  BY <1>1, ReadsOK DEF Request, StoredOK, Ats
<1>3. /\ q.at = "rows" /\ q.op = op /\ q.plan = plans' /\ q.new = new /\ q.covers = book \cup new
      /\ q.old = Reads /\ req' = [req EXCEPT ![r] = q]
  BY DEF Builds
<1> QED BY <1>1, <1>2, <1>3, Sets

(* The publish lock of a request that neither takes nor gives it back.       *)
LEMMA LockKept ==
  ASSUME LockHeld, NEW r \in Requests, pubLock' = pubLock,
         req[r].at \notin {"meta", "unmeta"}, req'[r].at \notin {"meta", "unmeta"},
         \A q \in Requests : q # r => req'[q] = req[q]
  PROVE  LockHeld'
  BY DEF LockHeld

(* A request takes the publish lock with its write of the rows.              *)
LEMMA LockTaken ==
  ASSUME LockHeld, NoOne \notin Requests, NEW r \in Requests, pubLock = NoOne, pubLock' = r,
         req'[r].at \in {"meta", "unmeta"}, \A q \in Requests : q # r => req'[q] = req[q]
  PROVE  LockHeld'
  BY DEF LockHeld

(* The holder gives the publish lock back with its write of the meta.        *)
LEMMA LockFreed ==
  ASSUME LockHeld, NoOne \notin Requests, NEW r \in Requests, pubLock' = NoOne,
         req[r].at \in {"meta", "unmeta"}, req'[r].at \notin {"meta", "unmeta"},
         \A q \in Requests : q # r => req'[q] = req[q]
  PROVE  LockHeld'
  BY DEF LockHeld

(* The fields that need no argument about the locks. *)
FieldsOK ==
    /\ StoredOK /\ result \in {"none", "full", "quote"}
    /\ optLock \in Requests \cup {NoOne} /\ pubLock \in Requests \cup {NoOne}

(* The steps of a request under way keep the types. *)
LEMMA StepTypes ==
  ASSUME Typed, NEW r \in Requests, Step(r) PROVE Typed'
<1>0. /\ FieldsOK /\ LockHeld /\ req \in [Requests -> Request] /\ req[r] \in Request
      /\ NoOne \notin Requests
  BY PlanAssumption DEF Typed, FieldsOK
<1>r. /\ req[r].plan \in Plans /\ req[r].covers \subseteq Lines /\ req[r].new \subseteq Lines
      /\ req[r].op \in AllOps \cup {"none"} /\ req[r].old \in Old
  BY <1>0 DEF Request
<1>o. /\ req[r].old.rows \in Rows /\ req[r].old.meta \in Plans /\ req[r].old.frozen \in Plans
      /\ req[r].old.queue \in Seq(SUBSET Lines)
  BY <1>r DEF Old
<1>s. SUFFICES FieldsOK' /\ LockHeld' /\ req' \in [Requests -> Request]
  BY DEF Typed, FieldsOK
<1>1. CASE Take(r)
  <2>1. CASE Done(r) /\ UNCHANGED <<plans, optLock>>
    <3>1. FieldsOK'
      BY <1>0, <1>1, <2>1 DEF Take, FieldsOK, StoredOK, stored
    <3> QED BY <1>0, <1>1, <2>1, <3>1, Ends, LockKept DEF Take, At
  <2>2. CASE Builds(r, req[r].op, req[r].new) /\ optLock' = r
    <3>1. /\ plans' \in Plans /\ req' \in [Requests -> Request] /\ req'[r].at = "rows"
          /\ \A q \in Requests : q # r => req'[q] = req[q]
      BY <1>0, <1>r, <2>2, BuildsOK DEF FieldsOK
    <3>2. FieldsOK'
      BY <1>0, <1>1, <2>2, <3>1 DEF Take, FieldsOK, StoredOK, stored
    <3> QED BY <1>0, <1>1, <3>1, <3>2, LockKept DEF Take, At
  <2> QED BY <1>1, <2>1, <2>2 DEF Take
<1>2. CASE WriteRows(r)
  <2>1. NewRows(r) \in Rows
    BY <1>r DEF NewRows, Rows, KindOf, Kinds
  <2>2. FieldsOK'
    BY <1>0, <1>2, <2>1 DEF WriteRows, Fail, FailWrongly, Release, FieldsOK, StoredOK
  <2>3. CASE pubLock' = r /\ GoOn(r, "meta")
    BY <1>0, <1>2, <2>2, <2>3, Moves, LockTaken DEF WriteRows, At, Ats
  <2>4. CASE pubLock' = pubLock /\ (GoOn(r, "failed") \/ GoOn(r, "wrong"))
    BY <1>0, <1>2, <2>2, <2>4, Moves, LockKept DEF WriteRows, At, Ats
  <2> QED BY <1>2, <2>3, <2>4 DEF WriteRows, Fail, FailWrongly
<1>3. CASE WriteMeta(r)
  <2>1. FieldsOK'
    BY <1>0, <1>r, <1>3 DEF WriteMeta, FailWrongly, Release, FieldsOK, StoredOK
  <2>2. CASE GoOn(r, "frozen") \/ GoOn(r, "wrong")
    BY <1>0, <1>3, <2>1, <2>2, Moves, LockFreed DEF WriteMeta, At, Ats
  <2>3. CASE Done(r)
    BY <1>0, <1>3, <2>1, <2>3, Ends, LockFreed DEF WriteMeta, At
  <2> QED BY <1>3, <2>2, <2>3 DEF WriteMeta, Stamped, FailWrongly
<1>4. CASE WriteFrozen(r)
  <2>1. FieldsOK'
    BY <1>0, <1>r, <1>4 DEF WriteFrozen, FieldsOK, StoredOK
  <2> QED BY <1>0, <1>4, <2>1, Moves, LockKept DEF WriteFrozen, At, Ats
<1>5. CASE Undo(r)
  <2>1. FieldsOK'
    BY <1>0, <1>o, <1>5 DEF Undo, Fail, Breaks, Release, FieldsOK, StoredOK, stored
  <2>2. CASE At(r, "unrows") /\ pubLock = NoOne /\ pubLock' = r /\ GoOn(r, "unmeta")
    BY <1>0, <2>1, <2>2, Moves, LockTaken DEF At, Ats
  <2>3. CASE At(r, "unmeta") /\ pubLock' = NoOne /\ GoOn(r, "unfrozen")
    BY <1>0, <2>1, <2>3, Moves, LockFreed DEF At, Ats
  <2>4. CASE At(r, "unfrozen") /\ pubLock' = pubLock /\ GoOn(r, "failed")
    BY <1>0, <2>1, <2>4, Moves, LockKept DEF At, Ats
  <2>5. CASE At(r, "unmeta") /\ pubLock' = NoOne /\ Done(r)
    BY <1>0, <2>1, <2>5, Ends, LockFreed DEF At
  <2>6. CASE (At(r, "unrows") \/ At(r, "unfrozen")) /\ pubLock' = pubLock /\ Done(r)
    BY <1>0, <2>1, <2>6, Ends, LockKept DEF At
  <2> QED BY <1>5, <2>2, <2>3, <2>4, <2>5, <2>6 DEF Undo, Fail, Breaks
<1>6. CASE Answered(r) \/ Refreeze(r) \/ PutSaved(r) \/ ClearQueueAgain(r) \/ Pin(r)
  <2>1. rows' \in Rows
    <3>1. [req[r].old.rows EXCEPT !.lines = @ \cup (req[r].new \cap book)] \in Rows
      BY <1>0, <1>r, <1>o DEF Rows, FieldsOK, StoredOK
    <3> QED BY <1>0, <1>6, <3>1 DEF Answered, Refreeze, PutSaved, ClearQueueAgain, Pin, stored,
              FieldsOK, StoredOK
  <2>2. FieldsOK'
    BY <1>0, <1>r, <1>6, <2>1, Constants DEF Answered, Refreeze, PutSaved, ClearQueueAgain, Pin,
       stored, FieldsOK, StoredOK
  <2> QED BY <1>0, <1>6, <2>2, Ends, LockKept DEF Answered, Refreeze, PutSaved, ClearQueueAgain,
            Pin, At
<1>7. CASE WriteRanks(r) \/ ClearDrafts(r)
  <2>1. NewRanks(r) \in Plans
    BY <1>r, Constants DEF NewRanks
  <2>2. FieldsOK'
    BY <1>0, <1>7, <2>1, Constants DEF WriteRanks, ClearDrafts, Breaks, Release, FieldsOK, StoredOK
  <2>3. CASE GoOn(r, "queue") \/ GoOn(r, "pin") \/ GoOn(r, "requeue")
    BY <1>0, <1>7, <2>2, <2>3, Moves, LockKept DEF WriteRanks, ClearDrafts, At, Ats
  <2>4. CASE Done(r)
    BY <1>0, <1>7, <2>2, <2>4, Ends, LockKept DEF WriteRanks, ClearDrafts, At
  <2> QED BY <1>7, <2>3, <2>4 DEF WriteRanks, ClearDrafts, Breaks
<1>8. CASE ClearQueue(r)
  <2>1. FieldsOK'
    BY <1>0, <1>8, Constants DEF ClearQueue, Release, FieldsOK, StoredOK
  <2>2. CASE GoOn(r, "book")
    BY <1>0, <1>8, <2>1, <2>2, Moves, LockKept DEF ClearQueue, At, Ats
  <2>3. CASE Done(r)
    BY <1>0, <1>8, <2>1, <2>3, Ends, LockKept DEF ClearQueue, At
  <2> QED BY <1>8, <2>2, <2>3 DEF ClearQueue
<1>9. CASE QueuedThenBooked(r)
  <2>1. Append(req[r].old.queue, req[r].new) \in Seq(SUBSET Lines)
    BY <1>r, <1>o
  <2>2. FieldsOK'
    BY <1>0, <1>r, <1>9, <2>1 DEF QueuedThenBooked, FieldsOK, StoredOK
  <2> QED BY <1>0, <1>9, <2>2, Moves, LockKept DEF QueuedThenBooked, At, Ats
<1>10. CASE OtherFails(r)
  <2>1. FieldsOK'
    BY <1>0, <1>10 DEF OtherFails, Breaks, Release, FieldsOK, StoredOK, stored
  <2>2. req[r].at \notin {"meta", "unmeta"} /\ Done(r) /\ pubLock' = pubLock
    BY <1>10 DEF OtherFails, OtherWrites, Breaks
  <2> QED BY <1>0, <2>1, <2>2, Ends, LockKept
<1> QED BY <1>1, <1>2, <1>3, <1>4, <1>5, <1>6, <1>7, <1>8, <1>9, <1>10 DEF Step

(* Beginning a request takes no publish lock. *)
LEMMA BeginTypes ==
  ASSUME Typed, NEW r \in Requests,
         \/ ApplyBegins(r) \/ AcceptBegins(r) \/ ClearBegins(r) \/ SeedBegins(r)
         \/ DoneBegins(r) \/ PutBegins(r) \/ AddBegins(r)
  PROVE  Typed'
<1>0. /\ FieldsOK /\ LockHeld /\ req \in [Requests -> Request] /\ Idle \in Request
  BY Constants DEF Typed, FieldsOK
<1>s. SUFFICES FieldsOK' /\ LockHeld' /\ req' \in [Requests -> Request]
  BY DEF Typed, FieldsOK
<1>a. At(r, "idle")
  BY DEF ApplyBegins, AcceptBegins, ClearBegins, SeedBegins, DoneBegins, PutBegins, AddBegins, Begins
<1>1. ASSUME NEW q \in Request, req' = [req EXCEPT ![r] = q], q.at \notin {"meta", "unmeta"},
             UNCHANGED <<stored, result, plans, optLock, pubLock>>
      PROVE  FieldsOK' /\ LockHeld' /\ req' \in [Requests -> Request]
  <2>1. FieldsOK'
    BY <1>0, <1>1 DEF FieldsOK, StoredOK, stored
  <2> QED BY <1>0, <1>a, <1>1, <2>1, Sets, LockKept DEF At
<1>2. CASE ApplyBegins(r)
  <2>1. [Idle EXCEPT !.op = "apply", !.at = "take"] \in Request
    BY <1>0 DEF Request, AllOps, Ats
  <2>2. [Idle EXCEPT !.op = "apply", !.at = "take"].at = "take"
    BY <1>0 DEF Request
  <2> QED BY <1>1, <1>2, <2>1, <2>2 DEF ApplyBegins
<1>3. CASE AcceptBegins(r)
  <2>1. [Idle EXCEPT !.op = "accept", !.at = "take", !.new = drafts] \in Request
    BY <1>0 DEF Request, AllOps, Ats, FieldsOK, StoredOK
  <2>2. [Idle EXCEPT !.op = "accept", !.at = "take", !.new = drafts].at = "take"
    BY <1>0 DEF Request
  <2> QED BY <1>1, <1>3, <2>1, <2>2 DEF AcceptBegins
<1>4. CASE ClearBegins(r) \/ SeedBegins(r)
  <2>1. \E op \in AllOps \cup {"none"} : Builds(r, op, {})
    BY <1>4 DEF ClearBegins, SeedBegins, AllOps
  <2>2. /\ plans' \in Plans /\ req' \in [Requests -> Request] /\ req'[r].at = "rows"
        /\ \A q \in Requests : q # r => req'[q] = req[q]
    BY <1>0, <2>1, BuildsOK DEF FieldsOK
  <2>3. FieldsOK'
    BY <1>0, <1>4, <2>2 DEF ClearBegins, SeedBegins, FieldsOK, StoredOK, stored
  <2>4. pubLock' = pubLock
    BY <1>4 DEF ClearBegins, SeedBegins
  <2> QED BY <1>0, <1>a, <2>2, <2>3, <2>4, LockKept DEF At
<1>5. CASE DoneBegins(r)
  <2>1. [Idle EXCEPT !.op = "done", !.at = "refreeze", !.plan = rows.plan] \in Request
    BY <1>0 DEF Request, AllOps, Ats, FieldsOK, StoredOK, Rows
  <2>2. [Idle EXCEPT !.op = "done", !.at = "refreeze", !.plan = rows.plan].at = "refreeze"
    BY <1>0 DEF Request
  <2> QED BY <1>1, <1>5, <2>1, <2>2 DEF DoneBegins
<1>6. CASE PutBegins(r)
  <2>1. PICK ls \in SUBSET (Lines \ book) :
          req' = [req EXCEPT ![r] = [Idle EXCEPT !.op = "put", !.at = "save", !.new = ls]]
    BY <1>6 DEF PutBegins
  <2>2. [Idle EXCEPT !.op = "put", !.at = "save", !.new = ls] \in Request
    BY <1>0 DEF Request, AllOps, Ats
  <2>3. [Idle EXCEPT !.op = "put", !.at = "save", !.new = ls].at = "save"
    BY <1>0 DEF Request
  <2> QED BY <1>1, <1>6, <2>1, <2>2, <2>3 DEF PutBegins
<1>7. CASE AddBegins(r)
  <2>1. [Idle EXCEPT !.op = "add", !.at = "queue", !.new = drafts, !.old = Reads] \in Request
    BY <1>0, ReadsOK DEF Request, AllOps, Ats, FieldsOK, StoredOK
  <2>2. [Idle EXCEPT !.op = "add", !.at = "queue", !.new = drafts, !.old = Reads].at = "queue"
    BY <1>0 DEF Request
  <2> QED BY <1>1, <1>7, <2>1, <2>2 DEF AddBegins
<1> QED BY <1>2, <1>3, <1>4, <1>5, <1>6, <1>7

(* Every step keeps the types and the holder of the publish lock.            *)
LEMMA NextTypes == Typed /\ [Next]_vars => Typed'
<1> SUFFICES ASSUME Typed, [Next]_vars PROVE Typed'
  OBVIOUS
<1>0. /\ FieldsOK /\ LockHeld /\ req \in [Requests -> Request] /\ NoOne \notin Requests
  BY PlanAssumption DEF Typed, FieldsOK
<1>1. ASSUME NEW r \in Requests, Step(r) PROVE Typed'
  BY <1>1, StepTypes
<1>2. ASSUME NEW r \in Requests,
             \/ ApplyBegins(r) \/ AcceptBegins(r) \/ ClearBegins(r) \/ SeedBegins(r)
             \/ DoneBegins(r) \/ PutBegins(r) \/ AddBegins(r)
      PROVE  Typed'
  BY <1>2, BeginTypes
<1>3. CASE SearchMoves
  BY <1>0, <1>3 DEF SearchMoves, Typed, FieldsOK, StoredOK, LockHeld, stored
<1>4. ASSUME NEW o \in Lines, OrderGone(o) PROVE Typed'
  BY <1>0, <1>4 DEF OrderGone, Typed, FieldsOK, StoredOK, LockHeld
<1>5. CASE Restart
  <2>1. FieldsOK' /\ req' \in [Requests -> Request]
    BY <1>0, <1>5, Constants DEF Restart, FieldsOK, StoredOK, stored
  <2>2. LockHeld'
    BY <1>0, <1>5, Constants DEF Restart, LockHeld
  <2> QED BY <2>1, <2>2 DEF Typed, FieldsOK
<1>6. CASE UNCHANGED vars
  BY <1>0, <1>6 DEF vars, Typed, FieldsOK, StoredOK, LockHeld, stored
<1> QED BY <1>1, <1>2, <1>3, <1>4, <1>5, <1>6 DEF Next

(* Only a restart counts as a crash, and only below the bound. *)
LEMMA Counted ==
  crashes \in 0..MaxCrashes /\ torn \in BOOLEAN /\ [Next]_vars
    => crashes' \in 0..MaxCrashes /\ torn' \in BOOLEAN
<1> SUFFICES ASSUME crashes \in 0..MaxCrashes, torn \in BOOLEAN, [Next]_vars
             PROVE  crashes' \in 0..MaxCrashes /\ torn' \in BOOLEAN
  OBVIOUS
<1>1. ASSUME NEW r \in Requests, Step(r) PROVE crashes' = crashes /\ torn' \in {TRUE, FALSE, torn}
  <2>1. CASE Take(r) \/ WriteRows(r) \/ WriteMeta(r) \/ WriteFrozen(r) \/ Undo(r) \/ WriteRanks(r)
    BY <2>1 DEF Take, WriteRows, WriteMeta, Stamped, FailWrongly, WriteFrozen, Undo, WriteRanks
  <2>2. CASE ~(Take(r) \/ WriteRows(r) \/ WriteMeta(r) \/ WriteFrozen(r) \/ Undo(r) \/ WriteRanks(r))
    BY <1>1, <2>2 DEF Step, Answered, ClearQueue, Refreeze, PutSaved, QueuedThenBooked, ClearDrafts,
                      ClearQueueAgain, Pin, OtherFails
  <2> QED BY <2>1, <2>2
<1>2. ASSUME NEW r \in Requests,
             \/ ApplyBegins(r) \/ AcceptBegins(r) \/ ClearBegins(r) \/ SeedBegins(r)
             \/ DoneBegins(r) \/ PutBegins(r) \/ AddBegins(r)
      PROVE  crashes' = crashes /\ torn' = torn
  BY <1>2 DEF ApplyBegins, AcceptBegins, ClearBegins, SeedBegins, DoneBegins, PutBegins, AddBegins
<1>3. CASE SearchMoves \/ (\E o \in Lines : OrderGone(o)) \/ UNCHANGED vars
  BY <1>3 DEF SearchMoves, OrderGone, vars
<1>4. CASE Restart
  BY <1>4, PlanAssumption DEF Restart
<1> QED BY <1>1, <1>2, <1>3, <1>4 DEF Next

(* The first state is well typed and no lock is held. *)
LEMMA InitTypes == Init => TypeOK
<1>1. Init => Typed /\ crashes \in 0..MaxCrashes
  BY Constants, PlanAssumption DEF Init, Typed, StoredOK, LockHeld
<1>2. Init => torn \in BOOLEAN
  BY DEF Init
<1> QED BY <1>1, <1>2 DEF TypeOK

(* The types, and who holds the publish lock: a request holds it exactly from *)
(* its write of the rows to its write of the meta, whatever else runs, fails  *)
(* or is killed.                                                            *)
THEOREM TypeCorrect == Spec => []TypeOK
<1>1. TypeOK /\ [Next]_vars => TypeOK'
  BY NextTypes, Counted DEF TypeOK
<1> QED BY InitTypes, <1>1, PTL DEF Spec

-----------------------------------------------------------------------------
(* The publish lock, where nothing fails or is killed and nothing is added.  *)
Undisturbed == Fails = {} /\ "add" \notin Ops /\ MaxCrashes = 0

(* A step of another place in the program than the two writes of _publish.   *)
LEMMA ElsewhereOK ==
  ASSUME LockInv, NEW r \in Requests, UNCHANGED <<rows, meta, pubLock>>,
         req'[r].op # "add",
         req'[r].at \notin {"meta", "unrows", "unmeta", "unfrozen", "pin"},
         \A q \in Requests : q # r => req'[q] = req[q]
  PROVE  LockInv'
  BY DEF LockInv, PlanAndMeta, At

(* The steps of a request under way keep the rows and the meta together.     *)
LEMMA StepLocks ==
  ASSUME Undisturbed, Typed, LockInv, NEW r \in Requests, Step(r) PROVE LockInv'
<1>0. /\ req \in [Requests -> Request] /\ LockHeld /\ StoredOK /\ NoOne \notin Requests
      /\ req[r] \in Request
  BY PlanAssumption DEF Typed
<1>n. req[r].op # "add" /\ req[r].at \notin {"unrows", "unmeta", "unfrozen", "pin"}
  BY DEF LockInv
<1>1. CASE Take(r)
  <2>1. CASE Done(r)
    BY <1>0, <1>1, <2>1, Ends, ElsewhereOK DEF Take, stored
  <2>2. CASE Builds(r, req[r].op, req[r].new)
    <3>1. /\ req'[r].at = "rows" /\ req'[r].op = req[r].op
          /\ \A q \in Requests : q # r => req'[q] = req[q]
      <4>1. req[r].op \in AllOps \cup {"none"} /\ req[r].new \in SUBSET Lines
        BY <1>0 DEF Request
      <4> QED BY <1>0, <2>2, <4>1, BuildsOK
    <3> QED BY <1>1, <1>n, <3>1, ElsewhereOK DEF Take, stored
  <2> QED BY <1>1, <2>1, <2>2 DEF Take
<1>2. CASE WriteRows(r)
  <2>1. /\ pubLock = NoOne /\ pubLock' = r /\ GoOn(r, "meta")
        /\ rows' = [plan |-> req[r].plan, kind |-> KindOf(req[r].op), lines |-> req[r].covers]
    BY <1>2 DEF WriteRows, NewRows, Undisturbed
  <2>2. /\ req'[r].at = "meta" /\ req'[r].op = req[r].op /\ req'[r].plan = req[r].plan
        /\ \A q \in Requests : q # r => req'[q] = req[q]
    BY <1>0, <2>1, Moves DEF Ats
  <2>3. \A q \in Requests : q # r => req'[q].at # "meta"
    BY <1>0, <2>1, <2>2 DEF LockHeld
  <2>4. rows'.plan = req'[r].plan
    BY <2>1, <2>2
  <2> QED BY <1>0, <1>n, <2>1, <2>2, <2>3, <2>4 DEF LockInv, PlanAndMeta, At
<1>3. CASE WriteMeta(r)
  <2>1. pubLock' = NoOne /\ meta' = rows.plan /\ UNCHANGED rows /\ Stamped(r)
    BY <1>3 DEF WriteMeta, Undisturbed, LockInv, At
  <2>2. /\ req'[r].at \in {"frozen", "idle"} /\ req'[r].op # "add"
        /\ \A q \in Requests : q # r => req'[q] = req[q]
    BY <1>0, <1>n, <2>1, Moves, Ends DEF Stamped, Ats
  <2> QED BY <2>1, <2>2 DEF LockInv, PlanAndMeta, At
<1>4. CASE WriteFrozen(r)
  <2>1. GoOn(r, "ranks") /\ UNCHANGED <<rows, meta, pubLock>>
    BY <1>4 DEF WriteFrozen, Undisturbed
  <2> QED BY <1>0, <1>n, <2>1, Moves, ElsewhereOK DEF Ats
<1>5. CASE Undo(r) \/ Pin(r)
  BY <1>5, <1>n DEF Undo, Pin, Undisturbed, At
<1>6. CASE Answered(r) \/ Refreeze(r) \/ PutSaved(r) \/ ClearQueueAgain(r)
  <2>1. Done(r) /\ UNCHANGED <<rows, meta, pubLock>>
    BY <1>6 DEF Answered, Refreeze, PutSaved, ClearQueueAgain, stored
  <2> QED BY <1>0, <2>1, Ends, ElsewhereOK
<1>7. CASE WriteRanks(r) \/ ClearDrafts(r)
  <2>1. (GoOn(r, "queue") \/ GoOn(r, "requeue")) /\ UNCHANGED <<rows, meta, pubLock>>
    BY <1>7, <1>n DEF WriteRanks, ClearDrafts, Undisturbed
  <2> QED BY <1>0, <1>n, <2>1, Moves, ElsewhereOK DEF Ats
<1>8. CASE ClearQueue(r)
  <2>1. (GoOn(r, "book") \/ Done(r)) /\ UNCHANGED <<rows, meta, pubLock>>
    BY <1>8 DEF ClearQueue
  <2>2. CASE GoOn(r, "book")
    BY <1>0, <1>n, <2>1, <2>2, Moves, ElsewhereOK DEF Ats
  <2>3. CASE Done(r)
    BY <1>0, <2>1, <2>3, Ends, ElsewhereOK
  <2> QED BY <2>1, <2>2, <2>3
<1>9. CASE QueuedThenBooked(r)
  <2>1. (GoOn(r, "book") \/ GoOn(r, "drafts")) /\ UNCHANGED <<rows, meta, pubLock>>
    BY <1>9 DEF QueuedThenBooked
  <2> QED BY <1>0, <1>n, <2>1, Moves, ElsewhereOK DEF Ats
<1>10. ~OtherFails(r)
  BY DEF OtherFails, Undisturbed
<1> QED BY <1>1, <1>2, <1>3, <1>4, <1>5, <1>6, <1>7, <1>8, <1>9, <1>10 DEF Step

(* Beginning a request writes nothing, so it keeps them together too.        *)
LEMMA BeginLocks ==
  ASSUME Undisturbed, Typed, LockInv, NEW r \in Requests,
         \/ ApplyBegins(r) \/ AcceptBegins(r) \/ ClearBegins(r) \/ SeedBegins(r)
         \/ DoneBegins(r) \/ PutBegins(r) \/ AddBegins(r)
  PROVE  LockInv'
<1>0. req \in [Requests -> Request] /\ StoredOK /\ Idle \in Request
  BY Constants DEF Typed
<1>1. ~AddBegins(r) /\ UNCHANGED <<rows, meta, pubLock>>
  BY DEF ApplyBegins, AcceptBegins, ClearBegins, SeedBegins, DoneBegins, PutBegins, AddBegins,
     Begins, Undisturbed, stored
<1>2. CASE ClearBegins(r) \/ SeedBegins(r)
  <2>1. \E op \in {"clear", "seed"} : Builds(r, op, {})
    BY <1>2 DEF ClearBegins, SeedBegins
  <2>2. /\ req'[r].at = "rows" /\ req'[r].op # "add"
        /\ \A q \in Requests : q # r => req'[q] = req[q]
    BY <1>0, <2>1, BuildsOK DEF AllOps
  <2> QED BY <1>1, <2>2, ElsewhereOK
<1>3. ASSUME NEW q, req' = [req EXCEPT ![r] = q], q.op # "add", q.at \in {"take", "refreeze", "save"}
      PROVE  LockInv'
  <2>1. req'[r] = q /\ \A p \in Requests : p # r => req'[p] = req[p]
    BY <1>0, <1>3
  <2> QED BY <1>1, <1>3, <2>1, ElsewhereOK
<1>4. CASE ApplyBegins(r)
  <2> DEFINE q == [Idle EXCEPT !.op = "apply", !.at = "take"]
  <2>1. q.op = "apply" /\ q.at = "take"
    BY DEF Idle
  <2>2. req' = [req EXCEPT ![r] = q]
    BY <1>4 DEF ApplyBegins
  <2> QED BY <1>3, <2>1, <2>2
<1>5. CASE AcceptBegins(r)
  <2> DEFINE q == [Idle EXCEPT !.op = "accept", !.at = "take", !.new = drafts]
  <2>1. q.op = "accept" /\ q.at = "take"
    BY DEF Idle
  <2>2. req' = [req EXCEPT ![r] = q]
    BY <1>5 DEF AcceptBegins
  <2> QED BY <1>3, <2>1, <2>2
<1>6. CASE DoneBegins(r)
  <2> DEFINE q == [Idle EXCEPT !.op = "done", !.at = "refreeze", !.plan = rows.plan]
  <2>1. q.op = "done" /\ q.at = "refreeze"
    BY DEF Idle
  <2>2. req' = [req EXCEPT ![r] = q]
    BY <1>6 DEF DoneBegins
  <2> QED BY <1>3, <2>1, <2>2
<1>7. CASE PutBegins(r)
  <2>1. PICK ls \in SUBSET (Lines \ book) :
          req' = [req EXCEPT ![r] = [Idle EXCEPT !.op = "put", !.at = "save", !.new = ls]]
    BY <1>7 DEF PutBegins
  <2> DEFINE q == [Idle EXCEPT !.op = "put", !.at = "save", !.new = ls]
  <2>2. q.op = "put" /\ q.at = "save" /\ req' = [req EXCEPT ![r] = q]
    BY <2>1 DEF Idle
  <2> QED BY <1>3, <2>2
<1> QED BY <1>1, <1>2, <1>4, <1>5, <1>6, <1>7

(* Every step keeps the rows and the meta together. *)
LEMMA NextLocks == Undisturbed /\ TypeOK /\ LockInv /\ [Next]_vars => LockInv'
<1> SUFFICES ASSUME Undisturbed, TypeOK, LockInv, [Next]_vars PROVE LockInv'
  OBVIOUS
<1>1. CASE SearchMoves \/ (\E o \in Lines : OrderGone(o)) \/ UNCHANGED vars
  BY <1>1 DEF SearchMoves, OrderGone, vars, stored, LockInv, PlanAndMeta, At
<1>2. ~Restart
  BY DEF Restart, Undisturbed, TypeOK
<1> QED BY <1>1, <1>2, StepLocks, BeginLocks DEF Next, TypeOK

(* _PUBLISH_LOCK keeps the rows and the meta of one publish together for any  *)
(* number of admins, as long as no write fails, the process is not killed and *)
(* no lines are added; section 6 of the README says what happens otherwise.  *)
THEOREM PublishLockWorks == ASSUME Undisturbed PROVE Spec => []PlanAndMeta
<1>1. Init => LockInv
  BY PlanAssumption, Constants DEF Init, LockInv, PlanAndMeta, NoPlan, At, Idle
<1>2. TypeOK /\ LockInv /\ [Next]_vars => LockInv'
  BY NextLocks
<1>3. LockInv => PlanAndMeta
  BY DEF LockInv
<1> QED BY <1>1, <1>2, <1>3, TypeCorrect, PTL DEF Spec

-----------------------------------------------------------------------------
(* One request at a time, whichever writes fail, whatever is removed and       *)
(* whenever the process is killed.                                          *)
OneRequest == \E r \in Requests : Requests = {r}

(* Which operations make which write *)
OpOK(r) ==
    /\ At(r, "take") => req[r].op \in {"apply", "accept"}
    /\ req[r].at \in {"rows", "meta", "failed", "wrong"} => req[r].op \in {"apply", "accept", "clear", "seed"}
    /\ req[r].at \in {"frozen", "unrows", "unmeta", "unfrozen", "ranks"}
         => req[r].op \in {"apply", "accept", "clear"}
    /\ At(r, "queue") => req[r].op \in {"apply", "accept", "clear", "add"}
    /\ req[r].at \in {"book", "drafts"} => req[r].op \in {"accept", "add"}
    /\ At(r, "requeue") => req[r].op = "accept"
    /\ At(r, "pin") => req[r].op = "add"

(* What of the plan the request read is still, or again, on file *)
OldOK(r) ==
    LET old == req[r].old
    IN  /\ req[r].at \in {"rows", "unmeta", "unfrozen", "failed"} => rows = old.rows
        /\ req[r].at \in {"rows", "unfrozen", "failed"} => meta = old.meta
        /\ req[r].at \in {"rows", "failed"} => frozen = old.frozen
        /\ req[r].at \in {"rows", "meta", "frozen", "unrows", "unmeta", "unfrozen", "failed"}
             => queue = old.queue
        /\ req[r].at \in {"queue", "book", "drafts", "pin"} /\ req[r].op = "add" => rows = old.rows
        /\ At(r, "queue") /\ req[r].op = "add" => queue = old.queue
        /\ req[r].at \in {"rows", "meta", "frozen", "unrows"} => old.rows.plan < req[r].plan
        /\ At(r, "rows") => req[r].plan <= plans
        /\ At(r, "refreeze") => req[r].plan = rows.plan

(* From where to where the request's own plan is on file *)
Publishes(r) ==
    \/ req[r].at \in {"meta", "frozen", "unrows", "ranks"}
    \/ req[r].at \in {"queue", "book", "drafts", "requeue"} /\ req[r].op # "add"
NewOK(r) ==
    /\ Publishes(r) => rows = [plan |-> req[r].plan, kind |-> KindOf(req[r].op), lines |-> req[r].covers]
    /\ req[r].at \in {"frozen", "unrows", "ranks"} => meta = req[r].plan
    /\ At(r, "ranks") => frozen = req[r].plan

(* The lines of the book are in the plan of the request, and were in the one *)
(* it read or waited in the queue it read.                                   *)
CoverOK(r) ==
    /\ At(r, "rows") \/ Publishes(r) => book \cup req[r].new \subseteq req[r].covers
    /\ req[r].at \in {"rows", "meta", "frozen", "unrows"} /\ req[r].old.rows.kind # "none"
         => book \subseteq req[r].old.rows.lines \cup UNION Range(req[r].old.queue)
    /\ At(r, "book") /\ req[r].op = "add" => req[r].new \subseteq Queued

(* The drafts the request adds are the ones typed. *)
DraftOK(r) ==
    req[r].op \in {"accept", "add"} /\ req[r].at \notin {"requeue", "pin", "failed", "wrong"}
        => drafts = req[r].new

(* rows, meta and frozen set that make one plan with the ranks on file *)
Whole(rs, m, f) ==
    /\ m = rs.plan
    /\ rs.kind \in {"apply", "clear"} => f = rs.plan
    /\ rs.kind = "apply" => ranks = rs.plan
    /\ rs.kind = "clear" => ranks = 0
Undoing == {"meta", "frozen", "unrows", "unmeta", "unfrozen"}
WholeOK(r) ==
    ~torn =>
        /\ req[r].at \notin Undoing \cup {"ranks"} => Whole(rows, meta, frozen)
        /\ req[r].at \in Undoing => Whole(req[r].old.rows, req[r].old.meta, req[r].old.frozen)

One(r) ==
    /\ rows.plan <= plans /\ PlanOrQueue
    /\ OpOK(r) /\ OldOK(r) /\ NewOK(r) /\ CoverOK(r) /\ DraftOK(r) /\ WholeOK(r)

(* The numbers of plans are numbers. *)
LEMMA Numbers ==
  ASSUME Typed, NEW r \in Requests
  PROVE  /\ rows.plan \in Nat /\ plans \in Nat /\ req[r].plan \in Nat /\ req[r].old.rows.plan \in Nat
         /\ rows \in Rows /\ req[r] \in Request /\ req[r].old.rows \in Rows /\ book \subseteq Lines
         /\ req \in [Requests -> Request]
<1>1. /\ req \in [Requests -> Request] /\ req[r] \in Request /\ rows \in Rows /\ book \subseteq Lines
      /\ plans \in Plans
  BY DEF Typed, StoredOK
<1>2. req[r].old.rows \in Rows /\ req[r].plan \in Plans
  BY <1>1 DEF Request, Old
<1>3. rows.plan \in Plans /\ req[r].old.rows.plan \in Plans
  BY <1>1, <1>2 DEF Rows
<1> QED BY <1>1, <1>2, <1>3, PlanAssumption DEF Plans

(* A request that has ended has to show only for the store. *)
LEMMA OneEnds ==
  ASSUME Typed, NEW r \in Requests, Done(r), rows'.plan <= plans', PlanOrQueue',
         ~torn' => Whole(rows, meta, frozen)'
  PROVE  One(r)'
<1>1. req'[r].at = "idle" /\ req'[r].op = "none"
  BY Numbers, Ends
<1>2. OpOK(r)' /\ OldOK(r)' /\ NewOK(r)' /\ CoverOK(r)' /\ DraftOK(r)'
  BY <1>1 DEF OpOK, OldOK, NewOK, CoverOK, Publishes, DraftOK, At
<1>3. WholeOK(r)'
  BY <1>1 DEF WholeOK, Undoing
<1> QED BY <1>2, <1>3 DEF One

(* A request that moves on keeps what it is about. *)
LEMMA OneMoves ==
  ASSUME Typed, NEW r \in Requests, NEW at \in Ats, GoOn(r, at)
  PROVE  /\ req'[r].at = at /\ req'[r].plan = req[r].plan /\ req'[r].op = req[r].op
         /\ req'[r].new = req[r].new /\ req'[r].covers = req[r].covers /\ req'[r].old = req[r].old
  BY Numbers, Moves

(* A candidate covers the book, and what it replaces is older. *)
LEMMA OneBuilds ==
  ASSUME Typed, NEW r \in Requests, One(r), NEW op \in {"apply", "accept", "clear", "seed"},
         NEW new \in SUBSET Lines, Builds(r, op, new), UNCHANGED <<stored, torn>>,
         op = "accept" => drafts = new, req[r].at \in {"idle", "take"}
  PROVE  One(r)'
<1>1. /\ req'[r].at = "rows" /\ req'[r].op = op /\ req'[r].plan = plans' /\ req'[r].new = new
      /\ req'[r].covers = book \cup new /\ req'[r].old = Reads
  BY Numbers, BuildsOK DEF AllOps, Typed
<1>2. plans' = plans + 1 /\ rows.plan < plans' /\ rows.plan <= plans
  BY Numbers DEF One, Builds
<1>3. OpOK(r)' /\ DraftOK(r)' /\ NewOK(r)'
  BY <1>1 DEF OpOK, DraftOK, NewOK, Publishes, At, stored
<1>4. OldOK(r)'
  BY <1>1, <1>2, Numbers DEF OldOK, At, stored, Reads
<1>5. CoverOK(r)' /\ WholeOK(r)'
  BY <1>1 DEF One, CoverOK, PlanOrQueue, Queued, Publishes, WholeOK, Whole, Undoing, At, stored, Reads
<1> QED BY <1>2, <1>3, <1>4, <1>5, Numbers DEF One, PlanOrQueue, Queued, stored

(* The candidate is built, or there is nothing to apply. *)
LEMMA Takes == ASSUME Typed, NEW r \in Requests, One(r), Take(r) PROVE One(r)'
<1>1. At(r, "take") /\ UNCHANGED stored /\ req[r].op \in {"apply", "accept"}
  BY DEF Take, One, OpOK
<1>2. CASE Done(r) /\ UNCHANGED <<plans, optLock, torn>>
  <2>1. ~torn => Whole(rows, meta, frozen)
    BY <1>1 DEF One, WholeOK, Undoing, At
  <2> QED BY <1>1, <1>2, <2>1, OneEnds DEF One, PlanOrQueue, Queued, Whole, stored
<1>3. CASE Builds(r, req[r].op, req[r].new) /\ torn' = torn
  <2>1. req[r].new \in SUBSET Lines /\ (req[r].op = "accept" => drafts = req[r].new)
    BY <1>1, Numbers DEF Request, One, DraftOK, At
  <2> QED BY <1>1, <1>3, <2>1, OneBuilds DEF At
<1> QED BY <1>2, <1>3 DEF Take

(* The plan of the request is on file: it covers the book. *)
LEMMA WritesRows == ASSUME Typed, NEW r \in Requests, One(r), WriteRows(r) PROVE One(r)'
<1>1. At(r, "rows") /\ UNCHANGED <<book, meta, frozen, ranks, queue, drafts, result, plans>>
  BY DEF WriteRows
<1>2. /\ rows = req[r].old.rows /\ req[r].old.rows.plan < req[r].plan /\ req[r].plan <= plans
      /\ book \subseteq req[r].covers
  BY <1>1 DEF One, OldOK, CoverOK, At
<1>3. PICK at \in {"meta", "failed", "wrong"} :
        /\ GoOn(r, at)
        /\ at = "meta" => rows' = NewRows(r) /\ torn' = torn
        /\ at = "failed" => rows' = rows /\ torn' = torn
        /\ at = "wrong" => rows' = NewRows(r) /\ torn' = TRUE
  BY DEF WriteRows, Fail, FailWrongly
<1>4. /\ req'[r].at = at /\ req'[r].plan = req[r].plan /\ req'[r].op = req[r].op
      /\ req'[r].new = req[r].new /\ req'[r].covers = req[r].covers /\ req'[r].old = req[r].old
  BY <1>3, OneMoves DEF Ats
<1>5. OpOK(r)' /\ OldOK(r)' /\ DraftOK(r)' /\ NewOK(r)'
  BY <1>1, <1>2, <1>3, <1>4 DEF One, OpOK, OldOK, DraftOK, NewOK, NewRows, Publishes, At
<1>6. CoverOK(r)' /\ WholeOK(r)'
  BY <1>1, <1>2, <1>3, <1>4 DEF One, OldOK, CoverOK, Publishes, WholeOK, Whole, Undoing, At
<1>7. rows'.plan <= plans' /\ PlanOrQueue'
  <2>1. CASE at = "failed"
    BY <1>1, <1>3, <2>1 DEF One, PlanOrQueue, Queued
  <2>2. CASE at # "failed"
    BY <1>1, <1>2, <1>3, <2>2 DEF NewRows, PlanOrQueue, Queued
  <2> QED BY <2>1, <2>2
<1> QED BY <1>5, <1>6, <1>7 DEF One

(* The meta follows the rows; of a seed that is all. *)
LEMMA WritesMeta ==
  ASSUME Typed, NEW r \in Requests, One(r), WriteMeta(r) PROVE One(r)'
<1>1. At(r, "meta") /\ UNCHANGED <<book, rows, frozen, ranks, queue, drafts, result, plans>>
  BY DEF WriteMeta
<1>2. CASE GoOn(r, "frozen") /\ req[r].op # "seed" /\ meta' = req[r].plan /\ torn' = torn
  <2>1. /\ req'[r].at = "frozen" /\ req'[r].plan = req[r].plan /\ req'[r].op = req[r].op
        /\ req'[r].new = req[r].new /\ req'[r].covers = req[r].covers /\ req'[r].old = req[r].old
    BY <1>2, OneMoves DEF Ats
  <2>2. OpOK(r)' /\ OldOK(r)' /\ DraftOK(r)'
    BY <1>1, <1>2, <2>1 DEF One, OpOK, OldOK, DraftOK, At
  <2>3. NewOK(r)' /\ CoverOK(r)' /\ WholeOK(r)'
    BY <1>1, <1>2, <2>1 DEF One, NewOK, CoverOK, Publishes, WholeOK, Whole, Undoing, At
  <2> QED BY <1>1, <2>2, <2>3 DEF One, PlanOrQueue, Queued
<1>3. CASE Done(r) /\ req[r].op = "seed" /\ meta' = req[r].plan
  <2>1. Whole(rows, meta, frozen)'
    BY <1>1, <1>3 DEF One, NewOK, Publishes, Whole, At, KindOf
  <2> QED BY <1>1, <1>3, <2>1, OneEnds DEF One, PlanOrQueue, Queued
<1>4. CASE GoOn(r, "wrong") /\ torn' = TRUE
  <2>1. /\ req'[r].at = "wrong" /\ req'[r].plan = req[r].plan /\ req'[r].op = req[r].op
        /\ req'[r].new = req[r].new /\ req'[r].covers = req[r].covers /\ req'[r].old = req[r].old
    BY <1>4, OneMoves DEF Ats
  <2>2. OpOK(r)' /\ OldOK(r)' /\ DraftOK(r)'
    BY <1>1, <2>1 DEF One, OpOK, OldOK, DraftOK, At
  <2>3. NewOK(r)' /\ CoverOK(r)' /\ WholeOK(r)'
    BY <1>4, <2>1 DEF NewOK, CoverOK, Publishes, WholeOK, At
  <2> QED BY <1>1, <2>2, <2>3 DEF One, PlanOrQueue, Queued
<1> QED BY <1>2, <1>3, <1>4 DEF WriteMeta, Stamped, FailWrongly

(* The frozen set follows the meta, or the rollback begins. *)
LEMMA WritesFrozen == ASSUME Typed, NEW r \in Requests, One(r), WriteFrozen(r) PROVE One(r)'
<1>1. At(r, "frozen") /\ UNCHANGED <<book, rows, meta, ranks, queue, drafts, plans, torn>>
  BY DEF WriteFrozen
<1>2. PICK at \in {"ranks", "unrows"} :
        GoOn(r, at) /\ (at = "ranks" => frozen' = req[r].plan)
  BY DEF WriteFrozen
<1>3. /\ req'[r].at = at /\ req'[r].plan = req[r].plan /\ req'[r].op = req[r].op
      /\ req'[r].new = req[r].new /\ req'[r].covers = req[r].covers /\ req'[r].old = req[r].old
  BY <1>2, OneMoves DEF Ats
<1>4. OpOK(r)' /\ OldOK(r)' /\ DraftOK(r)' /\ NewOK(r)'
  BY <1>1, <1>2, <1>3 DEF One, OpOK, OldOK, DraftOK, NewOK, Publishes, At
<1>5. CoverOK(r)' /\ WholeOK(r)'
  BY <1>1, <1>2, <1>3 DEF One, CoverOK, Publishes, WholeOK, Whole, Undoing, At
<1> QED BY <1>1, <1>4, <1>5 DEF One, PlanOrQueue, Queued

(* The rollback ends with what the request read on file again. *)
LEMMA Undoes == ASSUME Typed, NEW r \in Requests, One(r), Undo(r) PROVE One(r)'
<1>0. UNCHANGED <<book, ranks, queue, drafts, plans>>
  BY DEF Undo, stored
<1>d. CASE Done(r) /\ torn' = TRUE /\ UNCHANGED rows
  BY <1>0, <1>d, OneEnds DEF One, PlanOrQueue, Queued
<1>g. SUFFICES ASSUME ~(Done(r) /\ torn' = TRUE /\ UNCHANGED rows) PROVE One(r)'
  BY <1>d
<1>1. UNCHANGED <<book, ranks, queue, drafts, plans, torn>>
  BY <1>0, <1>g DEF Undo, Breaks, stored
<1>2. PICK at \in {"unmeta", "unfrozen", "failed"} :
        /\ GoOn(r, at)
        /\ at = "unmeta" => At(r, "unrows") /\ rows' = req[r].old.rows /\ UNCHANGED <<meta, frozen>>
        /\ at = "unfrozen" => At(r, "unmeta") /\ meta' = req[r].old.meta /\ UNCHANGED <<rows, frozen>>
        /\ at = "failed" => At(r, "unfrozen") /\ frozen' = req[r].old.frozen /\ UNCHANGED <<rows, meta>>
  BY <1>g DEF Undo, Fail, Breaks, stored
<1>3. /\ req'[r].at = at /\ req'[r].plan = req[r].plan /\ req'[r].op = req[r].op
      /\ req'[r].new = req[r].new /\ req'[r].covers = req[r].covers /\ req'[r].old = req[r].old
  BY <1>2, OneMoves DEF Ats
<1>4. OpOK(r)' /\ OldOK(r)' /\ DraftOK(r)' /\ NewOK(r)'
  BY <1>1, <1>2, <1>3 DEF One, OpOK, OldOK, DraftOK, NewOK, Publishes, At
<1>5. CoverOK(r)' /\ WholeOK(r)'
  BY <1>1, <1>2, <1>3 DEF One, OldOK, CoverOK, Publishes, WholeOK, Whole, Undoing, At
<1>6. rows'.plan <= plans' /\ PlanOrQueue'
  <2>1. CASE at = "unmeta"
    <3>1. rows.plan = req[r].plan /\ req[r].old.rows.plan < req[r].plan /\ queue = req[r].old.queue
      BY <1>2, <2>1 DEF One, NewOK, Publishes, OldOK, At
    <3>2. req[r].old.rows.kind # "none"
            => book \subseteq req[r].old.rows.lines \cup UNION Range(req[r].old.queue)
      BY <1>2, <2>1 DEF One, CoverOK, At
    <3> QED BY <1>1, <1>2, <2>1, <3>1, <3>2, Numbers DEF One, PlanOrQueue, Queued
  <2>2. CASE at # "unmeta"
    BY <1>1, <1>2, <2>2 DEF One, PlanOrQueue, Queued
  <2> QED BY <2>1, <2>2
<1> QED BY <1>4, <1>5, <1>6 DEF One

(* The error reaches the browser: what is on file is a whole plan. *)
LEMMA AnswersFailure == ASSUME Typed, NEW r \in Requests, One(r), Answered(r) PROVE One(r)'
<1>1. req[r].at \in {"failed", "wrong"} /\ Done(r) /\ UNCHANGED <<stored, plans, torn>>
  BY DEF Answered, At
<1>2. ~torn => Whole(rows, meta, frozen)
  BY <1>1 DEF One, WholeOK, Undoing, At
<1> QED BY <1>1, <1>2, OneEnds DEF One, PlanOrQueue, Queued, Whole, stored

(* The ranks follow the frozen set, or the request breaks off. *)
LEMMA WritesRanks == ASSUME Typed, NEW r \in Requests, One(r), WriteRanks(r) PROVE One(r)'
<1>1. At(r, "ranks") /\ UNCHANGED <<book, rows, meta, frozen, queue, drafts, plans>>
  BY DEF WriteRanks
<1>2. CASE GoOn(r, "queue") /\ ranks' = NewRanks(r)
  <2>1. /\ req'[r].at = "queue" /\ req'[r].plan = req[r].plan /\ req'[r].op = req[r].op
        /\ req'[r].new = req[r].new /\ req'[r].covers = req[r].covers /\ req'[r].old = req[r].old
    BY <1>2, OneMoves DEF Ats
  <2>2. OpOK(r)' /\ OldOK(r)' /\ DraftOK(r)' /\ NewOK(r)' /\ CoverOK(r)'
    BY <1>1, <2>1 DEF One, OpOK, OldOK, DraftOK, NewOK, CoverOK, Publishes, At
  <2>3. WholeOK(r)'
    BY <1>1, <1>2, <2>1 DEF One, OpOK, NewOK, NewRanks, Publishes, KindOf, WholeOK, Whole, Undoing, At
  <2> QED BY <1>1, <2>2, <2>3 DEF One, PlanOrQueue, Queued
<1>3. CASE Done(r) /\ torn' = TRUE
  BY <1>1, <1>3, OneEnds DEF One, PlanOrQueue, Queued
<1> QED BY <1>2, <1>3 DEF WriteRanks, Breaks

(* A request that breaks off at another write has published nothing in part. *)
LEMMA BreaksOff == ASSUME Typed, NEW r \in Requests, One(r), OtherFails(r) PROVE One(r)'
<1>1. req[r].at \in OtherWrites /\ Done(r) /\ UNCHANGED <<stored, plans, torn>>
  BY DEF OtherFails, Breaks
<1>2. ~torn => Whole(rows, meta, frozen)
  BY <1>1 DEF One, WholeOK, Undoing, OtherWrites
<1> QED BY <1>1, <1>2, OneEnds DEF One, PlanOrQueue, Queued, Whole, stored

(* What waits in an empty queue, and in one that a group joined. *)
LEMMA QueueEnds ==
  ASSUME NEW q \in Seq(SUBSET Lines), NEW g \in SUBSET Lines
  PROVE  UNION Range(<<>>) = {} /\ UNION Range(Append(q, g)) = (UNION Range(q)) \cup g
<1>1. UNION Range(<<>>) = {}
  BY DEF Range
<1>2. /\ DOMAIN q = 1..Len(q) /\ DOMAIN Append(q, g) = 1..(Len(q) + 1) /\ Len(q) \in Nat
      /\ \A i \in 1..Len(q) : Append(q, g)[i] = q[i]
      /\ Append(q, g)[Len(q) + 1] = g
  OBVIOUS
<1>3. Range(Append(q, g)) = Range(q) \cup {g}
  BY <1>2 DEF Range
<1> QED BY <1>1, <1>3

(* The queue is emptied when the plan on file covers the book. *)
LEMMA ClearsQueue ==
  ASSUME Typed, NEW r \in Requests, One(r), ClearQueue(r) \/ ClearQueueAgain(r) PROVE One(r)'
<1>1. /\ \/ At(r, "queue") /\ req[r].op # "add"
         \/ At(r, "requeue") /\ req[r].op = "accept"
      /\ queue' = <<>> /\ UNCHANGED <<book, rows, meta, frozen, ranks, drafts, plans, torn>>
  BY DEF ClearQueue, ClearQueueAgain, One, OpOK
<1>2. Publishes(r) /\ book \subseteq rows.lines
  BY <1>1 DEF One, NewOK, CoverOK, Publishes, At
<1>3. rows'.plan <= plans' /\ PlanOrQueue' /\ (~torn' => Whole(rows, meta, frozen)')
  BY <1>1, <1>2, QueueEnds DEF One, PlanOrQueue, Queued, WholeOK, Whole, Undoing, At
<1>4. CASE Done(r)
  BY <1>3, <1>4, OneEnds
<1>5. CASE GoOn(r, "book") /\ At(r, "queue") /\ req[r].op = "accept"
  <2>1. /\ req'[r].at = "book" /\ req'[r].plan = req[r].plan /\ req'[r].op = req[r].op
        /\ req'[r].new = req[r].new /\ req'[r].covers = req[r].covers /\ req'[r].old = req[r].old
    BY <1>5, OneMoves DEF Ats
  <2>2. OpOK(r)' /\ OldOK(r)' /\ DraftOK(r)' /\ NewOK(r)' /\ CoverOK(r)'
    BY <1>1, <1>5, <2>1 DEF One, OpOK, OldOK, DraftOK, NewOK, CoverOK, Publishes, At
  <2>3. WholeOK(r)'
    BY <1>3, <2>1 DEF WholeOK, Undoing
  <2> QED BY <1>3, <2>2, <2>3 DEF One
<1> QED BY <1>4, <1>5 DEF ClearQueue, ClearQueueAgain

(* The frozen set of the plan on file, or a new list of drafts. *)
LEMMA Refreezes ==
  ASSUME Typed, NEW r \in Requests, One(r), Refreeze(r) \/ PutSaved(r) PROVE One(r)'
<1>1. /\ Done(r) /\ UNCHANGED <<book, rows, meta, ranks, queue, plans, torn>>
      /\ req[r].at \in {"refreeze", "save"} /\ frozen' \in {frozen, rows.plan}
  BY DEF Refreeze, PutSaved, One, OldOK, At
<1>2. ~torn' => Whole(rows, meta, frozen)'
  BY <1>1 DEF One, WholeOK, Whole, Undoing
<1> QED BY <1>1, <1>2, OneEnds DEF One, PlanOrQueue, Queued

(* Lines come to the book after they wait in the queue or have a plan. *)
LEMMA Books == ASSUME Typed, NEW r \in Requests, One(r), QueuedThenBooked(r) PROVE One(r)'
<1>1. UNCHANGED <<rows, meta, frozen, ranks, drafts, plans, torn>>
  BY DEF QueuedThenBooked
<1>2. CASE /\ At(r, "queue") /\ req[r].op = "add" /\ UNCHANGED book
           /\ queue' = Append(req[r].old.queue, req[r].new) /\ GoOn(r, "book")
  <2>1. /\ req'[r].at = "book" /\ req'[r].plan = req[r].plan /\ req'[r].op = req[r].op
        /\ req'[r].new = req[r].new /\ req'[r].covers = req[r].covers /\ req'[r].old = req[r].old
    BY <1>2, OneMoves DEF Ats
  <2>2. req[r].old.queue \in Seq(SUBSET Lines) /\ req[r].new \in SUBSET Lines
    BY Numbers DEF Request, Old
  <2>3. req[r].old.queue = queue
    BY <1>2 DEF One, OldOK
  <2>4. Queued' = Queued \cup req[r].new
    BY <1>2, <2>2, <2>3, QueueEnds DEF Queued
  <2>5. OpOK(r)' /\ OldOK(r)' /\ DraftOK(r)' /\ NewOK(r)' /\ CoverOK(r)'
    BY <1>1, <1>2, <2>1, <2>4 DEF One, OpOK, OldOK, DraftOK, NewOK, CoverOK, Publishes, At
  <2>6. WholeOK(r)'
    BY <1>1, <1>2, <2>1 DEF One, WholeOK, Whole, Undoing, At
  <2> QED BY <1>1, <1>2, <2>4, <2>5, <2>6 DEF One, PlanOrQueue
<1>3. CASE At(r, "book") /\ book' = book \cup req[r].new /\ GoOn(r, "drafts") /\ UNCHANGED queue
  <2>1. /\ req'[r].at = "drafts" /\ req'[r].plan = req[r].plan /\ req'[r].op = req[r].op
        /\ req'[r].new = req[r].new /\ req'[r].covers = req[r].covers /\ req'[r].old = req[r].old
    BY <1>3, OneMoves DEF Ats
  <2>2. OpOK(r)' /\ OldOK(r)' /\ DraftOK(r)' /\ NewOK(r)'
    BY <1>1, <1>3, <2>1 DEF One, OpOK, OldOK, DraftOK, NewOK, Publishes, At
  <2>3. CoverOK(r)' /\ WholeOK(r)'
    BY <1>1, <1>3, <2>1 DEF One, CoverOK, Publishes, WholeOK, Whole, Undoing, At
  <2>4. PlanOrQueue'
    <3>1. CASE req[r].op = "add"
      BY <1>1, <1>3, <3>1 DEF One, PlanOrQueue, CoverOK, Queued
    <3>2. CASE req[r].op # "add"
      BY <1>1, <1>3, <3>2 DEF One, PlanOrQueue, CoverOK, NewOK, Publishes, At
    <3> QED BY <3>1, <3>2
  <2> QED BY <1>1, <2>2, <2>3, <2>4 DEF One
<1> QED BY <1>2, <1>3 DEF QueuedThenBooked

(* The drafts go once their lines are in the book. *)
LEMMA ClearsDrafts == ASSUME Typed, NEW r \in Requests, One(r), ClearDrafts(r) PROVE One(r)'
<1>1. At(r, "drafts") /\ UNCHANGED <<book, rows, meta, frozen, ranks, queue, plans, torn>>
  BY DEF ClearDrafts
<1>2. PICK at \in {"pin", "requeue"} : GoOn(r, at) /\ (at = "pin" <=> req[r].op = "add")
  BY DEF ClearDrafts
<1>3. /\ req'[r].at = at /\ req'[r].plan = req[r].plan /\ req'[r].op = req[r].op
      /\ req'[r].new = req[r].new /\ req'[r].covers = req[r].covers /\ req'[r].old = req[r].old
  BY <1>2, OneMoves DEF Ats
<1>4. OpOK(r)' /\ OldOK(r)' /\ DraftOK(r)' /\ NewOK(r)' /\ CoverOK(r)'
  BY <1>1, <1>2, <1>3 DEF One, OpOK, OldOK, DraftOK, NewOK, CoverOK, Publishes, At
<1>5. WholeOK(r)'
  BY <1>1, <1>2, <1>3 DEF One, WholeOK, Whole, Undoing, At
<1> QED BY <1>1, <1>4, <1>5 DEF One, PlanOrQueue, Queued

(* The pinned rows are those on file with the new lines after them. *)
LEMMA Pins == ASSUME Typed, NEW r \in Requests, One(r), Pin(r) PROVE One(r)'
<1>1. /\ At(r, "pin") /\ Done(r) /\ rows = req[r].old.rows
      /\ UNCHANGED <<book, meta, frozen, ranks, queue, plans, torn>>
  BY DEF Pin, One, OpOK, OldOK, At
<1>2. rows'.plan = rows.plan /\ rows'.kind = rows.kind /\ rows.lines \subseteq rows'.lines
  BY <1>1, Numbers DEF Pin, Rows
<1>3. ~torn' => Whole(rows, meta, frozen)'
  BY <1>1, <1>2 DEF One, WholeOK, Whole, Undoing, At
<1> QED BY <1>1, <1>2, <1>3, OneEnds DEF One, PlanOrQueue, Queued

(* A request that begins has written nothing. *)
LEMMA BeginsOne ==
  ASSUME Typed, NEW r \in Requests, One(r),
         \/ ApplyBegins(r) \/ AcceptBegins(r) \/ ClearBegins(r) \/ SeedBegins(r)
         \/ DoneBegins(r) \/ PutBegins(r) \/ AddBegins(r)
  PROVE  One(r)'
<1>0. Idle \in Request /\ drafts \subseteq Lines /\ Reads \in Old /\ req \in [Requests -> Request]
  BY Constants, ReadsOK DEF Typed, StoredOK
<1>1. At(r, "idle") /\ UNCHANGED stored /\ torn' = torn
  BY DEF ApplyBegins, AcceptBegins, ClearBegins, SeedBegins, DoneBegins, PutBegins, AddBegins, Begins
<1>2. CASE ClearBegins(r) \/ SeedBegins(r)
  <2>1. \E op \in {"clear", "seed"} : Builds(r, op, {})
    BY <1>2 DEF ClearBegins, SeedBegins
  <2> QED BY <1>1, <2>1, OneBuilds DEF At
<1>3. ASSUME NEW q \in Request, req' = [req EXCEPT ![r] = q], plans' = plans,
             \/ q.at = "take" /\ q.op = "apply"
             \/ q.at = "take" /\ q.op = "accept" /\ q.new = drafts
             \/ q.at = "refreeze" /\ q.op = "done" /\ q.plan = rows.plan
             \/ q.at = "save" /\ q.op = "put"
             \/ q.at = "queue" /\ q.op = "add" /\ q.new = drafts /\ q.old = Reads
      PROVE  One(r)'
  <2>1. req'[r] = q
    BY <1>0, <1>3
  <2>2. OpOK(r)' /\ DraftOK(r)' /\ NewOK(r)' /\ CoverOK(r)'
    BY <1>1, <1>3, <2>1 DEF OpOK, DraftOK, NewOK, CoverOK, Publishes, At, stored
  <2>3. OldOK(r)' /\ WholeOK(r)'
    BY <1>1, <1>3, <2>1 DEF One, OldOK, WholeOK, Whole, Undoing, At, stored, Reads
  <2> QED BY <1>1, <1>3, <2>2, <2>3 DEF One, PlanOrQueue, Queued, stored
<1>4. CASE ApplyBegins(r)
  <2> DEFINE q == [Idle EXCEPT !.op = "apply", !.at = "take"]
  <2>1. q \in Request /\ q.op = "apply" /\ q.at = "take"
    BY <1>0 DEF Request, AllOps, Ats
  <2> QED BY <1>3, <1>4, <2>1 DEF ApplyBegins
<1>5. CASE AcceptBegins(r)
  <2> DEFINE q == [Idle EXCEPT !.op = "accept", !.at = "take", !.new = drafts]
  <2>1. q \in Request /\ q.op = "accept" /\ q.at = "take" /\ q.new = drafts
    BY <1>0 DEF Request, AllOps, Ats
  <2> QED BY <1>3, <1>5, <2>1 DEF AcceptBegins
<1>6. CASE DoneBegins(r)
  <2> DEFINE q == [Idle EXCEPT !.op = "done", !.at = "refreeze", !.plan = rows.plan]
  <2>1. q \in Request /\ q.op = "done" /\ q.at = "refreeze" /\ q.plan = rows.plan
    BY <1>0, Numbers DEF Request, AllOps, Ats, Rows
  <2> QED BY <1>3, <1>6, <2>1 DEF DoneBegins
<1>7. CASE PutBegins(r)
  <2>1. PICK ls \in SUBSET (Lines \ book) :
          req' = [req EXCEPT ![r] = [Idle EXCEPT !.op = "put", !.at = "save", !.new = ls]]
    BY <1>7 DEF PutBegins
  <2> DEFINE q == [Idle EXCEPT !.op = "put", !.at = "save", !.new = ls]
  <2>2. q \in Request /\ q.op = "put" /\ q.at = "save"
    BY <1>0 DEF Request, AllOps, Ats
  <2> QED BY <1>3, <1>7, <2>1, <2>2 DEF PutBegins
<1>8. CASE AddBegins(r)
  <2> DEFINE q == [Idle EXCEPT !.op = "add", !.at = "queue", !.new = drafts, !.old = Reads]
  <2>1. q \in Request /\ q.op = "add" /\ q.at = "queue" /\ q.new = drafts /\ q.old = Reads
    BY <1>0 DEF Request, AllOps, Ats
  <2> QED BY <1>3, <1>8, <2>1 DEF AddBegins
<1> QED BY <1>2, <1>4, <1>5, <1>6, <1>7, <1>8

(* The searches, completed orders and a kill of the process. *)
LEMMA AroundOne ==
  ASSUME Typed, NEW r \in Requests, One(r),
         SearchMoves \/ (\E o \in Lines : OrderGone(o)) \/ Restart \/ UNCHANGED vars
  PROVE  One(r)'
<1>1. CASE SearchMoves \/ UNCHANGED vars
  <2>1. UNCHANGED <<stored, plans, req, torn>>
    BY <1>1 DEF SearchMoves, vars
  <2> QED BY <2>1 DEF One, PlanOrQueue, Queued, OpOK, OldOK, NewOK, CoverOK, Publishes, DraftOK,
            WholeOK, Whole, Undoing, At, stored
<1>2. CASE \E o \in Lines : OrderGone(o)
  <2>1. book' \subseteq book /\ UNCHANGED <<rows, meta, frozen, ranks, queue, drafts, plans, req, torn>>
    BY <1>2 DEF OrderGone
  <2>2. OpOK(r)' /\ OldOK(r)' /\ NewOK(r)' /\ DraftOK(r)'
    BY <2>1 DEF One, OpOK, OldOK, NewOK, Publishes, DraftOK, At
  <2>3. CoverOK(r)' /\ WholeOK(r)'
    BY <2>1 DEF One, CoverOK, Publishes, WholeOK, Whole, Undoing, At, Queued
  <2> QED BY <2>1, <2>2, <2>3 DEF One, PlanOrQueue, Queued
<1>3. CASE Restart
  <2>1. /\ req'[r].at = "idle" /\ req'[r].op = "none"
        /\ UNCHANGED <<book, rows, meta, frozen, ranks, queue, drafts, plans>>
    BY <1>3, Constants DEF Restart, Idle, stored
  <2>2. OpOK(r)' /\ OldOK(r)' /\ NewOK(r)' /\ CoverOK(r)' /\ DraftOK(r)'
    BY <2>1 DEF OpOK, OldOK, NewOK, CoverOK, Publishes, DraftOK, At
  <2>3. ~torn' => ~torn /\ req[r].at \notin Undoing \cup {"ranks"}
    BY <1>3 DEF Restart, MidPublish, Undoing
  <2>4. WholeOK(r)'
    BY <2>1, <2>3 DEF One, WholeOK, Whole, Undoing
  <2> QED BY <2>1, <2>2, <2>4 DEF One, PlanOrQueue, Queued
<1> QED BY <1>1, <1>2, <1>3

-----------------------------------------------------------------------------
(* What holds between any two writes of the one request. *)
OneInv == TypeOK /\ \A r \in Requests : One(r)

(* Nothing is published and no request is under way at first. *)
LEMMA InitOne == Init => OneInv
<1> SUFFICES ASSUME Init, NEW r \in Requests PROVE One(r)
  BY InitTypes DEF OneInv
<1>1. /\ req[r].at = "idle" /\ req[r].op = "none" /\ rows = NoPlan /\ plans = 0 /\ meta = 0
  BY Constants DEF Init, Idle
<1>2. OpOK(r) /\ OldOK(r) /\ NewOK(r) /\ CoverOK(r) /\ DraftOK(r)
  BY <1>1 DEF OpOK, OldOK, NewOK, CoverOK, Publishes, DraftOK, At
<1>3. Whole(rows, meta, frozen) /\ rows.plan <= plans /\ PlanOrQueue
  BY <1>1 DEF NoPlan, Whole, PlanOrQueue
<1>4. WholeOK(r)
  BY <1>1, <1>3 DEF WholeOK, Undoing
<1> QED BY <1>2, <1>3, <1>4 DEF One

(* One case per action. *)
LEMMA NextOne == OneRequest /\ OneInv /\ [Next]_vars => OneInv'
<1> SUFFICES ASSUME OneRequest, OneInv, [Next]_vars PROVE OneInv'
  OBVIOUS
<1>1. PICK r \in Requests : Requests = {r}
  BY DEF OneRequest
<1>2. Typed /\ One(r) /\ TypeOK'
  BY NextTypes, Counted DEF OneInv, TypeOK
<1>3. SUFFICES One(r)'
  BY <1>1, <1>2 DEF OneInv
<1>4. CASE Step(r)
  <2>1. CASE \/ Take(r) \/ WriteRows(r) \/ WriteMeta(r) \/ WriteFrozen(r) \/ Undo(r)
             \/ Answered(r) \/ WriteRanks(r)
    BY <1>2, <2>1, Takes, WritesRows, WritesMeta, WritesFrozen, Undoes, AnswersFailure, WritesRanks
  <2>2. CASE \/ ClearQueue(r) \/ Refreeze(r) \/ PutSaved(r) \/ QueuedThenBooked(r)
             \/ ClearDrafts(r) \/ ClearQueueAgain(r) \/ Pin(r) \/ OtherFails(r)
    BY <1>2, <2>2, ClearsQueue, Refreezes, Books, ClearsDrafts, Pins, BreaksOff
  <2> QED BY <1>4, <2>1, <2>2 DEF Step
<1>5. CASE \/ ApplyBegins(r) \/ AcceptBegins(r) \/ ClearBegins(r) \/ SeedBegins(r)
           \/ DoneBegins(r) \/ PutBegins(r) \/ AddBegins(r)
  BY <1>2, <1>5, BeginsOne
<1>6. CASE SearchMoves \/ (\E o \in Lines : OrderGone(o)) \/ Restart \/ UNCHANGED vars
  BY <1>2, <1>6, AroundOne
<1> QED BY <1>1, <1>4, <1>5, <1>6 DEF Next

(* The invariant of one request at a time. *)
LEMMA OneStays == OneRequest /\ Spec => []OneInv
<1> SUFFICES ASSUME OneRequest PROVE Spec => []OneInv
  OBVIOUS
<1>1. OneInv /\ [Next]_vars => OneInv'
  BY NextOne
<1> QED BY <1>1, InitOne, PTL DEF Spec

(* One request at a time, killed or failing at any write: what is on file is   *)
(* one plan, unless a publish was cut short for good and none has ended since, *)
(* and a refused publish that was undone leaves what it found.               *)
THEOREM PublishesWhole == OneRequest /\ Spec => []PlanInv
<1> SUFFICES ASSUME OneRequest PROVE Spec => []PlanInv
  OBVIOUS
<1>1. OneInv => PublishedWhole
  BY DEF OneRequest, OneInv, One, WholeOK, Whole, Undoing, PublishedWhole, Quiet, At
<1>2. OneInv => NothingChanged
  BY DEF OneInv, One, OldOK, NothingChanged, At
<1>3. OneInv => PlanInv
  BY <1>1, <1>2 DEF PlanInv, OneInv
<1> QED BY <1>3, OneStays, PTL

(* One request at a time, and the process killed at any moment: every order   *)
(* line is held in the published plan or waits in the arrival queue.         *)
THEOREM NoOrderIsFree == OneRequest /\ Spec => []PlanOrQueue
<1> SUFFICES ASSUME OneRequest PROVE Spec => []PlanOrQueue
  OBVIOUS
<1>1. OneInv => PlanOrQueue
  BY DEF OneRequest, OneInv, One
<1> QED BY <1>1, OneStays, PTL

(* Which steps write the typed lines, and which the published rows. *)
LEMMA WhoWrites ==
  ASSUME NEW r \in Requests, Requests = {r}, [Next]_vars
  PROVE  /\ drafts' = drafts \/ PutSaved(r) \/ ClearDrafts(r)
         /\ rows' = rows \/ WriteRows(r) \/ Undo(r) \/ Pin(r)
<1>1. CASE Step(r)
  BY <1>1 DEF Step, Take, WriteRows, WriteMeta, WriteFrozen, Undo, Answered, WriteRanks, ClearQueue,
              Refreeze, PutSaved, QueuedThenBooked, ClearDrafts, ClearQueueAgain, Pin, OtherFails,
              stored
<1>2. CASE \/ ApplyBegins(r) \/ AcceptBegins(r) \/ ClearBegins(r) \/ SeedBegins(r)
           \/ DoneBegins(r) \/ PutBegins(r) \/ AddBegins(r)
  BY <1>2 DEF ApplyBegins, AcceptBegins, ClearBegins, SeedBegins, DoneBegins, PutBegins, AddBegins,
              stored
<1>3. CASE SearchMoves \/ (\E o \in Lines : OrderGone(o)) \/ Restart \/ UNCHANGED vars
  BY <1>3 DEF SearchMoves, OrderGone, Restart, vars, stored
<1> QED BY <1>1, <1>2, <1>3 DEF Next

(* One request at a time: a typed line goes only when the list is replaced or *)
(* by the request that has put that very line in the book.                   *)
THEOREM DraftsNotLost == OneRequest /\ Spec => DraftsKept
<1> SUFFICES ASSUME OneRequest PROVE Spec => DraftsKept
  OBVIOUS
<1>1. ASSUME OneInv, NEW p \in Requests, Requests = {p}, [Next]_vars
      PROVE  \A l \in drafts \ drafts' :
               \E r \in Requests : At(r, "save") \/ (At(r, "drafts") /\ l \in req[r].new)
  <2>1. CASE drafts' = drafts
    BY <2>1
  <2>2. CASE PutSaved(p)
    BY <2>2 DEF PutSaved
  <2>3. CASE ClearDrafts(p)
    <3>1. At(p, "drafts") /\ drafts = req[p].new
      BY <1>1, <2>3 DEF ClearDrafts, OneInv, One, OpOK, DraftOK, At
    <3> QED BY <3>1
  <2> QED BY <1>1, <2>1, <2>2, <2>3, WhoWrites
<1>2. OneInv /\ [Next]_vars =>
        [\A l \in drafts \ drafts' :
           \E r \in Requests : At(r, "save") \/ (At(r, "drafts") /\ l \in req[r].new)]_vars
  BY <1>1 DEF OneRequest
<1> QED BY <1>2, OneStays, PTL DEF DraftsKept, Spec

(* One request at a time: a published plan gives way only to a newer one, or, *)
(* when its own publish is undone, to the one it replaced; what is appended   *)
(* leaves it whole.                                                         *)
THEOREM PublishedStays == OneRequest /\ Spec => PublishStays
<1> SUFFICES ASSUME OneRequest PROVE Spec => PublishStays
  OBVIOUS
<1>1. ASSUME OneInv, NEW p \in Requests, Requests = {p}, [Next]_vars
      PROVE  /\ rows'.plan < rows.plan =>
                  \E r \in Requests : At(r, "unrows") /\ req[r].plan = rows.plan
             /\ rows'.plan = rows.plan => rows.lines \subseteq rows'.lines
  <2>0. Typed /\ rows.plan \in Nat /\ req[p].plan \in Nat /\ req[p].old.rows.plan \in Nat
    BY <1>1, Numbers DEF OneInv, TypeOK
  <2>1. CASE rows' = rows
    BY <2>0, <2>1
  <2>2. CASE WriteRows(p) /\ rows' # rows
    <3>1. rows'.plan = req[p].plan /\ rows.plan < req[p].plan
      BY <1>1, <2>2 DEF WriteRows, NewRows, OneInv, One, OldOK, At
    <3> QED BY <2>0, <3>1
  <2>3. CASE Undo(p) /\ rows' # rows
    <3>1. /\ At(p, "unrows") /\ rows' = req[p].old.rows /\ rows.plan = req[p].plan
          /\ req[p].old.rows.plan < req[p].plan
      BY <1>1, <2>3 DEF Undo, stored, OneInv, One, OldOK, NewOK, Publishes, At
    <3> QED BY <2>0, <3>1
  <2>4. CASE Pin(p) /\ rows' # rows
    <3>1. rows = req[p].old.rows /\ rows \in Rows
      BY <1>1, <2>0, <2>4, Numbers DEF Pin, OneInv, One, OpOK, OldOK, At
    <3>2. rows'.plan = rows.plan /\ rows.lines \subseteq rows'.lines
      BY <2>4, <3>1 DEF Pin, Rows
    <3> QED BY <2>0, <3>2
  <2> QED BY <1>1, <2>1, <2>2, <2>3, <2>4, WhoWrites
<1>2. OneInv /\ [Next]_vars =>
        [/\ rows'.plan < rows.plan =>
              \E r \in Requests : At(r, "unrows") /\ req[r].plan = rows.plan
         /\ rows'.plan = rows.plan => rows.lines \subseteq rows'.lines]_vars
  BY <1>1 DEF OneRequest
<1> QED BY <1>2, OneStays, PTL DEF PublishStays, Spec
=============================================================================
