--------------------------- MODULE PublishedPlan ---------------------------
(***************************************************************************)
(* The plan the floor follows and everything that is written with it        *)
(* (api/main.py): the published rows, their meta, the frozen set, the job    *)
(* ranks and the arrival queue, as changed by Apply, an accepted earlier    *)
(* date, "Go back to standard plan", the go-live seed, Done entering, and   *)
(* Add New Orders.                                                         *)
(*                                                                         *)
(* A whole-book plan is the number of the candidate it was built from, with *)
(* the order lines it covers; meta, frozen and ranks are the number of the  *)
(* plan they were written for.  Every store write is an action.  A request  *)
(* reads each key once (_RequestCachedStore), so its reads are one action,   *)
(* the one that begins it.                                                 *)
(*                                                                         *)
(* Left out: the contents of a schedule, the winner's settings, the committed*)
(* lane (switched off), the plan cache, and orders that are un-archived.     *)
(***************************************************************************)
EXTENDS Naturals, Sequences, SequencesExt

CONSTANTS
    Lines,          \* order lines, (SO number, item code) pairs
    Requests,       \* requests served at the same time
    NoOne,          \* the holder of a free lock
    Ops,            \* the operations in use
    Fails,          \* the store writes that may raise
    Removes,        \* are orders completed or deleted
    MaxCrashes,     \* bound: how often the process is killed
    MaxPlans,       \* bound: whole-book plans built in a behaviour
    MaxGroups       \* bound: arrival groups waiting at a time

AllOps == {"apply", "accept", "clear", "seed", "done", "put", "add"}
(* Of a publish, with the writes that undo it under one name; and the others. *)
PublishWrites == {"rows", "meta", "frozen", "undo", "ranks"}
OtherWrites   == {"queue", "refreeze", "save", "book", "drafts", "requeue"}

ASSUME PlanAssumption ==
    /\ NoOne \notin Requests /\ Ops \subseteq AllOps
    /\ Fails \subseteq PublishWrites \cup OtherWrites
    /\ Removes \in BOOLEAN /\ MaxCrashes \in Nat /\ MaxPlans \in Nat
    /\ MaxGroups \in Nat

VARIABLES
    book,       \* active order lines
    rows,       \* anvitech:last_applied_schedule
    meta,       \* anvitech:published_meta
    frozen,     \* anvitech:frozen_ops
    ranks,      \* anvitech:plan_priority
    queue,      \* the arrival groups
    drafts,     \* the typed lines
    result,     \* the search result on screen
    plans,      \* candidates built so far
    optLock, pubLock,
    req,        \* the requests under way
    crashes,    \* how often the process was killed
    torn        \* history, for the properties: was a publish cut short for good

stored == <<book, rows, meta, frozen, ranks, queue, drafts>>
vars   == <<stored, result, plans, optLock, pubLock, req, crashes, torn>>

Plans == 0..MaxPlans
Kinds == {"none", "apply", "clear", "seed"}
Rows  == [plan : Plans, kind : Kinds, lines : SUBSET Lines]

Ats   == {"idle", "take", "rows", "meta", "frozen", "unrows", "unmeta", "unfrozen", "failed", "wrong",
          "ranks", "queue", "refreeze", "save", "book", "drafts", "requeue", "pin"}
Old   == [rows : Rows, meta : Plans, frozen : Plans, queue : Seq(SUBSET Lines)]
Request == [op : AllOps \cup {"none"}, at : Ats, plan : Plans, covers : SUBSET Lines,
            new : SUBSET Lines, old : Old]

NoPlan == [plan |-> 0, kind |-> "none", lines |-> {}]
(* at: the write to make next; plan, covers: the candidate; new: the lines   *)
(* being added; old: what the request read.                                 *)
Idle == [op |-> "none", at |-> "idle", plan |-> 0, covers |-> {}, new |-> {},
         old |-> [rows |-> NoPlan, meta |-> 0, frozen |-> 0, queue |-> <<>>]]

Init ==
    /\ book \in SUBSET Lines /\ rows = NoPlan /\ meta = 0 /\ frozen = 0 /\ ranks = 0
    /\ queue = <<>> /\ drafts = {} /\ result = "none" /\ plans = 0
    /\ optLock = NoOne /\ pubLock = NoOne /\ crashes = 0 /\ torn = FALSE
    /\ req = [r \in Requests |-> Idle]

At(r, at)     == req[r].at = at
GoOn(r, at)   == req' = [req EXCEPT ![r].at = at]
Done(r)       == req' = [req EXCEPT ![r] = Idle]
Release(r)    == optLock' = IF optLock = r THEN NoOne ELSE optLock
Reads         == [rows |-> rows, meta |-> meta, frozen |-> frozen, queue |-> queue]
Begins(r, op) == op \in Ops /\ At(r, "idle")
Queued        == UNION Range(queue)

-----------------------------------------------------------------------------
(* The whole-book plan: Apply, accept an earlier date, standard plan, seed   *)

(* A candidate over the book and the lines to be added. *)
Builds(r, op, new) ==
    /\ plans < MaxPlans /\ plans' = plans + 1
    /\ req' = [req EXCEPT ![r] = [op |-> op, at |-> "rows", plan |-> plans', new |-> new,
                                  covers |-> book \cup new, old |-> Reads]]

(* POST /optimize/apply looks at the kind of the result, then takes the lock. *)
ApplyBegins(r) ==
    /\ Begins(r, "apply") /\ result # "quote" /\ optLock = NoOne
    /\ req' = [req EXCEPT ![r] = [Idle EXCEPT !.op = "apply", !.at = "take"]]
    /\ UNCHANGED <<stored, result, plans, optLock, pubLock, crashes, torn>>

(* mutant: the drafts of an accepted search are cleared before it is applied *)
AcceptClears(r) ==
    /\ Begins(r, "accept") /\ result = "quote" /\ drafts # {} /\ optLock = NoOne
    /\ req' = [req EXCEPT ![r] = [Idle EXCEPT !.op = "accept", !.at = "take", !.new = drafts]]
    /\ drafts' = {}
    /\ UNCHANGED <<book, rows, meta, frozen, ranks, queue, result, plans, optLock, pubLock, crashes, torn>>

(* POST /new-orders/prepone/accept looks at the result, then takes the lock. *)
AcceptBegins(r) ==
    /\ Begins(r, "accept") /\ result = "quote" /\ drafts # {} /\ optLock = NoOne
    /\ req' = [req EXCEPT ![r] = [Idle EXCEPT !.op = "accept", !.at = "take", !.new = drafts]]
    /\ UNCHANGED <<stored, result, plans, optLock, pubLock, crashes, torn>>

(* _optimize_apply: under the lock it looks only for a result. *)
Take(r) ==
    /\ At(r, "take") /\ optLock = NoOne
    /\ \/ (result = "none" \/ plans = MaxPlans) /\ Done(r) /\ UNCHANGED <<plans, optLock, crashes, torn>>
       \/ result # "none" /\ Builds(r, req[r].op, req[r].new) /\ optLock' = r
    /\ UNCHANGED <<stored, result, pubLock, crashes, torn>>

(* _optimize_clear takes no _OPTIMIZE_LOCK. *)
ClearBegins(r) ==
    /\ Begins(r, "clear") /\ Builds(r, "clear", {})
    /\ UNCHANGED <<stored, result, optLock, pubLock, crashes, torn>>

(* _ensure_published_plan, on any page that plans *)
SeedBegins(r) ==
    /\ Begins(r, "seed") /\ meta = 0 /\ Builds(r, "seed", {})
    /\ UNCHANGED <<stored, result, optLock, pubLock, crashes, torn>>

KindOf(op) == IF op \in {"clear", "seed"} THEN op ELSE "apply"

(* The error is on its way to the browser; the lock is given back. *)
Fail(r) == GoOn(r, "failed") /\ Release(r)
(* It says that nothing was changed, which is not so. *)
FailWrongly(r) == GoOn(r, "wrong") /\ Release(r) /\ torn' = TRUE
(* Nobody catches the exception: a bare 500. *)
Breaks(r) == Done(r) /\ Release(r)

NewRows(r) == [plan |-> req[r].plan, kind |-> KindOf(req[r].op), lines |-> req[r].covers]

(* mutant: the rows are written without the publish lock *)
WriteRowsUnlocked(r) ==
    /\ At(r, "rows") /\ GoOn(r, "meta") /\ rows' = NewRows(r)
    /\ UNCHANGED <<book, meta, frozen, ranks, queue, drafts, result, plans, optLock, pubLock, crashes, torn>>

(* A write that raises may have reached the store all the same: the answer of  *)
(* the store is what was lost.                                               *)
WriteRows(r) ==
    /\ At(r, "rows") /\ pubLock = NoOne
    /\ \/ rows' = NewRows(r) /\ pubLock' = r /\ GoOn(r, "meta") /\ UNCHANGED <<optLock, torn>>
       \/ "rows" \in Fails /\ Fail(r) /\ UNCHANGED <<rows, pubLock, torn>>
       \/ "rows" \in Fails /\ FailWrongly(r) /\ rows' = NewRows(r) /\ UNCHANGED pubLock
    /\ UNCHANGED <<book, meta, frozen, ranks, queue, drafts, result, plans, crashes>>

Stamped(r) == IF req[r].op = "seed" THEN Done(r) /\ torn' = FALSE
              ELSE GoOn(r, "frozen") /\ UNCHANGED torn

(* mutant: the lock is kept over the frozen set *)
WriteMetaKeepsLock(r) ==
    /\ At(r, "meta") /\ meta' = req[r].plan /\ Stamped(r)
    /\ UNCHANGED <<book, rows, frozen, ranks, queue, drafts, result, plans, optLock, pubLock, crashes>>

WriteMeta(r) ==
    /\ At(r, "meta") /\ pubLock' = NoOne
    /\ \/ meta' = req[r].plan /\ Stamped(r) /\ UNCHANGED optLock
       \/ "meta" \in Fails /\ FailWrongly(r) /\ meta' \in {meta, req[r].plan}
    /\ UNCHANGED <<book, rows, frozen, ranks, queue, drafts, result, plans, crashes>>

(* mutant: a failed write of the frozen set is reported and not undone *)
FrozenNotUndone(r) ==
    /\ At(r, "frozen")
    /\ \/ frozen' = req[r].plan /\ GoOn(r, "ranks") /\ UNCHANGED optLock
       \/ "frozen" \in Fails /\ Fail(r) /\ UNCHANGED frozen
    /\ UNCHANGED <<book, rows, meta, ranks, queue, drafts, result, plans, pubLock, crashes, torn>>

WriteFrozen(r) ==
    /\ At(r, "frozen")
    /\ \/ frozen' = req[r].plan /\ GoOn(r, "ranks")
       \/ "frozen" \in Fails /\ GoOn(r, "unrows") /\ frozen' \in {frozen, req[r].plan}
    /\ UNCHANGED <<book, rows, meta, ranks, queue, drafts, result, plans, optLock, pubLock, crashes, torn>>

(* The rollback of _publish_with_frozen.  Nothing catches what its own three   *)
(* writes raise; raising after the write is a kill at that place.            *)
Undo(r) ==
    \/ /\ At(r, "unrows") /\ pubLock = NoOne
       /\ rows' = req[r].old.rows /\ pubLock' = r /\ GoOn(r, "unmeta")
       /\ UNCHANGED <<book, meta, frozen, ranks, queue, drafts, result, plans, optLock, crashes, torn>>
    \/ /\ At(r, "unmeta")
       /\ meta' = req[r].old.meta /\ pubLock' = NoOne /\ GoOn(r, "unfrozen")
       /\ UNCHANGED <<book, rows, frozen, ranks, queue, drafts, result, plans, optLock, crashes, torn>>
    \/ /\ At(r, "unfrozen") /\ frozen' = req[r].old.frozen /\ Fail(r)
       /\ UNCHANGED <<book, rows, meta, ranks, queue, drafts, result, plans, pubLock, crashes, torn>>
    \/ /\ "undo" \in Fails /\ torn' = TRUE /\ Breaks(r)
       /\ \/ At(r, "unrows") /\ pubLock = NoOne /\ UNCHANGED pubLock
          \/ At(r, "unmeta") /\ pubLock' = NoOne
          \/ At(r, "unfrozen") /\ UNCHANGED pubLock
       /\ UNCHANGED <<stored, result, plans, crashes>>

Answered(r) ==
    /\ At(r, "failed") \/ At(r, "wrong")
    /\ Done(r)
    /\ UNCHANGED <<stored, result, plans, optLock, pubLock, crashes, torn>>

NewRanks(r) == IF req[r].op = "clear" THEN 0 ELSE req[r].plan

(* The ranks, the winner's settings, and with them the result on screen goes;  *)
(* clear forgets the ranks.  Nothing catches what these writes raise, and the  *)
(* rows, meta and frozen set stay as published.                             *)
WriteRanks(r) ==
    /\ At(r, "ranks")
    /\ \/ /\ ranks' = NewRanks(r) /\ torn' = FALSE /\ GoOn(r, "queue") /\ UNCHANGED optLock
          /\ IF req[r].op = "clear" THEN UNCHANGED result ELSE result' = "none"
       \/ /\ "ranks" \in Fails /\ ranks' \in {ranks, NewRanks(r)} /\ torn' = TRUE
          /\ Breaks(r) /\ UNCHANGED result
    /\ UNCHANGED <<book, rows, meta, frozen, queue, drafts, plans, pubLock, crashes>>

ClearQueue(r) ==
    /\ At(r, "queue") /\ req[r].op # "add"
    /\ queue' = <<>> /\ Release(r)
    /\ IF req[r].op = "accept" THEN GoOn(r, "book") ELSE Done(r)
    /\ UNCHANGED <<book, rows, meta, frozen, ranks, drafts, result, plans, pubLock, crashes, torn>>

-----------------------------------------------------------------------------
(* POST /optimize/done: the frozen set is rebuilt from the plan on file.     *)
DoneBegins(r) ==
    /\ Begins(r, "done")
    /\ req' = [req EXCEPT ![r] = [Idle EXCEPT !.op = "done", !.at = "refreeze", !.plan = rows.plan]]
    /\ UNCHANGED <<stored, result, plans, optLock, pubLock, crashes, torn>>

Refreeze(r) ==
    /\ At(r, "refreeze") /\ frozen' = req[r].plan /\ Done(r)
    /\ UNCHANGED <<book, rows, meta, ranks, queue, drafts, result, plans, optLock, pubLock, crashes, torn>>

(* PUT /new-orders/drafts: validated against the book, then saved whole.     *)
PutBegins(r) ==
    /\ Begins(r, "put")
    /\ \E ls \in SUBSET (Lines \ book) :
         req' = [req EXCEPT ![r] = [Idle EXCEPT !.op = "put", !.at = "save", !.new = ls]]
    /\ UNCHANGED <<stored, result, plans, optLock, pubLock, crashes, torn>>

PutSaved(r) ==
    /\ At(r, "save") /\ drafts' = req[r].new /\ Done(r)
    /\ UNCHANGED <<book, rows, meta, frozen, ranks, queue, result, plans, optLock, pubLock, crashes, torn>>

(* POST /new-orders/add.  Its stamp is of the plan it reads, and a quote can  *)
(* be had of any published plan, so the stamp asks for no more than that.     *)
AddBegins(r) ==
    /\ Begins(r, "add") /\ meta # 0 /\ drafts # {} /\ Len(queue) < MaxGroups
    /\ req' = [req EXCEPT ![r] = [Idle EXCEPT !.op = "add", !.at = "queue",
                                              !.new = drafts, !.old = Reads]]
    /\ UNCHANGED <<stored, result, plans, optLock, pubLock, crashes, torn>>

(* mutant: the book is written before the queue *)
BookedThenQueued(r) ==
    \/ /\ At(r, "queue") /\ req[r].op = "add"
       /\ book' = book \cup req[r].new /\ GoOn(r, "book")
       /\ UNCHANGED <<rows, meta, frozen, ranks, queue, drafts, result, plans, optLock, pubLock, crashes, torn>>
    \/ /\ At(r, "book") /\ queue' = Append(req[r].old.queue, req[r].new) /\ GoOn(r, "drafts")
       /\ UNCHANGED <<book, rows, meta, frozen, ranks, drafts, result, plans, optLock, pubLock, crashes, torn>>

(* The arrival queue first, then the orders. *)
QueuedThenBooked(r) ==
    \/ /\ At(r, "queue") /\ req[r].op = "add"
       /\ queue' = Append(req[r].old.queue, req[r].new) /\ GoOn(r, "book")
       /\ UNCHANGED <<book, rows, meta, frozen, ranks, drafts, result, plans, optLock, pubLock, crashes, torn>>
    \/ /\ At(r, "book") /\ book' = book \cup req[r].new /\ GoOn(r, "drafts")
       /\ UNCHANGED <<rows, meta, frozen, ranks, queue, drafts, result, plans, optLock, pubLock, crashes, torn>>

ClearDrafts(r) ==
    /\ At(r, "drafts") /\ drafts' = {}
    /\ GoOn(r, IF req[r].op = "add" THEN "pin" ELSE "requeue")
    /\ UNCHANGED <<book, rows, meta, frozen, ranks, queue, result, plans, optLock, pubLock, crashes, torn>>

(* An accepted search clears the queue once more. *)
ClearQueueAgain(r) ==
    /\ At(r, "requeue") /\ queue' = <<>> /\ Done(r)
    /\ UNCHANGED <<book, rows, meta, frozen, ranks, drafts, result, plans, optLock, pubLock, crashes, torn>>

(* mutant: the published plan is replaced by the new lines *)
PinOnly(r) ==
    /\ At(r, "pin") /\ pubLock = NoOne /\ Done(r)
    /\ rows' = [req[r].old.rows EXCEPT !.lines = req[r].new \cap book]
    /\ UNCHANGED <<book, meta, frozen, ranks, queue, drafts, result, plans, optLock, pubLock, crashes, torn>>

(* _pin_new_orders: under the publish lock the rows are read and written with *)
(* the new lines after them; the read is the one the request remembers.       *)
(* A failure is reported and leaves the plan as it is.                       *)
Pin(r) ==
    /\ At(r, "pin") /\ pubLock = NoOne /\ Done(r)
    /\ \/ rows' = [req[r].old.rows EXCEPT !.lines = @ \cup (req[r].new \cap book)]
       \/ "rows" \in Fails /\ UNCHANGED rows
    /\ UNCHANGED <<book, meta, frozen, ranks, queue, drafts, result, plans, optLock, pubLock, crashes, torn>>

(* Any other write that raises ends its request; raising after the write is a  *)
(* kill at that place.                                                      *)
OtherFails(r) ==
    /\ req[r].at \in OtherWrites \cap Fails /\ Breaks(r)
    /\ UNCHANGED <<stored, result, plans, pubLock, crashes, torn>>

-----------------------------------------------------------------------------
(* A search of the book, or with the drafts, starts or ends (OptimizeJob).    *)
SearchMoves ==
    /\ optLock = NoOne /\ result' \in {"none", "full", "quote"} /\ result' # result
    /\ UNCHANGED <<stored, plans, optLock, pubLock, req, crashes, torn>>

(* An order is completed or deleted. *)
OrderGone(o) ==
    /\ Removes /\ o \in book /\ book' = book \ {o}
    /\ UNCHANGED <<rows, meta, frozen, ranks, queue, drafts, result, plans, optLock, pubLock, req, crashes, torn>>

(* Between the first write of a publish and its last *)
MidPublish == {"meta", "frozen", "ranks", "unrows", "unmeta", "unfrozen"}

Restart ==
    /\ crashes < MaxCrashes /\ crashes' = crashes + 1
    /\ result' = "none" /\ optLock' = NoOne /\ pubLock' = NoOne
    /\ req' = [r \in Requests |-> Idle]
    /\ torn' = (torn \/ \E r \in Requests : req[r].at \in MidPublish)
    /\ UNCHANGED <<stored, plans>>

Step(r) ==
    \/ Take(r) \/ WriteRows(r) \/ WriteMeta(r) \/ WriteFrozen(r) \/ Undo(r)
    \/ Answered(r) \/ WriteRanks(r) \/ ClearQueue(r) \/ Refreeze(r) \/ PutSaved(r)
    \/ QueuedThenBooked(r) \/ ClearDrafts(r) \/ ClearQueueAgain(r) \/ Pin(r)
    \/ OtherFails(r)

Next ==
    \/ \E r \in Requests :
         \/ Step(r)
         \/ ApplyBegins(r) \/ AcceptBegins(r) \/ ClearBegins(r) \/ SeedBegins(r)
         \/ DoneBegins(r) \/ PutBegins(r) \/ AddBegins(r)
    \/ SearchMoves
    \/ \E o \in Lines : OrderGone(o)
    \/ Restart

Spec == Init /\ [][Next]_vars
(* A request that was begun goes on to its end. *)
FairSpec == Spec /\ \A r \in Requests : WF_vars(Step(r))

-----------------------------------------------------------------------------
Quiet == \A r \in Requests : At(r, "idle")

StoredOK ==
    /\ book \subseteq Lines /\ rows \in Rows
    /\ meta \in Plans /\ frozen \in Plans /\ ranks \in Plans /\ plans \in Plans
    /\ queue \in Seq(SUBSET Lines) /\ drafts \subseteq Lines

(* The publish lock is held from the write of the rows to that of the meta.  *)
LockHeld == \A r \in Requests : (pubLock = r) <=> req[r].at \in {"meta", "unmeta"}

Typed ==
    /\ StoredOK /\ LockHeld
    /\ result \in {"none", "full", "quote"}
    /\ optLock \in Requests \cup {NoOne} /\ pubLock \in Requests \cup {NoOne}
    /\ req \in [Requests -> Request]

TypeOK == Typed /\ crashes \in 0..MaxCrashes /\ torn \in BOOLEAN

(* "Publish rows and save the frozen set built from them as ONE step": with   *)
(* no request under way, the meta, the frozen set and the ranks on file are   *)
(* those of the published plan.  Only a publish cut short for good breaks it, *)
(* and the next one that ends mends it: one killed between its first write    *)
(* and its last, or one whose rows, meta, ranks or rollback raised.  The      *)
(* frozen set may raise, a kill may come anywhere else, and others may fail.  *)
PublishedWhole ==
    Quiet /\ ~torn =>
        /\ meta = rows.plan
        /\ rows.kind \in {"apply", "clear"} => frozen = rows.plan
        /\ rows.kind = "apply" => ranks = rows.plan
        /\ rows.kind = "clear" => ranks = 0

(* "Could not save the new plan. Nothing was changed": then nothing is, unless *)
(* the answer is wrong: the rows were written and their own answer or the meta *)
(* failed.  What was on file comes back however broken it was before.         *)
NothingChanged ==
    \A r \in Requests :
        At(r, "failed") =>
            /\ rows = req[r].old.rows /\ meta = req[r].old.meta /\ frozen = req[r].old.frozen
            /\ queue = req[r].old.queue

(* The Apply button refuses a search of Add New Orders, which "belongs to its  *)
(* own Accept button", and Accept takes no other.                            *)
AppliesItsKind ==
    [][\A r \in Requests :
         At(r, "take") /\ req'[r].at = "rows" => (req[r].op = "apply" <=> result = "full")]_vars

(* Outside the lock the rows and the meta are of one publish. *)
PlanAndMeta == pubLock = NoOne => meta = rows.plan

(* With no failing write, no crash and no Add New Orders, what makes it so:   *)
(* between its two writes the holder's plan is the one on file.               *)
LockInv ==
    /\ PlanAndMeta
    /\ \A r \in Requests : At(r, "meta") => rows.plan = req[r].plan
    /\ \A r \in Requests : req[r].op # "add" /\ req[r].at \notin {"unrows", "unmeta", "unfrozen", "pin"}

(* A published plan gives way only to a newer one, or to the one it replaced   *)
(* when its own publish is undone; what is appended to it leaves it whole.    *)
PublishStays ==
    [][/\ rows'.plan < rows.plan =>
             \E r \in Requests : At(r, "unrows") /\ req[r].plan = rows.plan
       /\ rows'.plan = rows.plan => rows.lines \subseteq rows'.lines]_vars

(* The go-live seed publishes only while nothing is published. *)
SeedsOnce ==
    [][rows'.kind = "seed" /\ rows'.plan > rows.plan => meta = 0]_vars

(* "First come, first served": an order line is held in the published plan or *)
(* waits in the arrival queue; it is never free to move the others.           *)
PlanOrQueue == rows.kind # "none" => book \subseteq rows.lines \cup Queued

(* A line waits in one arrival group, or it would be planned twice. *)
PlannedOnce ==
    \A i, j \in DOMAIN queue : i # j => queue[i] \cap queue[j] \cap book = {}

(* "never loses half-typed work": a draft goes when the list is replaced, or   *)
(* when the request that clears the list has put that line in the book.       *)
DraftsKept ==
    [][\A l \in drafts \ drafts' :
         \E r \in Requests : At(r, "save") \/ (At(r, "drafts") /\ l \in req[r].new)]_vars

(* Whoever waits for a lock gets it: every request ends. *)
EveryRequestEnds == \A r \in Requests : ~At(r, "idle") ~> At(r, "idle")

(* What a publish leaves behind, killed and failing at any of its writes: the  *)
(* types, one plan on file unless it was cut short for good, and no trace of   *)
(* one that was refused and undone.                                         *)
PlanInv == TypeOK /\ PublishedWhole /\ NothingChanged
============================================================================
