---------------------------- MODULE OrderLedger ----------------------------
(***************************************************************************)
(* The order book and the production punches (engine/book_store.py), as the *)
(* requests of the web server change them: POST /actuals, /actuals/rollback,*)
(* /orders/complete, /orders/delete, /orders/clear, and the orders that Add *)
(* New Orders brings in.                                                   *)
(*                                                                         *)
(* No lock protects this data.  A request is a sequence of store calls, and *)
(* each call is one action here; between two calls other requests run, and  *)
(* the process may be killed.  Reads are memoized for the length of a       *)
(* request (_RequestCachedStore), so what a request read once it goes on    *)
(* using until it writes that key itself.                                  *)
(*                                                                         *)
(* Left out: operator, machine and downtime fields of a punch (checked      *)
(* against the masters, used by reports only), the commitment lane (switched*)
(* off), and punches of steps that are not in the routing (never refused).  *)
(***************************************************************************)
EXTENDS Naturals, FiniteSets

CONSTANTS
    Orders,         \* (SO number, item code) pairs
    NSteps,         \* length of the routing
    Ordered,        \* pieces of an order
    MaxQty,         \* bound: pieces of one punch
    MaxDay,         \* bound: days that can be punched (the last one is today)
    MaxEntries,     \* bound: punches made in a behaviour
    Requests,       \* requests served at the same time
    Deletes,        \* does an admin delete orders
    LateRejects,    \* does the floor enter rejections later than the pieces
    RewritesAlone,  \* assumed: a request that rewrites the list runs alone
    OrdersApart,    \* assumed: requests under way together are of different orders
    ListWrites,     \* how list_set writes: "whole" (Mongo), "delPush" (Upstash)
    MaxCrashes      \* bound: how often the process is killed

Steps == 1..NSteps

ASSUME LedgerAssumption ==
    /\ NSteps \in Nat \ {0} /\ Ordered \in Nat /\ MaxQty \in Nat
    /\ MaxDay \in Nat \ {0} /\ MaxEntries \in Nat
    /\ Deletes \in BOOLEAN /\ LateRejects \in BOOLEAN
    /\ RewritesAlone \in BOOLEAN /\ OrdersApart \in BOOLEAN
    /\ ListWrites \subseteq {"whole", "delPush"} /\ MaxCrashes \in Nat

VARIABLES
    active,     \* hash anvitech:orders
    archive,    \* hash anvitech:orders:completed
    actuals,    \* list anvitech:actuals
    punched,    \* punches made so far (ids are never reused)
    req,        \* the requests under way
    crashes     \* how often the process was killed

vars == <<active, archive, actuals, punched, req, crashes>>

Entry == [id : 1..MaxEntries, order : Orders, step : Steps, made : 0..MaxQty,
          rej : 0..MaxQty, mark : BOOLEAN, day : 1..MaxDay]

Ops   == {"none", "punch", "complete", "rollback", "delete", "clear"}
Calls == {"idle", "check", "append", "toArchive", "outOfActive",
          "rewrite", "push", "recheck", "toActive", "outOfArchive",
          "dropActive", "dropArchive", "readList", "clearActive", "clearArchive", "clearList"}

(* at: the store call to make next; punch: the punch to append or to undo;   *)
(* inBook: what the request read of its order; kept: the list as it read it,  *)
(* without what it takes out.                                               *)
Idle == [op |-> "none", at |-> "idle", order |-> {}, punch |-> {}, inBook |-> FALSE, kept |-> {}]

TypeOK ==
    /\ active \subseteq Orders /\ archive \subseteq Orders
    /\ actuals \subseteq Entry /\ punched \in 0..MaxEntries /\ crashes \in 0..MaxCrashes
    /\ \A e, f \in actuals : e.id = f.id => e = f
    /\ \A r \in Requests :
         /\ req[r].op \in Ops /\ req[r].at \in Calls
         /\ req[r].order \subseteq Orders /\ req[r].punch \subseteq Entry
         /\ req[r].inBook \in BOOLEAN /\ req[r].kept \subseteq Entry

Init ==
    /\ active = Orders /\ archive = {} /\ actuals = {} /\ punched = 0 /\ crashes = 0
    /\ req = [r \in Requests |-> Idle]

-----------------------------------------------------------------------------
(* The accounting of engine/orderbook.py                                    *)

Of(as, o, k)       == {e \in as : e.order = o /\ e.step = k}
Pieces(e, n)       == {e} \X (1..n)
Made(as)           == UNION {Pieces(e, e.made) : e \in as}
Rejected(as)       == UNION {Pieces(e, e.rej) : e \in as}
Produced(as, o, k) == Cardinality(Made(Of(as, o, k)))

(* Rejections are netted over all the entries of a step, then clamped. *)
Good(as, o, k) ==
    LET rejected == Cardinality(Rejected(Of(as, o, k)))
    IN  IF Produced(as, o, k) > rejected THEN Produced(as, o, k) - rejected ELSE 0

(* precedence_cap_error: as is the list with the new punch.  An order that   *)
(* is not active has no cap on its first step.                              *)
OverCap(as, o, k, inBook) ==
    \/ k = 1 /\ inBook /\ Produced(as, o, 1) > Ordered
    \/ k > 1 /\ Produced(as, o, k) > Good(as, o, k - 1)

(* mutant: the later step is not looked at *)
UndercutsNever(as, e) == FALSE

(* rollback_cap_error: as is the list without e *)
Undercuts(as, e) ==
    e.step < NSteps /\ Produced(as, e.order, e.step + 1) > Good(as, e.order, e.step)

LatestDay(as) == CHOOSE d \in 1..MaxDay : /\ \E e \in as : e.day = d
                                          /\ \A e \in as : e.day <= d

-----------------------------------------------------------------------------
Serves(r, q) == req' = [req EXCEPT ![r] = q]
GoOn(r, at) == Serves(r, [req[r] EXCEPT !.at = at])
Done(r)      == Serves(r, Idle)
At(r, at)    == req[r].at = at
Its(r, o)    == o \in req[r].order

(* The code puts no limit on what is under way together: the two assumptions   *)
(* are of the users.  A request that appends never rewrites the list.         *)
Appending == {"punch", "complete"}
MayBegin(r, op, os) ==
    \A q \in Requests \ {r} :
        \/ At(q, "idle")
        \/ /\ RewritesAlone => op \in Appending /\ req[q].op \in Appending
           /\ OrdersApart => os \cap req[q].order = {}

(* POST /actuals: reads the order, then the list and decides, then appends,  *)
(* then archives the order if the punch is marked complete.                  *)
PunchBegins(r) ==
    /\ At(r, "idle") /\ punched < MaxEntries
    /\ punched' = punched + 1
    /\ \E o \in Orders, k \in Steps, made, rej \in 0..MaxQty, mark \in BOOLEAN, d \in 1..MaxDay :
         /\ MayBegin(r, "punch", {o}) /\ (LateRejects \/ rej <= made)
         /\ Serves(r, [op |-> "punch", at |-> "check", order |-> {o},
                       punch |-> {[id |-> punched', order |-> o, step |-> k, made |-> made,
                                   rej |-> rej, mark |-> mark, day |-> d]},
                       inBook |-> o \in active, kept |-> {}])
    /\ UNCHANGED <<active, archive, actuals, crashes>>

PunchChecked(r) ==
    /\ At(r, "check")
    /\ \E e \in req[r].punch :
         \/ OverCap(actuals \cup {e}, e.order, e.step, req[r].inBook) /\ Done(r)
         \/ /\ ~OverCap(actuals \cup {e}, e.order, e.step, req[r].inBook)
            /\ Serves(r, [req[r] EXCEPT !.at = "append", !.kept = actuals])
    /\ UNCHANGED <<active, archive, actuals, punched, crashes>>

(* mutant: the list is written back as the request read it, with the punch    *)
PunchOverwrites(r) ==
    /\ At(r, "append") /\ actuals' = req[r].kept \cup req[r].punch
    /\ \/ (\E e \in req[r].punch : e.mark) /\ req[r].inBook /\ GoOn(r, "toArchive")
       \/ ~((\E e \in req[r].punch : e.mark) /\ req[r].inBook) /\ Done(r)
    /\ UNCHANGED <<active, archive, punched, crashes>>

PunchAppended(r) ==
    /\ At(r, "append") /\ actuals' = actuals \cup req[r].punch
    /\ \/ (\E e \in req[r].punch : e.mark) /\ req[r].inBook /\ GoOn(r, "toArchive")
       \/ ~((\E e \in req[r].punch : e.mark) /\ req[r].inBook) /\ Done(r)
    /\ UNCHANGED <<active, archive, punched, crashes>>

(* POST /orders/complete, then complete_order: the archive is written first. *)
CompleteBegins(r) ==
    /\ At(r, "idle")
    /\ \E o \in active :
         /\ MayBegin(r, "complete", {o})
         /\ Serves(r, [Idle EXCEPT !.op = "complete", !.at = "toArchive",
                                   !.order = {o}, !.inBook = TRUE])
    /\ UNCHANGED <<active, archive, actuals, punched, crashes>>

(* mutant: the order leaves the one hash before it enters the other *)
ArchivedLast(r) ==
    \/ /\ At(r, "toArchive") /\ active' = active \ req[r].order
       /\ GoOn(r, "outOfActive") /\ UNCHANGED <<archive, actuals, punched, crashes>>
    \/ /\ At(r, "outOfActive") /\ archive' = archive \cup req[r].order
       /\ Done(r) /\ UNCHANGED <<active, actuals, punched, crashes>>

Archived(r) ==
    \/ /\ At(r, "toArchive") /\ archive' = archive \cup req[r].order
       /\ GoOn(r, "outOfActive") /\ UNCHANGED <<active, actuals, punched, crashes>>
    \/ /\ At(r, "outOfActive") /\ active' = active \ req[r].order
       /\ Done(r) /\ UNCHANGED <<archive, actuals, punched, crashes>>

(* POST /actuals/rollback: only a punch of the latest day, and only if the   *)
(* next step does not need it.  The list that was read is written back       *)
(* without the punch.                                                       *)
RollbackBegins(r) ==
    /\ At(r, "idle")
    /\ \E e \in actuals :
         /\ MayBegin(r, "rollback", {e.order})
         /\ e.day = LatestDay(actuals) /\ ~Undercuts(actuals \ {e}, e)
         /\ Serves(r, [Idle EXCEPT !.op = "rollback", !.at = "rewrite", !.order = {e.order},
                                   !.punch = {e}, !.kept = actuals \ {e}])
    /\ UNCHANGED <<active, archive, actuals, punched, crashes>>

Rewritten(r) ==
    IF req[r].op = "rollback" /\ \E e \in req[r].punch : e.mark THEN GoOn(r, "recheck") ELSE Done(r)

Rewrite(r) ==
    \/ /\ "whole" \in ListWrites /\ At(r, "rewrite")
       /\ actuals' = req[r].kept /\ Rewritten(r)
       /\ UNCHANGED <<active, archive, punched, crashes>>
    \/ /\ "delPush" \in ListWrites /\ At(r, "rewrite")
       /\ actuals' = {} /\ GoOn(r, "push")
       /\ UNCHANGED <<active, archive, punched, crashes>>
    \/ /\ At(r, "push")
       /\ actuals' = actuals \cup req[r].kept /\ Rewritten(r)
       /\ UNCHANGED <<active, archive, punched, crashes>>

(* mutant: the order comes back although another punch still marks it done *)
RecheckLax(r) ==
    /\ At(r, "recheck")
    /\ IF \E o \in archive : Its(r, o) THEN GoOn(r, "toActive") ELSE Done(r)
    /\ UNCHANGED <<active, archive, actuals, punched, crashes>>

(* Un-archive, unless another punch still marks the order complete. *)
Recheck(r) ==
    /\ At(r, "recheck")
    /\ IF (\E o \in archive : Its(r, o)) /\ ~(\E e \in actuals : Its(r, e.order) /\ e.mark)
       THEN GoOn(r, "toActive") ELSE Done(r)
    /\ UNCHANGED <<active, archive, actuals, punched, crashes>>

(* uncomplete_order *)
Unarchived(r) ==
    \/ /\ At(r, "toActive") /\ active' = active \cup req[r].order
       /\ GoOn(r, "outOfArchive") /\ UNCHANGED <<archive, actuals, punched, crashes>>
    \/ /\ At(r, "outOfArchive") /\ archive' = archive \ req[r].order
       /\ Done(r) /\ UNCHANGED <<active, actuals, punched, crashes>>

(* POST /orders/delete of one order *)
DeleteBegins(r) ==
    /\ Deletes /\ At(r, "idle")
    /\ \E o \in active \cup archive :
         /\ MayBegin(r, "delete", {o})
         /\ Serves(r, [Idle EXCEPT !.op = "delete", !.at = "dropActive", !.order = {o}])
    /\ UNCHANGED <<active, archive, actuals, punched, crashes>>

Deleted(r) ==
    \/ /\ At(r, "dropActive") /\ active' = active \ req[r].order
       /\ GoOn(r, "dropArchive") /\ UNCHANGED <<archive, actuals, punched, crashes>>
    \/ /\ At(r, "dropArchive") /\ archive' = archive \ req[r].order
       /\ GoOn(r, "readList") /\ UNCHANGED <<active, actuals, punched, crashes>>
    \/ /\ At(r, "readList")
       /\ Serves(r, [req[r] EXCEPT !.at = "rewrite",
                                   !.kept = {e \in actuals : ~Its(r, e.order)}])
       /\ UNCHANGED <<active, archive, actuals, punched, crashes>>

(* POST /orders/clear *)
ClearBegins(r) ==
    /\ Deletes /\ At(r, "idle") /\ MayBegin(r, "clear", Orders)
    /\ Serves(r, [Idle EXCEPT !.op = "clear", !.at = "clearActive"])
    /\ UNCHANGED <<active, archive, actuals, punched, crashes>>

Cleared(r) ==
    \/ /\ At(r, "clearActive") /\ active' = {}
       /\ GoOn(r, "clearArchive") /\ UNCHANGED <<archive, actuals, punched, crashes>>
    \/ /\ At(r, "clearArchive") /\ archive' = {}
       /\ GoOn(r, "clearList") /\ UNCHANGED <<active, actuals, punched, crashes>>
    \/ /\ At(r, "clearList") /\ actuals' = {}
       /\ Done(r) /\ UNCHANGED <<active, archive, punched, crashes>>

(* Add New Orders; a pair that is in either book was refused as a draft.     *)
OrderAdded(o) ==
    /\ o \notin active \cup archive /\ active' = active \cup {o}
    /\ UNCHANGED <<archive, actuals, punched, req, crashes>>

Restart ==
    /\ crashes < MaxCrashes /\ crashes' = crashes + 1
    /\ req' = [r \in Requests |-> Idle]
    /\ UNCHANGED <<active, archive, actuals, punched>>

Next ==
    \/ \E r \in Requests :
         \/ PunchBegins(r) \/ PunchChecked(r) \/ PunchAppended(r)
         \/ CompleteBegins(r) \/ Archived(r)
         \/ RollbackBegins(r) \/ Rewrite(r) \/ Recheck(r) \/ Unarchived(r)
         \/ DeleteBegins(r) \/ Deleted(r)
         \/ ClearBegins(r) \/ Cleared(r)
    \/ \E o \in Orders : OrderAdded(o)
    \/ Restart

Spec == Init /\ [][Next]_vars

-----------------------------------------------------------------------------
Quiet == \A r \in Requests : At(r, "idle")
Works(o, ops) == \E r \in Requests : req[r].op \in ops /\ (req[r].op = "clear" \/ Its(r, o))

(* "a process's recorded qty can't exceed the good qty that cleared the      *)
(* process before it": the guards on a punch and on a rollback together keep *)
(* every step behind the one before.                                        *)
StepsInOrder ==
    \A o \in Orders, k \in 2..NSteps : Produced(actuals, o, k) <= Good(actuals, o, k - 1)

(* "(first step <= ordered)": what is recorded at the first step of an       *)
(* active order fits the order.                                             *)
FirstStepFits == \A o \in active : Produced(actuals, o, 1) <= Ordered

Removes(r, e) == req[r].op = "rollback" /\ e \in req[r].punch
PutsBack(r, e) == req'[r].at = "push" /\ e \in req[r].kept

(* "two users acting at once don't overwrite each other (...; actuals are      *)
(* appended, never rewritten as one blob)": so it is among those who only      *)
(* append.  The requests that do rewrite the list (rollback, delete) run       *)
(* alone; then a saved punch goes only when it is rolled back itself, with its *)
(* order, or while the request that has emptied the list (Upstash: DEL, then   *)
(* RPUSH) holds it; that request puts it back, unless it is killed right there *)
(* and every punch is lost.                                                  *)
PunchesStay ==
    [][/\ \A e \in actuals \ actuals' :
            \/ Works(e.order, {"delete", "clear"})
            \/ \E r \in Requests : Removes(r, e) \/ PutsBack(r, e)
       /\ \A r \in Requests :
            At(r, "push") /\ req'[r] # req[r] => req[r].kept \subseteq actuals' \/ crashes' # crashes]_vars

(* "Durable storage for the order book, actuals", where list_set is one call:  *)
(* the same with no list held outside of the store, killed at any moment.     *)
PunchesDurable ==
    [][\A e \in actuals \ actuals' :
         \/ Works(e.order, {"delete", "clear"})
         \/ \E r \in Requests : Removes(r, e)]_vars

(* Completing and un-completing move an order; only an admin's delete takes  *)
(* it out of both books, wherever the process is killed.                     *)
OrdersStay ==
    [][\A o \in (active \cup archive) \ (active' \cup archive') : Works(o, {"delete", "clear"})]_vars

(* Between requests an order is in one book only, unless the process was     *)
(* killed in the middle of a move.                                          *)
OneBook == Quiet /\ crashes = 0 => active \cap archive = {}

(* A rolled-back "mark complete" returns the order to active, "unless another *)
(* remaining entry still marks it complete".                                 *)
StillMarked(o) == \E e \in actuals : e.order = o /\ e.mark
UndoesMark(r, o) == req[r].op = "rollback" /\ (\E e \in req[r].punch : e.mark) /\ Its(r, o)
RollbackReturns ==
    [][\A r \in Requests, o \in Orders : UndoesMark(r, o) /\ crashes' = crashes =>
           /\ req'[r] = Idle /\ o \in active' \cup archive' => StillMarked(o)' \/ o \in active'
           /\ At(r, "toActive") /\ req'[r] # req[r] => ~StillMarked(o)]_vars

(* The books agree with the punches once a request ends: the types, an order *)
(* in one book only, and no step ahead of the one before it.                 *)
LedgerInv == TypeOK /\ OneBook /\ StepsInOrder
============================================================================
