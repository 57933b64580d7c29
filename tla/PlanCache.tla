----------------------------- MODULE PlanCache -----------------------------
(***************************************************************************)
(* The plan cache of the server process and the requests that live on it    *)
(* (api/main.py): the dashboard's plan, a quote for new orders, adding them *)
(* with the quoted dates, and the search for earlier dates (prepone).       *)
(*                                                                         *)
(* _plan fingerprints the inputs it read, serves the cached result if its   *)
(* key is that fingerprint, and plans afresh otherwise.  The cache is a     *)
(* dict shared by the threads: its result, its key and its artifacts are    *)
(* read one after the other, with no lock.  The masters have a cache of the *)
(* same make.  A plan is the inputs it was computed from; what a request    *)
(* reads of the store it keeps until its end (_RequestCachedStore).         *)
(*                                                                         *)
(* Inputs: "masters" (the tables of ShopMasters) and "book" (orders, queue, *)
(* published and frozen rows, punches, absences, breaks, settings, ranks).  *)
(* The go-live seed is in PublishedPlan, the search itself in OptimizeJob;  *)
(* the commitment lane is switched off.                                     *)
(***************************************************************************)
EXTENDS Naturals

CONSTANTS
    Clients,        \* browsers
    Values,         \* contents an input can have
    Serial,         \* is at most one of these requests under way at a time
    MaxLines,       \* lists of draft lines that can be typed
    MaxTarget,      \* dates that can be typed
    MaxDay,         \* bound: midnights
    Nothing         \* no value

ASSUME NothingAssumption == Nothing \notin Values
ASSUME BoundAssumption == {MaxLines, MaxTarget, MaxDay} \subseteq Nat

Inputs == {"masters", "book"}

VARIABLES
    store,      \* the inputs of a plan, and the drafts with their typed date
    day,        \* today
    mcache,     \* _MASTERS_CACHE: digest and masters
    pcache,     \* _PLAN_CACHE: key, result and artifacts
    search,     \* _OPTIMIZE: state, kind, and the lines and date it was given
    page,       \* the quote each client sees
    req         \* the request under way of each client

vars == <<store, day, mcache, pcache, search, page, req>>

NoDrafts == [lines |-> 0, target |-> 0]
Idle     == [op |-> "none", at |-> "idle"]
NoSearch == [state |-> "idle", quote |-> FALSE, lines |-> 0, target |-> 0]

(* What a plan was computed from *)
Plans == [masters : Values, book : Values, day : 0..MaxDay]
ASSUME PlansAssumption == Nothing \notin Plans

(* mutant: the tables are not part of the fingerprint *)
FingerprintNoMasters(in, d) == [masters |-> 0, book |-> in.book, day |-> d]

(* _plan_fingerprint: every input of the plan and the day it starts from;    *)
(* the drafts are not an input.                                             *)
Fingerprint(in, d) == [masters |-> in.masters, book |-> in.book, day |-> d]

Init ==
    /\ store \in [masters : Values, book : Values, drafts : {NoDrafts}]
    /\ day = 0 /\ mcache = [key |-> Nothing, masters |-> Nothing]
    /\ pcache = [key |-> Nothing, result |-> Nothing, art |-> Nothing]
    /\ search = NoSearch
    /\ page = [r \in Clients |-> Nothing] /\ req = [r \in Clients |-> Idle]

At(r, at) == req[r].at = at
Goes(r, q) == req' = [req EXCEPT ![r] = q]
GoOn(r, at) == Goes(r, [req[r] EXCEPT !.at = at])
Done(r) == Goes(r, Idle)
Free(r) == At(r, "idle") /\ (Serial => \A s \in Clients : At(s, "idle"))
Asks(op) == [op |-> op, at |-> "result", in |-> store, fp |-> Fingerprint(store, day),
             got |-> Nothing, plan |-> Nothing, masters |-> Nothing, day |-> 0, pins |-> FALSE]

-----------------------------------------------------------------------------
(* _plan                                                                    *)

(* POST /run, and the reports that read the plan on screen *)
ViewBegins(r) ==
    /\ Free(r) /\ Goes(r, Asks("view"))
    /\ UNCHANGED <<store, day, mcache, pcache, search, page>>

ReadResult(r) ==
    /\ At(r, "result") /\ Goes(r, [req[r] EXCEPT !.got = pcache.result, !.at = "key"])
    /\ UNCHANGED <<store, day, mcache, pcache, search, page>>

Hit(r) == req[r].got # Nothing /\ pcache.key = req[r].fp

ReadKey(r) ==
    /\ At(r, "key")
    /\ IF Hit(r) THEN Goes(r, [req[r] EXCEPT !.plan = req[r].got, !.at = "planned"])
                 ELSE GoOn(r, "masters")
    /\ UNCHANGED <<store, day, mcache, pcache, search, page>>

(* _current_masters: the tables' digest is looked up, then the masters read; *)
(* or they are built from the tables and cached.  The day is read again.     *)
LookUpMasters(r) ==
    /\ At(r, "masters")
    /\ LET digest == req[r].in.masters
       IN  IF mcache.masters # Nothing /\ mcache.key = digest
           THEN /\ Goes(r, [req[r] EXCEPT !.at = "cached", !.day = day])
                /\ UNCHANGED mcache
           ELSE /\ mcache' = [key |-> digest, masters |-> digest]
                /\ Goes(r, [req[r] EXCEPT !.at = "compute", !.masters = digest, !.day = day])
    /\ UNCHANGED <<store, day, pcache, search, page>>

ReadMasters(r) ==
    /\ At(r, "cached")
    /\ Goes(r, [req[r] EXCEPT !.at = "compute", !.masters = mcache.masters])
    /\ UNCHANGED <<store, day, mcache, pcache, search, page>>

(* The plan is computed from what the request read and cached under the      *)
(* fingerprint it began with.                                               *)
Compute(r) ==
    /\ At(r, "compute")
    /\ \E p \in {Fingerprint([req[r].in EXCEPT !.masters = req[r].masters], req[r].day)} :
         /\ pcache' = [key |-> req[r].fp, result |-> p, art |-> p]
         /\ Goes(r, [req[r] EXCEPT !.plan = p, !.at = "planned"])
    /\ UNCHANGED <<store, day, mcache, search, page>>

ViewAnswers(r) ==
    /\ At(r, "planned") /\ req[r].op = "view" /\ Done(r)
    /\ UNCHANGED <<store, day, mcache, pcache, search, page>>

(* A quote, an add and its pinning take the schedule from the artifacts.     *)
ReadArtifacts(r) ==
    /\ At(r, "planned") /\ req[r].op # "view"
    /\ Goes(r, [req[r] EXCEPT !.plan = pcache.art, !.at = "quoted"])
    /\ UNCHANGED <<store, day, mcache, pcache, search, page>>

-----------------------------------------------------------------------------
(* Add New Orders                                                           *)

(* mutant: a line keeps the date typed for it before *)
PutKeepsDate(r) ==
    /\ Free(r)
    /\ \E n \in 0..MaxLines : store' = [store EXCEPT !.drafts.lines = n]
    /\ UNCHANGED <<day, mcache, pcache, search, page, req>>

(* PUT /new-orders/drafts replaces the list; its lines have no typed date.   *)
PutDrafts(r) ==
    /\ Free(r)
    /\ \E n \in 0..MaxLines : store' = [store EXCEPT !.drafts = [lines |-> n, target |-> 0]]
    /\ UNCHANGED <<day, mcache, pcache, search, page, req>>

(* POST /new-orders/quote *)
QuoteBegins(r) ==
    /\ Free(r) /\ store.drafts.lines > 0 /\ Goes(r, Asks("quote"))
    /\ UNCHANGED <<store, day, mcache, pcache, search, page>>

(* The stamp is the fingerprint of what the request read. *)
QuoteAnswers(r) ==
    /\ At(r, "quoted") /\ req[r].op = "quote" /\ Done(r)
    /\ page' = [page EXCEPT ![r] = [stamp |-> Fingerprint(req[r].in, day), plan |-> req[r].plan,
                                    lines |-> req[r].in.drafts.lines]]
    /\ UNCHANGED <<store, day, mcache, pcache, search>>

(* mutant: an old quote will do *)
AddUnstamped(r) ==
    /\ Free(r) /\ page[r] # Nothing
    /\ store.drafts.lines > 0 /\ Goes(r, Asks("add"))
    /\ UNCHANGED <<store, day, mcache, pcache, search, page>>

(* POST /new-orders/add, with the stamp of the quote on the page *)
AddBegins(r) ==
    /\ Free(r) /\ page[r] # Nothing /\ page[r].stamp = Fingerprint(store, day)
    /\ store.drafts.lines > 0 /\ Goes(r, Asks("add"))
    /\ UNCHANGED <<store, day, mcache, pcache, search, page>>

(* The orders are saved with the dates of the quote made now, the drafts     *)
(* cleared, the cache's key dropped; then the request plans once more.       *)
AddSaves(r) ==
    /\ At(r, "quoted") /\ req[r].op = "add" /\ ~req[r].pins
    /\ \E v \in Values \ {store.book} :
         LET in == [req[r].in EXCEPT !.book = v, !.drafts = NoDrafts]
         IN  /\ store' = [store EXCEPT !.book = v, !.drafts = NoDrafts]
             /\ Goes(r, [req[r] EXCEPT !.pins = TRUE, !.in = in, !.at = "result",
                                       !.fp = Fingerprint(in, day)])
    /\ pcache' = [pcache EXCEPT !.key = Nothing]
    /\ UNCHANGED <<day, mcache, search, page>>

(* _pin_new_orders: the steps that plan has for the new lines are published. *)
AddPins(r) ==
    /\ At(r, "quoted") /\ req[r].op = "add" /\ req[r].pins /\ Done(r)
    /\ pcache' = [pcache EXCEPT !.key = Nothing]
    /\ UNCHANGED <<store, day, mcache, search, page>>

-----------------------------------------------------------------------------
(* Earlier dates (prepone)                                                  *)

Target(r) == req[r].in.drafts.target
Lines(r)  == req[r].in.drafts.lines

(* POST /new-orders/prepone: refused while a search runs; the typed dates    *)
(* are saved; then the search starts, or is refused because one runs.        *)
PreponeBegins(r) ==
    /\ Free(r) /\ search.state # "running" /\ store.drafts.lines > 0
    /\ \E t \in 1..MaxTarget :
         Goes(r, [op |-> "prepone", at |-> "save", in |-> [drafts |-> [store.drafts EXCEPT !.target = t]]])
    /\ UNCHANGED <<store, day, mcache, pcache, search, page>>

PreponeSaves(r) ==
    /\ At(r, "save") /\ store' = [store EXCEPT !.drafts = req[r].in.drafts]
    /\ GoOn(r, "start")
    /\ UNCHANGED <<day, mcache, pcache, search, page>>

PreponeStarts(r) ==
    /\ At(r, "start") /\ Done(r)
    /\ search' = IF search.state = "running" THEN search
                 ELSE [state |-> "running", quote |-> TRUE, lines |-> Lines(r), target |-> Target(r)]
    /\ UNCHANGED <<store, day, mcache, pcache, page>>

(* Any other search, and the end of one *)
SearchStarts ==
    /\ Serial => \A s \in Clients : At(s, "idle")
    /\ search.state # "running" /\ search' = [NoSearch EXCEPT !.state = "running"]
    /\ UNCHANGED <<store, day, mcache, pcache, page, req>>

SearchEnds ==
    /\ search.state = "running"
    /\ \/ search' = [search EXCEPT !.state = "done"]
       \/ search' = NoSearch
    /\ UNCHANGED <<store, day, mcache, pcache, page, req>>

(* POST /new-orders/prepone/accept: looks at the kind of the result and at   *)
(* the dates, applies the result, then saves the orders with the typed dates.*)
AcceptBegins(r) ==
    /\ Free(r) /\ search.state = "done" /\ search.quote
    /\ store.drafts.lines > 0 /\ store.drafts.target > 0
    /\ Goes(r, [op |-> "accept", at |-> "apply", in |-> [drafts |-> store.drafts]])
    /\ UNCHANGED <<store, day, mcache, pcache, search, page>>

Applies(r) ==
    /\ At(r, "apply") /\ pcache' = [pcache EXCEPT !.key = Nothing]
    /\ IF search.state = "done"
       THEN /\ GoOn(r, "keep") /\ search' = NoSearch
            /\ \E v \in Values : store' = [store EXCEPT !.book = v]
       ELSE Done(r) /\ UNCHANGED <<store, search>>
    /\ UNCHANGED <<day, mcache, page>>

AcceptSaves(r) ==
    /\ At(r, "keep") /\ Done(r)
    /\ \E v \in Values : store' = [store EXCEPT !.book = v, !.drafts = NoDrafts]
    /\ pcache' = [pcache EXCEPT !.key = Nothing]
    /\ UNCHANGED <<day, mcache, search, page>>

-----------------------------------------------------------------------------
(* Everyone else's writes, at any time: edits of the masters, and of any-    *)
(* thing else a plan reads.  An edit may be taken back.             *)
Edit(i) ==
    /\ \E v \in Values \ {store[i]} : store' = [store EXCEPT ![i] = v]
    /\ UNCHANGED <<day, mcache, pcache, search, page, req>>

Midnight ==
    /\ day < MaxDay /\ day' = day + 1
    /\ UNCHANGED <<store, mcache, pcache, search, page, req>>

(* The process is killed: the caches, the search and the requests go.        *)
Restart ==
    /\ mcache' = [key |-> Nothing, masters |-> Nothing]
    /\ pcache' = [key |-> Nothing, result |-> Nothing, art |-> Nothing]
    /\ search' = NoSearch /\ req' = [r \in Clients |-> Idle]
    /\ UNCHANGED <<store, day, page>>

Next ==
    \/ \E r \in Clients :
         \/ ViewBegins(r) \/ ReadResult(r) \/ ReadKey(r) \/ LookUpMasters(r) \/ ReadMasters(r)
         \/ Compute(r) \/ ViewAnswers(r) \/ ReadArtifacts(r)
         \/ PutDrafts(r) \/ QuoteBegins(r) \/ QuoteAnswers(r)
         \/ AddBegins(r) \/ AddSaves(r) \/ AddPins(r)
         \/ PreponeBegins(r) \/ PreponeSaves(r) \/ PreponeStarts(r)
         \/ AcceptBegins(r) \/ Applies(r) \/ AcceptSaves(r)
    \/ \E i \in Inputs : Edit(i)
    \/ SearchStarts \/ SearchEnds \/ Midnight \/ Restart

Spec == Init /\ [][Next]_vars

-----------------------------------------------------------------------------
Drafts == [lines : 0..MaxLines, target : 0..MaxTarget]
Store  == [masters : Values, book : Values, drafts : Drafts]

TypeOK ==
    /\ store \in Store /\ day \in 0..MaxDay
    /\ mcache.masters = mcache.key /\ mcache.key \in Values \cup {Nothing}
    /\ pcache.key \in Plans \cup {Nothing}
    /\ pcache.result \in Plans \cup {Nothing} /\ pcache.art = pcache.result
    /\ search.state \in {"idle", "running", "done"}
    /\ search.quote => (search.lines \in 1..MaxLines /\ search.target \in 1..MaxTarget)
    /\ \A r \in Clients : page[r] # Nothing => (page[r].plan \in Plans /\ page[r].lines > 0)

SameInputs(p, q) == p.masters = q.masters /\ p.book = q.book

(* "a stale plan can never be served": the plan a request is given is the    *)
(* plan of the inputs that very request read, of that day or, past midnight, *)
(* a later one; whatever is edited, taken back or dropped while it plans.    *)
ServedIsOwn ==
    \A r \in Clients : At(r, "planned") =>
        SameInputs(req[r].plan, req[r].in) /\ req[r].plan.day >= req[r].fp.day

(* The fingerprint is complete, "so a hit is byte-identical to recomputing": *)
(* the cached result was computed from the inputs its key names.             *)
CacheHonest == pcache.key # Nothing => SameInputs(pcache.result, pcache.key)

(* "If the plan has moved since then ... this refuses rather than silently   *)
(* saving a stale one": the dates saved with the new orders are those of the *)
(* plan the quote on the page was made on, if the lines are those quoted.    *)
SavedAsShown ==
    [][\A r \in Clients : AddSaves(r) /\ page[r].lines = Lines(r)
          => SameInputs(req[r].plan, page[r].plan)]_vars

(* "the new lines keep the machine and place their quote gave them": the plan*)
(* they are pinned from has the new lines in it.                             *)
PinsTheNew == [][\A r \in Clients : AddPins(r) => req[r].plan.book = req[r].in.book]_vars

(* "The numbers the director was just shown come from the searched plan":    *)
(* the dates saved by an accept are those the accepted search was given.     *)
AcceptedAsSearched ==
    [][\A r \in Clients : Applies(r) /\ search.state = "done"
          => search.quote /\ search.lines = Lines(r) /\ search.target = Target(r)]_vars

(* The same without "if the lines are those quoted" *)
SavedAsQuoted ==
    [][\A r \in Clients : AddSaves(r) => page[r].lines = Lines(r)]_vars

(* What is served is the plan of what the request read, from the cache or    *)
(* not, and the cache never holds a plan under the inputs of another.        *)
ServedHonest == TypeOK /\ ServedIsOwn /\ CacheHonest

(* An accept saves what its page showed: the dates of the quote, pinned from *)
(* a plan that holds the new lines.                                          *)
AcceptHonest == SavedAsShown /\ PinsTheNew
============================================================================
