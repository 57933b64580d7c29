-------------------------- MODULE PlanCacheProofs --------------------------
(* Proofs about PlanCache for any contents and bounds and any number of      *)
(* clients, one request under way at a time (Serial): the edits of everyone  *)
(* else, midnight and restarts come between any two steps of that request.   *)
EXTENDS PlanCache, TLAPS

Planners == [op : {"view", "quote", "add"},
             at : {"result", "key", "masters", "cached", "compute", "planned", "quoted"},
             in : Store, fp : Plans, got : Plans \cup {Nothing}, plan : Plans \cup {Nothing},
             masters : Values \cup {Nothing}, day : 0..MaxDay, pins : BOOLEAN]
Preponers == [op : {"prepone"}, at : {"save", "start"}, in : [drafts : Drafts]]
Accepters == [op : {"accept"}, at : {"apply", "keep"}, in : [drafts : Drafts]]
Requests  == {Idle} \cup Planners \cup Preponers \cup Accepters
Searches  == [state : {"idle", "running", "done"}, quote : BOOLEAN, lines : 0..MaxLines,
              target : 0..MaxTarget]
Pages     == [stamp : Plans, plan : Plans, lines : 1..MaxLines]

StoreOK == store \in Store /\ day \in 0..MaxDay
CacheOK ==
    /\ mcache.masters = mcache.key /\ mcache.key \in Values \cup {Nothing}
    /\ pcache.key \in Plans \cup {Nothing} /\ pcache.result \in Plans \cup {Nothing}
    /\ pcache.art = pcache.result
    /\ pcache.key \in Plans =>
         /\ pcache.result \in Plans /\ SameInputs(pcache.result, pcache.key)
         /\ pcache.result.day >= pcache.key.day
SearchOK ==
    /\ search \in Searches
    /\ search.quote => search.lines > 0 /\ search.target > 0
PageOK(r) == page[r] # Nothing => page[r] \in Pages /\ SameInputs(page[r].plan, page[r].stamp)

(* Where a plan is made: what the request holds is what it read, and what    *)
(* the caches hold for it.                                                   *)
PlanningOK(r) ==
    LET q == req[r]
    IN  /\ SameInputs(q.fp, q.in) /\ q.fp.day <= day
        /\ q.pins => q.op = "add"
        /\ q.op = "quote" => q.in.drafts.lines > 0
        /\ q.op = "add" /\ ~q.pins => page[r] # Nothing /\ SameInputs(page[r].stamp, q.in)
        /\ q.at = "key" => q.got = pcache.result
        /\ q.at = "cached" => mcache.key = q.in.masters
        /\ q.at = "compute" => q.masters = q.in.masters
        /\ q.at \in {"cached", "compute"} => q.day >= q.fp.day
        /\ q.at \in {"planned", "quoted"} => q.plan \in Plans /\ SameInputs(q.plan, q.in)
        /\ q.at = "planned" => q.plan = pcache.result /\ q.plan.day >= q.fp.day

PreponeOK(r) ==
    LET q == req[r]
    IN  /\ q.in.drafts.lines > 0 /\ q.in.drafts.target > 0 /\ search.state # "running"
        /\ q.at = "start" => store.drafts = q.in.drafts

AcceptOK(r) ==
    LET q == req[r]
    IN  q.at = "apply" =>
          /\ search.state = "done" /\ search.quote
          /\ q.in.drafts = [lines |-> search.lines, target |-> search.target]

RequestOK(r) ==
    /\ req[r] \in Requests
    /\ req[r] \in Planners => PlanningOK(r)
    /\ req[r] \in Preponers => PreponeOK(r)
    /\ req[r] \in Accepters => AcceptOK(r)

(* A search for earlier dates was given the lines and the date on the page,  *)
(* as long as a date is on the page; a new one is saved just before it.      *)
DraftsOK ==
    search.quote /\ store.drafts.target > 0 /\ (\A r \in Clients : ~At(r, "start")) =>
        store.drafts = [lines |-> search.lines, target |-> search.target]

Alone == \A r, s \in Clients : At(r, "idle") \/ At(s, "idle") \/ r = s

IInv ==
    /\ StoreOK /\ CacheOK /\ SearchOK /\ DraftsOK /\ Alone
    /\ DOMAIN req = Clients /\ DOMAIN page = Clients
    /\ \A r \in Clients : PageOK(r) /\ RequestOK(r)

-----------------------------------------------------------------------------
(* An idle request is none of the others. *)
LEMMA IdleApart == Idle \notin Planners \cup Preponers \cup Accepters /\ Idle.at = "idle"
  BY DEF Idle, Planners, Preponers, Accepters

(* What a request is doing tells what it is. *)
LEMMA Kinds ==
  ASSUME IInv, NEW r \in Clients
  PROVE  /\ At(r, "idle") => req[r] = Idle
         /\ req[r].at \in {"result", "key", "masters", "cached", "compute", "planned", "quoted"}
              => req[r] \in Planners /\ PlanningOK(r)
         /\ req[r].at \in {"save", "start"} => req[r] \in Preponers /\ PreponeOK(r)
         /\ req[r].at \in {"apply", "keep"} => req[r] \in Accepters /\ AcceptOK(r)
<1>1. RequestOK(r)
  BY DEF IInv
<1> QED BY <1>1, IdleApart DEF RequestOK, Requests, Planners, Preponers, Accepters, At

(* Of one request at a time: while one moves, the others are idle. *)
LEMMA OneMoves ==
  ASSUME IInv, Serial, NEW r \in Clients, Free(r) \/ ~At(r, "idle")
  PROVE  \A s \in Clients : s # r => req[s] = Idle
<1>1. \A s \in Clients : s # r => At(s, "idle")
  BY DEF IInv, Alone, Free
<1> QED BY <1>1, Kinds

(* What has to be shown of a step of one request. *)
LEMMA StepOfOne ==
  ASSUME IInv, Serial, NEW r \in Clients, NEW q, Free(r) \/ ~At(r, "idle"), Goes(r, q),
         StoreOK', CacheOK', SearchOK', DraftsOK', RequestOK(r)',
         DOMAIN page' = Clients, \A s \in Clients : PageOK(s)'
  PROVE  IInv'
<1>1. /\ DOMAIN req' = Clients /\ req'[r] = q
      /\ \A s \in Clients : s # r => req'[s] = Idle
  BY OneMoves DEF IInv, Goes
<1>2. Alone'
  BY <1>1, IdleApart DEF Alone, At
<1>3. \A s \in Clients : RequestOK(s)'
  BY <1>1, IdleApart DEF RequestOK, Requests
<1> QED BY <1>1, <1>2, <1>3 DEF IInv

(* The same of a step that leaves store, search and pages alone and does not *)
(* end at the saving of typed dates. *)
LEMMA StepOfPlanner ==
  ASSUME IInv, Serial, NEW r \in Clients, NEW q, Free(r) \/ req[r] \in Planners, Goes(r, q),
         q.at # "start", UNCHANGED <<store, day, search, page>>, CacheOK',
         RequestOK(r)'
  PROVE  IInv'
<1>1. Free(r) \/ ~At(r, "idle")
  BY DEF Planners, At
<1>2. StoreOK' /\ SearchOK' /\ \A s \in Clients : PageOK(s)'
  BY DEF IInv, StoreOK, SearchOK, PageOK
<1>3. \A s \in Clients : ~At(s, "start")
  BY <1>1, OneMoves, IdleApart DEF Free, At, Planners
<1>4. DraftsOK'
  BY <1>3 DEF IInv, DraftsOK
<1> QED BY <1>1, <1>2, <1>4, StepOfOne DEF IInv

(* A plan is as its request read. *)
LEMMA Fingerprints ==
  ASSUME NEW in, NEW d \in 0..MaxDay, in.masters \in Values, in.book \in Values
  PROVE  Fingerprint(in, d) \in Plans /\ SameInputs(Fingerprint(in, d), in)
         /\ Fingerprint(in, d).day = d
  BY DEF Fingerprint, Plans, SameInputs

(* A request that asks for a plan. *)
LEMMA AsksOK ==
  ASSUME StoreOK, NEW op \in {"view", "quote", "add"}
  PROVE  /\ Asks(op) \in Planners /\ SameInputs(Asks(op).fp, Asks(op).in)
         /\ Asks(op).fp.day = day /\ Asks(op).at = "result" /\ Asks(op).op = op
         /\ ~Asks(op).pins /\ Asks(op).in = store
<1>1. Fingerprint(store, day) \in Plans /\ SameInputs(Fingerprint(store, day), store)
      /\ Fingerprint(store, day).day = day
  BY Fingerprints DEF StoreOK, Store
<1>2. 0 \in 0..MaxDay
  BY BoundAssumption
<1> QED BY <1>1, <1>2 DEF StoreOK, Asks, Planners

(* A request that begins has read the store as it is. *)
LEMMA Begins ==
  ASSUME IInv, Serial, NEW r \in Clients,
         ViewBegins(r) \/ QuoteBegins(r) \/ AddBegins(r)
  PROVE  IInv'
<1>1. PICK op \in {"view", "quote", "add"} :
        /\ Goes(r, Asks(op))
        /\ op = "quote" => store.drafts.lines > 0
        /\ op = "add" => page[r] # Nothing /\ page[r].stamp = Fingerprint(store, day)
  BY DEF ViewBegins, QuoteBegins, AddBegins
<1>2. Free(r) /\ UNCHANGED <<store, day, mcache, pcache, search, page>>
  BY DEF ViewBegins, QuoteBegins, AddBegins
<1>3. req'[r] = Asks(op)
  BY <1>1 DEF IInv, Goes
<1>4. CacheOK' /\ StoreOK
  BY <1>2 DEF IInv, CacheOK
<1>5. RequestOK(r)'
  <2>1. req'[r] \in Planners /\ req'[r] \notin Preponers \cup Accepters
    BY <1>3, <1>4, AsksOK DEF Planners, Preponers, Accepters
  <2>2. op = "add" => SameInputs(page[r].stamp, store)
    BY <1>1 DEF Fingerprint, SameInputs
  <2>3. PlanningOK(r)'
    BY <1>1, <1>2, <1>3, <1>4, <2>2, AsksOK DEF PlanningOK, StoreOK
  <2> QED BY <2>1, <2>3 DEF RequestOK, Requests
<1> QED BY <1>1, <1>2, <1>4, <1>5, AsksOK, StepOfPlanner

(* A request that keeps its own fields but some of them stays a planner. *)
LEMMA Planning ==
  ASSUME IInv, Serial, NEW r \in Clients, NEW q, req[r] \in Planners, Goes(r, q), q \in Planners,
         q.at # "start", UNCHANGED <<store, day, search, page>>, CacheOK', PlanningOK(r)'
  PROVE  IInv'
<1>1. req'[r] = q
  BY DEF IInv, Goes
<1>2. q \notin Preponers \cup Accepters
  BY DEF Planners, Preponers, Accepters
<1> QED BY <1>1, <1>2, StepOfPlanner DEF RequestOK, Requests

(* Of a request alone nobody writes the cached result it reads. *)
LEMMA ReadsResult == ASSUME IInv, Serial, NEW r \in Clients, ReadResult(r) PROVE IInv'
<1> DEFINE q == [req[r] EXCEPT !.got = pcache.result, !.at = "key"]
<1>1. req[r] \in Planners /\ PlanningOK(r) /\ req[r].at = "result"
  BY Kinds DEF ReadResult, At
<1>2. Goes(r, q) /\ UNCHANGED <<store, day, mcache, pcache, search, page>>
  BY DEF ReadResult
<1>3. CacheOK' /\ req'[r] = q /\ pcache.result \in Plans \cup {Nothing}
  BY <1>2 DEF IInv, CacheOK, Goes
<1>4. q \in Planners /\ q.at = "key"
  BY <1>1, <1>3 DEF Planners
<1>5. PlanningOK(r)'
  BY <1>1, <1>2, <1>3 DEF PlanningOK, Planners
<1> QED BY <1>1, <1>2, <1>3, <1>4, <1>5, Planning

(* A hit serves the cached plan, whose key is what the request read: nobody  *)
(* wrote the cache since its result was read.                                *)
LEMMA ReadsKey == ASSUME IInv, Serial, NEW r \in Clients, ReadKey(r) PROVE IInv'
<1>1. req[r] \in Planners /\ PlanningOK(r) /\ req[r].at = "key"
  BY Kinds DEF ReadKey, At
<1>2. UNCHANGED <<store, day, mcache, pcache, search, page>>
  BY DEF ReadKey
<1>3. CacheOK /\ CacheOK'
  BY <1>2 DEF IInv, CacheOK
<1>4. CASE Hit(r)
  <2> DEFINE q == [req[r] EXCEPT !.plan = req[r].got, !.at = "planned"]
  <2>1. Goes(r, q) /\ req'[r] = q
    BY <1>4 DEF ReadKey, IInv, Goes
  <2>2. /\ pcache.key \in Plans /\ req[r].got = pcache.result /\ pcache.key = req[r].fp
    BY <1>1, <1>4 DEF Hit, PlanningOK, Planners
  <2>3. /\ req[r].got \in Plans /\ SameInputs(req[r].got, req[r].fp)
        /\ req[r].got.day >= req[r].fp.day
    BY <1>3, <2>2 DEF CacheOK
  <2>4. q \in Planners /\ q.at = "planned"
    BY <1>1, <2>3 DEF Planners
  <2>5. PlanningOK(r)'
    BY <1>1, <1>2, <2>1, <2>2, <2>3 DEF PlanningOK, Planners, SameInputs
  <2> QED BY <1>1, <1>2, <1>3, <2>1, <2>4, <2>5, Planning
<1>5. CASE ~Hit(r)
  <2> DEFINE q == [req[r] EXCEPT !.at = "masters"]
  <2>1. Goes(r, q) /\ req'[r] = q
    BY <1>5 DEF ReadKey, IInv, Goes, GoOn
  <2>2. q \in Planners /\ q.at = "masters"
    BY <1>1 DEF Planners
  <2>3. PlanningOK(r)'
    BY <1>1, <1>2, <2>1 DEF PlanningOK, Planners
  <2> QED BY <1>1, <1>2, <1>3, <2>1, <2>2, <2>3, Planning
<1> QED BY <1>4, <1>5

(* The masters found or built are those of the tables the request read. *)
LEMMA LooksUpMasters == ASSUME IInv, Serial, NEW r \in Clients, LookUpMasters(r) PROVE IInv'
<1>1. req[r] \in Planners /\ PlanningOK(r) /\ req[r].at = "masters"
  BY Kinds DEF LookUpMasters, At
<1>2. /\ UNCHANGED <<store, day, pcache, search, page>> /\ day \in 0..MaxDay
      /\ req[r].in.masters \in Values /\ req[r].fp.day <= day
  BY <1>1 DEF LookUpMasters, IInv, StoreOK, PlanningOK, Planners, Store
<1>3. CASE mcache.masters # Nothing /\ mcache.key = req[r].in.masters
  <2> DEFINE q == [req[r] EXCEPT !.at = "cached", !.day = day]
  <2>1. Goes(r, q) /\ req'[r] = q /\ UNCHANGED mcache
    BY <1>3 DEF LookUpMasters, IInv, Goes
  <2>2. CacheOK'
    BY <1>2, <2>1 DEF IInv, CacheOK
  <2>3. q \in Planners /\ q.at = "cached"
    BY <1>1, <1>2 DEF Planners
  <2>4. PlanningOK(r)'
    BY <1>1, <1>2, <1>3, <2>1 DEF PlanningOK, Planners
  <2> QED BY <1>1, <1>2, <2>1, <2>2, <2>3, <2>4, Planning
<1>4. CASE ~(mcache.masters # Nothing /\ mcache.key = req[r].in.masters)
  <2> DEFINE q == [req[r] EXCEPT !.at = "compute", !.masters = req[r].in.masters, !.day = day]
  <2>1. /\ Goes(r, q) /\ req'[r] = q
        /\ mcache' = [key |-> req[r].in.masters, masters |-> req[r].in.masters]
    BY <1>4 DEF LookUpMasters, IInv, Goes
  <2>2. CacheOK'
    BY <1>2, <2>1 DEF IInv, CacheOK
  <2>3. q \in Planners /\ q.at = "compute"
    BY <1>1, <1>2 DEF Planners
  <2>4. PlanningOK(r)'
    BY <1>1, <1>2, <2>1 DEF PlanningOK, Planners
  <2> QED BY <1>1, <1>2, <2>1, <2>2, <2>3, <2>4, Planning
<1> QED BY <1>3, <1>4

(* The cached masters are still those whose digest was looked up. *)
LEMMA ReadsMasters == ASSUME IInv, Serial, NEW r \in Clients, ReadMasters(r) PROVE IInv'
<1> DEFINE q == [req[r] EXCEPT !.at = "compute", !.masters = mcache.masters]
<1>1. req[r] \in Planners /\ PlanningOK(r) /\ req[r].at = "cached"
  BY Kinds DEF ReadMasters, At
<1>2. Goes(r, q) /\ UNCHANGED <<store, day, mcache, pcache, search, page>>
  BY DEF ReadMasters
<1>3. /\ CacheOK' /\ req'[r] = q /\ mcache.masters = req[r].in.masters
      /\ req[r].in.masters \in Values
  BY <1>1, <1>2 DEF IInv, CacheOK, Goes, PlanningOK, Planners, Store
<1>4. q \in Planners /\ q.at = "compute"
  BY <1>1, <1>3 DEF Planners
<1>5. PlanningOK(r)'
  BY <1>1, <1>2, <1>3 DEF PlanningOK, Planners
<1> QED BY <1>1, <1>2, <1>3, <1>4, <1>5, Planning

(* What is computed is the plan of what the request read, on a later day     *)
(* perhaps, and it is cached under the fingerprint of what the request read. *)
LEMMA Computes == ASSUME IInv, Serial, NEW r \in Clients, Compute(r) PROVE IInv'
<1> DEFINE in == [req[r].in EXCEPT !.masters = req[r].masters]
           p == Fingerprint(in, req[r].day)
           q == [req[r] EXCEPT !.plan = p, !.at = "planned"]
<1>1. req[r] \in Planners /\ PlanningOK(r) /\ req[r].at = "compute"
  BY Kinds DEF Compute, At
<1>2. /\ Goes(r, q) /\ pcache' = [key |-> req[r].fp, result |-> p, art |-> p]
      /\ UNCHANGED <<store, day, mcache, search, page>> /\ req'[r] = q
  BY DEF Compute, IInv, Goes
<1>3. /\ req[r].masters = req[r].in.masters /\ req[r].in \in Store
      /\ req[r].day \in 0..MaxDay /\ req[r].day >= req[r].fp.day /\ req[r].fp \in Plans
      /\ SameInputs(req[r].fp, req[r].in)
  BY <1>1 DEF PlanningOK, Planners
<1>4. in.masters = req[r].in.masters /\ in.book = req[r].in.book
      /\ in.masters \in Values /\ in.book \in Values
  BY <1>3 DEF Store
<1>5. p \in Plans /\ p.day = req[r].day /\ SameInputs(p, req[r].in)
  BY <1>3, <1>4, Fingerprints DEF SameInputs
<1>6. CacheOK'
  <2>1. SameInputs(p, req[r].fp)
    BY <1>3, <1>5 DEF SameInputs
  <2> QED BY <1>2, <1>3, <1>5, <2>1 DEF IInv, CacheOK
<1>7. q \in Planners /\ q.at = "planned"
  BY <1>1, <1>5 DEF Planners
<1>8. PlanningOK(r)'
  BY <1>1, <1>2, <1>3, <1>5 DEF PlanningOK, Planners
<1> QED BY <1>1, <1>2, <1>6, <1>7, <1>8, Planning

(* The artifacts are of the plan the request was served. *)
LEMMA ReadsArtifacts == ASSUME IInv, Serial, NEW r \in Clients, ReadArtifacts(r) PROVE IInv'
<1> DEFINE q == [req[r] EXCEPT !.plan = pcache.art, !.at = "quoted"]
<1>1. req[r] \in Planners /\ PlanningOK(r) /\ req[r].at = "planned"
  BY Kinds DEF ReadArtifacts, At
<1>2. Goes(r, q) /\ UNCHANGED <<store, day, mcache, pcache, search, page>>
  BY DEF ReadArtifacts
<1>3. CacheOK' /\ req'[r] = q /\ pcache.art = req[r].plan
  BY <1>1, <1>2 DEF IInv, CacheOK, Goes, PlanningOK
<1>4. q \in Planners /\ q.at = "quoted"
  BY <1>1, <1>3 DEF Planners
<1>5. PlanningOK(r)'
  BY <1>1, <1>2, <1>3 DEF PlanningOK, Planners
<1> QED BY <1>1, <1>2, <1>3, <1>4, <1>5, Planning

(* A request that ends. *)
LEMMA Ends ==
  ASSUME IInv, NEW r \in Clients, Done(r)
  PROVE  Goes(r, Idle) /\ req'[r] = Idle /\ RequestOK(r)'
<1>1. Goes(r, Idle) /\ req'[r] = Idle
  BY DEF Done, Goes, IInv
<1> QED BY <1>1, IdleApart DEF RequestOK, Requests

(* None of the requests of a plan is at the start of a search. *)
LEMMA NotStarting ==
  ASSUME IInv, Serial, NEW r \in Clients, Free(r) \/ (~At(r, "idle") /\ ~At(r, "start"))
  PROVE  \A s \in Clients : ~At(s, "start")
  BY OneMoves, IdleApart DEF At, Free

(* A request that answers leaves its plan to the page or to no one. *)
LEMMA Answers ==
  ASSUME IInv, Serial, NEW r \in Clients, ViewAnswers(r) \/ AddPins(r) \/ QuoteAnswers(r)
  PROVE  IInv'
<1>1. req[r] \in Planners /\ PlanningOK(r) /\ req[r].at \in {"planned", "quoted"}
  BY Kinds DEF ViewAnswers, AddPins, QuoteAnswers, At
<1>2. Goes(r, Idle) /\ RequestOK(r)' /\ UNCHANGED <<store, day, search>>
  BY Ends DEF ViewAnswers, AddPins, QuoteAnswers
<1>3. CacheOK'
  <2>1. CASE pcache' = [pcache EXCEPT !.key = Nothing] /\ UNCHANGED mcache
    BY <2>1, PlansAssumption DEF IInv, CacheOK
  <2>2. CASE UNCHANGED <<mcache, pcache>>
    BY <2>2 DEF IInv, CacheOK
  <2> QED BY <2>1, <2>2 DEF ViewAnswers, AddPins, QuoteAnswers
<1>4. StoreOK' /\ SearchOK'
  BY <1>2 DEF IInv, StoreOK, SearchOK
<1>5. DraftsOK'
  BY <1>1, <1>2, NotStarting DEF IInv, DraftsOK, At
<1>6. CASE ViewAnswers(r) \/ AddPins(r)
  <2>1. DOMAIN page' = Clients /\ \A s \in Clients : PageOK(s)'
    BY <1>6 DEF ViewAnswers, AddPins, IInv, PageOK
  <2> QED BY <1>1, <1>2, <1>3, <1>4, <1>5, <2>1, StepOfOne DEF At
<1>7. CASE QuoteAnswers(r)
  <2> DEFINE p == [stamp |-> Fingerprint(req[r].in, day), plan |-> req[r].plan,
                   lines |-> req[r].in.drafts.lines]
  <2>1. page' = [page EXCEPT ![r] = p] /\ req[r].op = "quote"
    BY <1>7 DEF QuoteAnswers
  <2>2. req[r].in.masters \in Values /\ req[r].in.book \in Values /\ day \in 0..MaxDay
    BY <1>1 DEF Planners, Store, IInv, StoreOK
  <2>3. p.stamp \in Plans /\ SameInputs(p.stamp, req[r].in)
    BY <2>2, Fingerprints
  <2>4. p.plan \in Plans /\ SameInputs(p.plan, req[r].in) /\ p.lines \in 1..MaxLines
    BY <1>1, <2>1, BoundAssumption DEF PlanningOK, Planners, Store, Drafts
  <2>5. p \in Pages /\ SameInputs(p.plan, p.stamp)
    BY <2>3, <2>4 DEF Pages, SameInputs
  <2>6. DOMAIN page' = Clients /\ \A s \in Clients : PageOK(s)'
    BY <2>1, <2>5 DEF IInv, PageOK
  <2> QED BY <1>1, <1>2, <1>3, <1>4, <1>5, <2>6, StepOfOne DEF At
<1> QED BY <1>6, <1>7

(* The orders are added: the request starts over with what it wrote. *)
LEMMA AddsOrders == ASSUME IInv, Serial, NEW r \in Clients, AddSaves(r) PROVE IInv'
<1>1. req[r] \in Planners /\ PlanningOK(r) /\ req[r].at = "quoted" /\ req[r].op = "add"
  BY Kinds DEF AddSaves, At
<1>2. PICK v \in Values :
        LET in == [req[r].in EXCEPT !.book = v, !.drafts = NoDrafts]
        IN  /\ store' = [store EXCEPT !.book = v, !.drafts = NoDrafts]
            /\ Goes(r, [req[r] EXCEPT !.pins = TRUE, !.in = in, !.at = "result",
                                      !.fp = Fingerprint(in, day)])
  BY DEF AddSaves
<1> DEFINE in == [req[r].in EXCEPT !.book = v, !.drafts = NoDrafts]
           q == [req[r] EXCEPT !.pins = TRUE, !.in = in, !.at = "result", !.fp = Fingerprint(in, day)]
<1>3. /\ Goes(r, q) /\ req'[r] = q /\ pcache' = [pcache EXCEPT !.key = Nothing]
      /\ UNCHANGED <<day, mcache, search, page>> /\ day \in 0..MaxDay
  BY <1>2 DEF AddSaves, IInv, StoreOK, Goes
<1>4. NoDrafts \in Drafts /\ NoDrafts.target = 0
  BY BoundAssumption DEF NoDrafts, Drafts
<1>5. in \in Store /\ in.masters \in Values /\ in.book \in Values
  BY <1>1, <1>4 DEF Planners, Store
<1>6. store' \in Store /\ store'.drafts = NoDrafts
  BY <1>2, <1>4 DEF IInv, StoreOK, Store
<1>7. CacheOK'
  BY <1>3, PlansAssumption DEF IInv, CacheOK
<1>8. StoreOK' /\ SearchOK' /\ DraftsOK' /\ DOMAIN page' = Clients /\ \A s \in Clients : PageOK(s)'
  BY <1>3, <1>4, <1>6 DEF IInv, StoreOK, SearchOK, DraftsOK, PageOK
<1>9. RequestOK(r)'
  <2>1. Fingerprint(in, day) \in Plans /\ SameInputs(Fingerprint(in, day), in)
        /\ Fingerprint(in, day).day = day
    BY <1>3, <1>5, Fingerprints
  <2>2. q \in Planners /\ q.at = "result" /\ q.op = "add" /\ q.pins
    BY <1>1, <1>5, <2>1 DEF Planners
  <2>3. q.in = in /\ q.fp = Fingerprint(in, day)
    BY <1>1 DEF Planners
  <2>4. q \notin Preponers \cup Accepters
    BY <2>2 DEF Preponers, Accepters
  <2>5. PlanningOK(r)'
    BY <1>3, <2>1, <2>2, <2>3 DEF PlanningOK
  <2> QED BY <1>3, <2>2, <2>4, <2>5 DEF RequestOK, Requests
<1> QED BY <1>1, <1>3, <1>7, <1>8, <1>9, StepOfOne DEF At

(* A new list of drafts has no date, of the search's or of any other. *)
LEMMA PutsDrafts == ASSUME IInv, Serial, NEW r \in Clients, PutDrafts(r) PROVE IInv'
<1>1. PICK n \in 0..MaxLines : store' = [store EXCEPT !.drafts = [lines |-> n, target |-> 0]]
  BY DEF PutDrafts
<1>2. UNCHANGED <<day, mcache, pcache, search, page, req>> /\ Free(r)
  BY DEF PutDrafts
<1>3. \A s \in Clients : req[s] = Idle
  BY <1>2, OneMoves, Kinds DEF Free
<1>4. store' \in Store /\ store'.drafts.target = 0
  BY <1>1, BoundAssumption DEF IInv, StoreOK, Store, Drafts
<1>5. \A s \in Clients : RequestOK(s)'
  BY <1>2, <1>3, IdleApart DEF RequestOK, Requests
<1>6. StoreOK' /\ CacheOK' /\ SearchOK' /\ DraftsOK' /\ Alone' /\ \A s \in Clients : PageOK(s)'
  BY <1>2, <1>4 DEF IInv, StoreOK, CacheOK, SearchOK, DraftsOK, Alone, At, PageOK
<1> QED BY <1>2, <1>5, <1>6 DEF IInv

(* A prepone begins with a date typed for the drafts on file. *)
LEMMA PreponesBegin == ASSUME IInv, Serial, NEW r \in Clients, PreponeBegins(r) PROVE IInv'
<1>1. PICK t \in 1..MaxTarget :
        Goes(r, [op |-> "prepone", at |-> "save", in |-> [drafts |-> [store.drafts EXCEPT !.target = t]]])
  BY DEF PreponeBegins
<1> DEFINE d == [store.drafts EXCEPT !.target = t]
           q == [op |-> "prepone", at |-> "save", in |-> [drafts |-> d]]
<1>2. /\ UNCHANGED <<store, day, mcache, pcache, search, page>> /\ Free(r)
      /\ search.state # "running" /\ store.drafts.lines > 0
  BY DEF PreponeBegins
<1>3. Goes(r, q) /\ req'[r] = q
  BY <1>1 DEF IInv, Goes
<1>4. d \in Drafts /\ d.lines > 0 /\ d.target > 0
  BY <1>2, BoundAssumption DEF IInv, StoreOK, Store, Drafts
<1>5. q \in Preponers /\ q \notin Planners \cup Accepters
  BY <1>4 DEF Preponers, Planners, Accepters
<1>6. RequestOK(r)'
  <2>1. q.in.drafts = d /\ q.at # "start"
    OBVIOUS
  <2>2. PreponeOK(r)'
    BY <1>2, <1>3, <1>4, <2>1 DEF PreponeOK
  <2> QED BY <1>3, <1>5, <2>2 DEF RequestOK, Requests
<1>7. CacheOK'
  BY <1>2 DEF IInv, CacheOK
<1> QED BY <1>2, <1>3, <1>6, <1>7, StepOfPlanner

(* The typed date is on file before its search starts. *)
LEMMA PreponesSave == ASSUME IInv, Serial, NEW r \in Clients, PreponeSaves(r) PROVE IInv'
<1> DEFINE q == [req[r] EXCEPT !.at = "start"]
<1>1. req[r] \in Preponers /\ PreponeOK(r) /\ req[r].at = "save"
  BY Kinds DEF PreponeSaves, At
<1>2. /\ Goes(r, q) /\ req'[r] = q /\ store' = [store EXCEPT !.drafts = req[r].in.drafts]
      /\ UNCHANGED <<day, mcache, pcache, search, page>>
  BY DEF PreponeSaves, GoOn, Goes, IInv
<1>3. q \in Preponers /\ q.at = "start" /\ q.in = req[r].in /\ q \notin Planners \cup Accepters
  BY <1>1 DEF Preponers, Planners, Accepters
<1>4. req[r].in.drafts \in Drafts
  BY <1>1 DEF Preponers
<1>5. store' \in Store /\ store'.drafts = req[r].in.drafts
  BY <1>2, <1>4 DEF IInv, StoreOK, Store
<1>6. RequestOK(r)'
  <2>1. PreponeOK(r)'
    BY <1>1, <1>2, <1>3, <1>5 DEF PreponeOK
  <2> QED BY <1>2, <1>3, <2>1 DEF RequestOK, Requests
<1>7. /\ StoreOK' /\ CacheOK' /\ SearchOK' /\ DOMAIN page' = Clients
      /\ \A s \in Clients : PageOK(s)'
  BY <1>2, <1>5 DEF IInv, StoreOK, CacheOK, SearchOK, PageOK
<1>8. DraftsOK'
  BY <1>2, <1>3 DEF DraftsOK, At
<1> QED BY <1>1, <1>2, <1>6, <1>7, <1>8, StepOfOne DEF At

(* The search is given the drafts the request has just saved. *)
LEMMA PreponesStart == ASSUME IInv, Serial, NEW r \in Clients, PreponeStarts(r) PROVE IInv'
<1>1. req[r] \in Preponers /\ PreponeOK(r) /\ req[r].at = "start"
  BY Kinds DEF PreponeStarts, At
<1>2. /\ Goes(r, Idle) /\ RequestOK(r)' /\ UNCHANGED <<store, day, mcache, pcache, page>>
  BY Ends DEF PreponeStarts
<1>3. search' = [state |-> "running", quote |-> TRUE, lines |-> Lines(r), target |-> Target(r)]
  BY <1>1 DEF PreponeStarts, PreponeOK
<1>4. /\ Lines(r) \in 1..MaxLines /\ Target(r) \in 1..MaxTarget /\ store.drafts \in Drafts
      /\ store.drafts.lines = Lines(r) /\ store.drafts.target = Target(r)
  BY <1>1, BoundAssumption DEF PreponeOK, Preponers, Drafts, Lines, Target
<1>5. store.drafts = [lines |-> Lines(r), target |-> Target(r)]
  BY <1>4 DEF Drafts
<1>6. SearchOK' /\ DraftsOK'
  BY <1>2, <1>3, <1>4, <1>5, BoundAssumption DEF SearchOK, Searches, DraftsOK
<1>7. StoreOK' /\ CacheOK' /\ DOMAIN page' = Clients /\ \A s \in Clients : PageOK(s)'
  BY <1>2 DEF IInv, StoreOK, CacheOK, PageOK
<1> QED BY <1>1, <1>2, <1>6, <1>7, StepOfOne DEF At

(* An accept finds on the page what the search was given. *)
LEMMA AcceptsBegin == ASSUME IInv, Serial, NEW r \in Clients, AcceptBegins(r) PROVE IInv'
<1> DEFINE q == [op |-> "accept", at |-> "apply", in |-> [drafts |-> store.drafts]]
<1>1. /\ Goes(r, q) /\ req'[r] = q /\ Free(r) /\ search.state = "done" /\ search.quote
      /\ store.drafts.target > 0 /\ UNCHANGED <<store, day, mcache, pcache, search, page>>
  BY DEF AcceptBegins, Goes, IInv
<1>2. store.drafts = [lines |-> search.lines, target |-> search.target]
  BY <1>1, NotStarting DEF IInv, DraftsOK
<1>3. q \in Accepters /\ q \notin Planners \cup Preponers
  BY DEF IInv, StoreOK, Store, Accepters, Planners, Preponers
<1>4. RequestOK(r)' /\ CacheOK'
  BY <1>1, <1>2, <1>3 DEF RequestOK, Requests, AcceptOK, IInv, CacheOK
<1> QED BY <1>1, <1>4, StepOfPlanner

(* The applied result leaves no search to accept. *)
LEMMA AppliesResult == ASSUME IInv, Serial, NEW r \in Clients, Applies(r) PROVE IInv'
<1> DEFINE q == [req[r] EXCEPT !.at = "keep"]
<1>1. req[r] \in Accepters /\ AcceptOK(r) /\ req[r].at = "apply"
  BY Kinds DEF Applies, At
<1>2. PICK v \in Values : store' = [store EXCEPT !.book = v]
  BY <1>1 DEF Applies, AcceptOK
<1>3. /\ Goes(r, q) /\ req'[r] = q /\ search' = NoSearch /\ UNCHANGED <<day, mcache, page>>
      /\ pcache' = [pcache EXCEPT !.key = Nothing]
  BY <1>1 DEF Applies, AcceptOK, GoOn, Goes, IInv
<1>4. q \in Accepters /\ q.at = "keep" /\ q \notin Planners \cup Preponers
  BY <1>1 DEF Accepters, Planners, Preponers
<1>5. StoreOK' /\ SearchOK' /\ DraftsOK'
  BY <1>2, <1>3, BoundAssumption
  DEF IInv, StoreOK, Store, SearchOK, Searches, DraftsOK, NoSearch
<1>6. CacheOK' /\ DOMAIN page' = Clients /\ \A s \in Clients : PageOK(s)'
  BY <1>3, PlansAssumption DEF IInv, CacheOK, PageOK
<1>7. RequestOK(r)'
  BY <1>3, <1>4 DEF RequestOK, Requests, AcceptOK
<1> QED BY <1>1, <1>3, <1>5, <1>6, <1>7, StepOfOne DEF At

(* The accepted orders leave no drafts. *)
LEMMA AcceptsSave == ASSUME IInv, Serial, NEW r \in Clients, AcceptSaves(r) PROVE IInv'
<1>1. PICK v \in Values : store' = [store EXCEPT !.book = v, !.drafts = NoDrafts]
  BY DEF AcceptSaves
<1>2. /\ Goes(r, Idle) /\ RequestOK(r)' /\ UNCHANGED <<day, mcache, search, page>>
      /\ pcache' = [pcache EXCEPT !.key = Nothing] /\ ~At(r, "idle")
  BY Ends DEF AcceptSaves, At
<1>3. NoDrafts \in Drafts /\ NoDrafts.target = 0
  BY BoundAssumption DEF NoDrafts, Drafts
<1>4. store' \in Store /\ store'.drafts = NoDrafts
  BY <1>1, <1>3 DEF IInv, StoreOK, Store
<1>5. StoreOK' /\ SearchOK' /\ DraftsOK'
  BY <1>2, <1>3, <1>4 DEF IInv, StoreOK, SearchOK, DraftsOK
<1>6. CacheOK' /\ DOMAIN page' = Clients /\ \A s \in Clients : PageOK(s)'
  BY <1>2, PlansAssumption DEF IInv, CacheOK, PageOK
<1> QED BY <1>2, <1>5, <1>6, StepOfOne

-----------------------------------------------------------------------------
(* The edits of everyone else and midnight: no request's own fields, no      *)
(* cache and no draft changes. *)
LEMMA Outside ==
  ASSUME IInv, StoreOK', store'.drafts = store.drafts, day' >= day,
         UNCHANGED <<mcache, pcache, search, page, req>>
  PROVE  IInv'
<1>1. CacheOK' /\ SearchOK' /\ DraftsOK' /\ Alone'
  BY DEF IInv, CacheOK, SearchOK, DraftsOK, Alone, At
<1>2. ASSUME NEW r \in Clients PROVE PageOK(r)' /\ RequestOK(r)'
  <2>1. PageOK(r) /\ RequestOK(r)
    BY DEF IInv
  <2>2. PageOK(r)'
    BY <2>1 DEF PageOK
  <2>3. req[r] \in Planners /\ PlanningOK(r) => PlanningOK(r)'
    <3>1. req[r] \in Planners => req[r].fp.day \in Nat /\ day \in Nat /\ day' \in Nat
      BY BoundAssumption DEF Planners, Plans, IInv, StoreOK
    <3> QED BY <3>1 DEF PlanningOK
  <2>4. (PreponeOK(r) => PreponeOK(r)') /\ (AcceptOK(r) => AcceptOK(r)')
    BY DEF PreponeOK, AcceptOK
  <2> QED BY <2>1, <2>2, <2>3, <2>4 DEF RequestOK
<1> QED BY <1>1, <1>2 DEF IInv

(* An edit, midnight or nothing at all. *)
LEMMA Environment ==
  ASSUME IInv, (\E i \in Inputs : Edit(i)) \/ Midnight \/ UNCHANGED vars
  PROVE  IInv'
<1>1. CASE \E i \in Inputs : Edit(i)
  <2>1. PICK i \in Inputs, v \in Values : store' = [store EXCEPT ![i] = v]
    BY <1>1 DEF Edit
  <2>2. UNCHANGED <<day, mcache, pcache, search, page, req>>
    BY <1>1 DEF Edit
  <2>3. store' \in Store /\ store'.drafts = store.drafts
    BY <2>1 DEF IInv, StoreOK, Store, Inputs
  <2>4. day \in Nat
    BY BoundAssumption DEF IInv, StoreOK
  <2> QED BY <2>2, <2>3, <2>4, Outside DEF IInv, StoreOK
<1>2. CASE Midnight
  <2>1. StoreOK' /\ day' >= day
    BY <1>2, BoundAssumption DEF Midnight, IInv, StoreOK
  <2> QED BY <1>2, <2>1, Outside DEF Midnight
<1>3. CASE UNCHANGED vars
  <2>1. StoreOK' /\ day' >= day
    BY <1>3, BoundAssumption DEF vars, IInv, StoreOK
  <2> QED BY <1>3, <2>1, Outside DEF vars
<1> QED BY <1>1, <1>2, <1>3

(* Another search starts while no request is under way. *)
LEMMA OtherSearch == ASSUME IInv, Serial, SearchStarts PROVE IInv'
<1>1. /\ UNCHANGED <<store, day, mcache, pcache, page, req>> /\ \A s \in Clients : req[s] = Idle
      /\ search' = [state |-> "running", quote |-> FALSE, lines |-> 0, target |-> 0]
  BY Kinds DEF SearchStarts, NoSearch
<1>2. SearchOK' /\ DraftsOK'
  BY <1>1, BoundAssumption DEF SearchOK, Searches, DraftsOK
<1>3. StoreOK' /\ CacheOK' /\ Alone' /\ \A s \in Clients : PageOK(s)'
  BY <1>1 DEF IInv, StoreOK, CacheOK, Alone, At, PageOK
<1>4. \A s \in Clients : RequestOK(s)'
  BY <1>1, IdleApart DEF RequestOK, Requests
<1> QED BY <1>1, <1>2, <1>3, <1>4 DEF IInv

(* A search ends: none of an accept's or a new prepone's, for theirs is over. *)
LEMMA SearchDone == ASSUME IInv, SearchEnds PROVE IInv'
<1>1. /\ UNCHANGED <<store, day, mcache, pcache, page, req>> /\ search.state = "running"
      /\ search' = [search EXCEPT !.state = "done"] \/ search' = NoSearch
  BY DEF SearchEnds
<1>2. /\ search' \in Searches /\ search'.state # "running"
      /\ search'.quote => (search.quote /\ search'.lines = search.lines /\ search'.target = search.target)
  <2>1. CASE search' = NoSearch
    BY <2>1, BoundAssumption DEF Searches, NoSearch
  <2>2. CASE search' = [search EXCEPT !.state = "done"]
    BY <2>2 DEF IInv, SearchOK, Searches
  <2> QED BY <1>1, <2>1, <2>2
<1>3. StoreOK' /\ CacheOK' /\ Alone' /\ SearchOK' /\ DraftsOK' /\ \A s \in Clients : PageOK(s)'
  BY <1>1, <1>2 DEF IInv, StoreOK, CacheOK, SearchOK, DraftsOK, Alone, At, PageOK
<1>4. ASSUME NEW r \in Clients PROVE RequestOK(r)'
  <2>1. RequestOK(r)
    BY DEF IInv
  <2>2. PlanningOK(r) => PlanningOK(r)'
    BY <1>1 DEF PlanningOK
  <2>3. (PreponeOK(r) => PreponeOK(r)') /\ (AcceptOK(r) => AcceptOK(r)')
    BY <1>1, <1>2 DEF PreponeOK, AcceptOK
  <2> QED BY <1>1, <2>1, <2>2, <2>3 DEF RequestOK
<1> QED BY <1>1, <1>3, <1>4 DEF IInv

(* A restart leaves no request, no cache and no search. *)
LEMMA Restarts == ASSUME IInv, Restart PROVE IInv'
<1>1. /\ req' = [r \in Clients |-> Idle] /\ search' = NoSearch /\ UNCHANGED <<store, day, page>>
      /\ mcache' = [key |-> Nothing, masters |-> Nothing]
      /\ pcache' = [key |-> Nothing, result |-> Nothing, art |-> Nothing]
  BY DEF Restart
<1>2. StoreOK' /\ SearchOK' /\ DraftsOK' /\ \A s \in Clients : PageOK(s)'
  BY <1>1, BoundAssumption DEF IInv, StoreOK, SearchOK, Searches, DraftsOK, NoSearch, PageOK
<1>3. CacheOK'
  BY <1>1, PlansAssumption DEF CacheOK
<1>4. DOMAIN req' = Clients /\ Alone' /\ \A r \in Clients : RequestOK(r)'
  BY <1>1, IdleApart DEF Alone, At, RequestOK, Requests
<1> QED BY <1>1, <1>2, <1>3, <1>4 DEF IInv

-----------------------------------------------------------------------------
(* Nothing is cached at first and nobody asks. *)
LEMMA InitIInv == Init => IInv
<1> SUFFICES ASSUME Init PROVE IInv
  OBVIOUS
<1>1. /\ store \in [masters : Values, book : Values, drafts : {NoDrafts}] /\ day = 0
      /\ mcache = [key |-> Nothing, masters |-> Nothing]
      /\ pcache = [key |-> Nothing, result |-> Nothing, art |-> Nothing]
      /\ search = NoSearch
      /\ page = [r \in Clients |-> Nothing] /\ req = [r \in Clients |-> Idle]
  BY DEF Init
<1>2. StoreOK /\ SearchOK /\ DraftsOK /\ \A r \in Clients : PageOK(r)
  BY <1>1, BoundAssumption
  DEF StoreOK, Store, Drafts, NoDrafts, SearchOK, Searches, DraftsOK, NoSearch, PageOK
<1>3. CacheOK
  BY <1>1, PlansAssumption DEF CacheOK
<1>4. DOMAIN req = Clients /\ DOMAIN page = Clients /\ Alone /\ \A r \in Clients : RequestOK(r)
  BY <1>1, IdleApart DEF Alone, At, RequestOK, Requests
<1> QED BY <1>2, <1>3, <1>4 DEF IInv

(* One case per action. *)
LEMMA NextIInv == IInv /\ Serial /\ [Next]_vars => IInv'
<1> SUFFICES ASSUME IInv, Serial, [Next]_vars PROVE IInv'
  OBVIOUS
<1>1. ASSUME NEW r \in Clients, ViewBegins(r) \/ QuoteBegins(r) \/ AddBegins(r) PROVE IInv'
  BY <1>1, Begins
<1>2. ASSUME NEW r \in Clients,
             ReadResult(r) \/ ReadKey(r) \/ LookUpMasters(r) \/ ReadMasters(r) \/ Compute(r)
               \/ ReadArtifacts(r)
      PROVE  IInv'
  BY <1>2, ReadsResult, ReadsKey, LooksUpMasters, ReadsMasters, Computes, ReadsArtifacts
<1>3. ASSUME NEW r \in Clients,
             ViewAnswers(r) \/ QuoteAnswers(r) \/ AddPins(r) \/ AddSaves(r) \/ PutDrafts(r)
      PROVE  IInv'
  BY <1>3, Answers, AddsOrders, PutsDrafts
<1>4. ASSUME NEW r \in Clients, PreponeBegins(r) \/ PreponeSaves(r) \/ PreponeStarts(r) PROVE IInv'
  BY <1>4, PreponesBegin, PreponesSave, PreponesStart
<1>5. ASSUME NEW r \in Clients, AcceptBegins(r) \/ Applies(r) \/ AcceptSaves(r) PROVE IInv'
  BY <1>5, AcceptsBegin, AppliesResult, AcceptsSave
<1>6. SearchStarts \/ SearchEnds \/ Restart => IInv'
  BY OtherSearch, SearchDone, Restarts
<1> QED BY <1>1, <1>2, <1>3, <1>4, <1>5, <1>6, Environment DEF Next

(* The invariant of one request at a time. *)
LEMMA Inductive == Serial /\ Spec => []IInv
<1> SUFFICES ASSUME Serial PROVE Spec => []IInv
  OBVIOUS
<1>1. IInv /\ [Next]_vars => IInv'
  BY NextIInv
<1> QED BY <1>1, InitIInv, PTL DEF Spec

(* For one request at a time: the plan a request is given is that of what it *)
(* read, from the cache or not, and the cached result is that of its key,    *)
(* whatever is edited meanwhile.                                             *)
THEOREM ServedPlansHonest == Serial /\ Spec => []ServedHonest
<1>1. IInv => TypeOK
  <2> SUFFICES ASSUME IInv PROVE TypeOK
    OBVIOUS
  <2>1. \A r \in Clients : page[r] # Nothing => page[r].plan \in Plans /\ page[r].lines > 0
    BY BoundAssumption DEF IInv, PageOK, Pages
  <2>2. search.quote => search.lines \in 1..MaxLines /\ search.target \in 1..MaxTarget
    BY BoundAssumption DEF IInv, SearchOK, Searches
  <2> QED BY <2>1, <2>2 DEF TypeOK, IInv, StoreOK, CacheOK, SearchOK, Searches
<1>2. IInv => ServedIsOwn
  BY Kinds DEF ServedIsOwn, PlanningOK, At
<1>3. IInv => CacheHonest
  BY DEF IInv, CacheOK, CacheHonest
<1>4. IInv => ServedHonest
  BY <1>1, <1>2, <1>3 DEF ServedHonest
<1> QED BY <1>4, Inductive, PTL

(* For one request at a time: the dates saved with the new orders are those  *)
(* of the quote on the page when its lines are those saved, and the plan the *)
(* lines are pinned from has them in it.                                     *)
THEOREM QuotesKept == Serial /\ Spec => AcceptHonest
<1>1. ASSUME IInv, NEW r \in Clients, AddSaves(r) PROVE SameInputs(req[r].plan, page[r].plan)
  <2>1. /\ SameInputs(req[r].plan, req[r].in) /\ page[r] # Nothing
        /\ SameInputs(page[r].stamp, req[r].in)
    BY <1>1, Kinds DEF AddSaves, At, PlanningOK
  <2>2. SameInputs(page[r].plan, page[r].stamp)
    BY <1>1, <2>1 DEF IInv, PageOK
  <2> QED BY <2>1, <2>2 DEF SameInputs
<1>2. ASSUME IInv, NEW r \in Clients, AddPins(r) PROVE req[r].plan.book = req[r].in.book
  BY <1>2, Kinds DEF AddPins, At, PlanningOK, SameInputs
<1>3. IInv => [\A r \in Clients : AddSaves(r) /\ page[r].lines = Lines(r)
                  => SameInputs(req[r].plan, page[r].plan)]_vars
  BY <1>1
<1>4. IInv => [\A r \in Clients : AddPins(r) => req[r].plan.book = req[r].in.book]_vars
  BY <1>2
<1> QED BY <1>3, <1>4, Inductive, PTL DEF AcceptHonest, SavedAsShown, PinsTheNew

(* For one request at a time: an accept saves the lines and the date the     *)
(* search it applies was given, however often they were typed over.          *)
THEOREM AcceptsTheSearched == Serial /\ Spec => AcceptedAsSearched
<1>1. ASSUME IInv, NEW r \in Clients, Applies(r)
      PROVE  search.quote /\ search.lines = Lines(r) /\ search.target = Target(r)
  BY <1>1, Kinds DEF Applies, At, AcceptOK, Lines, Target
<1>2. IInv => [\A r \in Clients : Applies(r) /\ search.state = "done"
                 => search.quote /\ search.lines = Lines(r) /\ search.target = Target(r)]_vars
  BY <1>1
<1> QED BY <1>2, Inductive, PTL DEF AcceptedAsSearched
=============================================================================
