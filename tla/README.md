# Formal models of the Anvitech PPC engine

TLA+ models of the production planning server in this repository: its Optimize
searches and what they search, its order book and punches, the tables an admin
edits, the batches and the published plan, and the scheduler that turns orders
into a plan. TLC checks each model on small instances; TLAPS proves, for every
instance, the properties of the search's lifecycle and of the searches
themselves, of the published plan, the plan cache, the order ledger and the
tables, and of the scores. Paths such as `api/main.py:2281`
are relative to `src/`; `main.py` is `api/main.py`.

Contents: 1 the system and its hazards, 2 the modules, 3 the runs and their
bounds, 4 fairness, 5 the proofs, 6 where code and comments disagree, 7 what is
not modelled, 8 the plan, 9 running it.

## 1. The system

A FastAPI process serves a browser client and keeps everything it must not lose
in a key-value store (hashes, lists and plain keys; Upstash, Mongo or a local
file). Its endpoints are plain functions that the framework runs on a thread
pool, so any two requests interleave between any two store calls; a few pieces
of state live in the process and are guarded by two locks.

| Component | Source | State | Operations | Talks to |
|---|---|---|---|---|
| Optimize search | `api/main.py` 1477-2640, 4400-4600; `scripts/*_worker.py`; `.github/workflows/optimize.yml` | `_OPTIMIZE` (in the process), one thread per search | start, poll, claim, post a shard or a result, stop, apply, deadline | GitHub and Oracle workers over HTTP; the published plan (Apply); the new orders (kind "quote") |
| Order books, daily entries | `api/main.py` 3183-3240, 4736-4850; `engine/book_store.py`, `engine/orderbook.py` | two hashes of orders, one list of punches | punch, complete, roll back, delete, clear, add | planning reads all of it |
| Published plan | `api/main.py` 1819-1905, 2990-3110; `engine/freeze.py` | rows, meta, frozen set, ranks, settings | publish by Apply, standard plan or go-live seed; Done entering | two locks; every plan pins its steps to the rows |
| New orders | `api/main.py` 3380-3735; `engine/quote.py` | drafts, arrival queue | type, quote, add, search an earlier date, accept | the search, the published plan, the order book |
| Scheduler | `ppc_engine/scheduler/*`, `engine/new_engine.py` | a board of machine spans and staffed intervals during one decode | place one operation | pins from the published rows, occupancy from a finished stage |
| Plan and its cache | `api/main.py` 1016-1400 | last result, its fingerprint and artifacts, a cache of the masters | plan the book, or serve the cached plan; quote, add, ask for an earlier date | everything above |
| Batching and quotes | `engine/pipeline.py`, `rules/rule1`-`rule3`, `engine/quote.py`, `engine/new_engine.py` | saved ranks, the queue of accepts | club lines into batches, order them, plan accept after accept, quote dates | the scheduler; the order book |
| Frozen set | `engine/freeze.py`, `new_engine.py`, `flow_scheduler.py` 886-1076 | the frozen rows on file | derive, hold over a publish, resume in the next plan, report what is short | punches, the published plan, the scheduler |
| Search algorithms | `engine/optimizer.py`, `engine/optimize_service.py`, `ppc_engine/optimize/*` | none between calls | contest of settings, searches of a sequence | the scheduler as objective |
| Objective | `ppc_engine/objective/*`, `optimizer.py` 139-420, `_quote_movement` | none | score a plan twice over, compare two | the search, Apply, the quote's panel |
| Masters and settings | `engine/item_master.py`, `shop_masters.py`, `operator_master.py`, `book_store.py` | documents with versions, lists of absences and breaks | edit, refuse stale or unsafe edits | scheduler, punches |
| Store | `engine/storage.py` | the data | get, set, push, rewrite, per-request memo | all |
| Reports, loaders, login, web client, measurement scripts | `engine/*report*`, `*loaders*`, `api/auth.py`, `web/`, `scripts/measure_ontime.py` | none that another part relies on | read and lay out | all |

What makes each correct, and what is hard about it:

* **Optimize search.** One search at a time; the result shown is of this search
  and of its kind (a quote is never applied as a plan); a recorded plan is not
  thrown away; every search ends, so that the button works again. Hard: a
  watchdog thread, request handlers and twenty remote workers touch the
  same dictionary; posts are repeated, late or missing; plans are rebuilt
  outside the lock; the process may restart while workers go on.
* **Order book and punches.** No step of a routing overtakes the one before it;
  a saved punch stays; an order is in one of two books. Hard: no lock, multi-call
  updates, a list that is rewritten whole, reads remembered for a whole request.
* **Published plan.** Rows, meta, frozen set and ranks are of one publish, unless
  it was cut short for good; an order line is in the plan or in the queue; a
  publish that is undone leaves no trace.
  Hard: up to five writes per operation, each of which may fail, under two
  locks that do not cover them all, and a crash between any two.
* **Scheduler.** No person and no machine in two places; a setup is paid once;
  pieces flow through a routing; a repair follows the published plan and keeps
  its order. Hard: a greedy loop with a piece-flow guard, hand-overs between
  people, work around work, and a chain of late jobs stepping aside.

* **Plan cache.** A served plan is the plan of the inputs its request read; what
  an accept saves is what the page showed. Hard: one dict for all threads, read
  in three steps without a lock, while everybody else edits the inputs.
* **Batching and quotes.** Every order is planned, and once (but for a line deleted
  and accepted again, section 6); a quoted date is the date
  the plan then shows; accepting an order moves nobody. Hard: clubbing, saved
  ranks, the published order and the chain of accepts each re-plan the book, and
  a merged batch takes its dates and punches from several lines.
* **Frozen set.** A half-finished step makes exactly the pieces it owes, where it
  was last worked on, or pays a setup. Hard: the rows were derived from the
  punches of one moment and are resumed at another, after roll-backs, uploads
  and new publishes.
* **Searches, contest, objective.** A search ends within its budget with the best
  plan it saw, and not below the one in force; the winner does not depend on how
  the work was split; two scorers agree. Hard: budgets nested in budgets, Stop at
  any poll, answers in any order, points reused and rounded by the tuner, squares
  and caps whose weights must keep their ranks.
* **Masters.** What is punched stays at the front of its routing, what is ordered
  has a routing, what is named exists. Hard: checks of one document against
  three others, none locked, and tables that are seeded by whoever comes first.

`PROJECT.json` lists every hazard at its line with the properties that cover it.

## 2. The modules

| Module | Models | State and actions |
|---|---|---|
| `OptimizeJob` | the search lifecycle | the fields of `_OPTIMIZE`, a program counter for each search thread and handler, each worker's state. One action per critical section of `cloud_job`, `_cancel_cloud_job`, `_finalize_from_shards`, `_finalize_optimize` and the endpoints; `Crash`, `HandlerCrash`, `Restart`, `Deadline`, `GraceEnds` |
| `OptimizeContract` | what other parts may rely on about a search | state, job, kind, result: begin, deliver, break, consume, lose |
| `OptimizeJobProofs` | theorems on the two | |
| `OrderLedger` | orders and punches | the two hashes, the list, and each request as the sequence of store calls it makes |
| `OrderLedgerProofs` | theorems on it | |
| `PublishedPlan` | the published plan, queue and drafts | the stored keys, the two locks, each request as the sequence of writes it makes, any of which may raise (`Fail`, `FailWrongly`, `Breaks`); `Undo`, `Restart` |
| `PublishedPlanProofs` | theorems on it | |
| `WorkCalendar` | the hours: windows, shifts, breaks, days off, leave, machines out of service | operators only; time in ticks |
| `FlowDecoder` | `decode`: fresh plan, repair, second stage | the loop's own state (`idx`, `ready`, `prevEnd`, `spans`), the staffing board, placements; one action places one operation. Extends `WorkCalendar` |
| `FlowDecoderProofs` | theorems on it | |
| `Batching` | order book to plan: Rules 1 to 3, saved ranks, published order, chain of accepts, quotes | orders, punches and rejections, the archive, ranks, queue, published rows, the plan on screen. One action per request; each replans as the code does |
| `FrozenSet` | in-progress steps | punches, routing, published and frozen rows, the plan; entries, roll-backs, Done, publish, upload, a break, an edit of the routing |
| `PlanCache` | the two caches and the requests that live on them | contents of the inputs, both caches, the search's state, each page and request; one action per unlocked read or store call |
| `PlanCacheProofs` | theorems on it | |
| `ShopMasters` | items, machines, operators and three lists | one document per table, one per list, each request as its reads and its one write |
| `ShopMastersProofs` | theorems on it | |
| `SequenceSearch` | three searches of a sequence | seeds, what was decoded, best and current sequence, the neighbours not yet tried, population; one action per decode |
| `SequenceSearchProofs` | theorems on it | |
| `Scoring` | the objective, the classic mirror, the gate of Apply, the movement report | operators only |
| `Contest` | contests of settings | rows by shard, the log of what was tried, the tuner's bracket. Extends `Scoring`, with which mode "plans" compares the plans of small books |
| `ContestProofs` | theorems on the contests, and on the scores of `Scoring` as `Contest` states them | |
| `MC...` | constants and symmetry for TLC | |

How they fit together. `OptimizeJob` implements `OptimizeContract`
(`Implements`), which is all `PublishedPlan` needs of a search: its variable
`result` moves by `SearchMoves` between nothing, a full plan and a quote. What
the plan *contains* is a number in `PublishedPlan` and is computed in
`FlowDecoder`, which sees a book of batches in a given order: the book, its
batches and that order are `Batching`'s, where a placement is the first free
stretch behind what is laid. Steps in progress are laid before anything else by
`FrozenSet`. What a search inside `OptimizeJob` does is `Contest` (the settings)
around `SequenceSearch` (one setting), with scores whose terms are `Scoring`.
The input "masters" of `PlanCache` is the tables of `ShopMasters`. `OrderLedger`
and `PublishedPlan` share the set of active orders, and each changes it as the
other's environment (`OrderAdded`, `OrderGone`).

Correspondences worth knowing:

* **Critical sections.** Every `with _OPTIMIZE_LOCK` block is one action. What a
  thread remembers from one block to the next is in `task`. Superseded threads
  keep running until their next locked block sees that the job id has moved on.
* **Time in the search.** The watchdog's tick is one action per branch of its
  body; `Deadline` and `GraceEnds` say that forty minutes, or the grace after a
  Stop, have passed. They may come at any moment.
* **Store calls.** In `OrderLedger` every store call is an action. In
  `PublishedPlan` every write is one, and all the reads of a request are the
  action that begins it, because `_RequestCachedStore` answers a second read of
  a key from the request's memo. This is what lets one request overwrite another.
* **Plans as numbers.** A plan is the number of its candidate and the order lines
  it covers; meta, frozen set and ranks carry the number they were written for.
* **The decoder's data.** Time is in whole ticks; rank in the published plan is
  the position in its log. Every candidate of `decode`'s loop is placed on the
  board as it is, one is chosen (`FreshPick`, or `GiveWay` under pins) and
  committed. `LateTolerance` (one minute) is below a tick and is 0 in the
  instances. The placements of the model have been compared, operation by
  operation, with those of the Python `decode` on a hundred and fifty-five
  random books (a fresh plan, then a repair started later after punches) in shops
  with day and night people and machines, breaks across midnight, leave and
  machines out of service: they are equal.
* **Scores and landscapes.** A decode is one evaluation; its score is any function
  of the sequence. Random draws are free choices, so a run covers every seed of
  the generator.
* **Quotes.** Up to `Exhaustive` drafts every rank order is tried, as
  `_EXHAUSTIVE_MAX` does; the rotations beyond are modelled too.
* **Tables.** Where the code checks and then writes without a lock, the request is
  two actions. `Serial` says whether requests may overlap.
* **Mutants.** An operator marked "mutant" is a plausible slip in the definition
  that follows it; each shows that a property depends on that definition.

## 3. The runs

Each run checks a few properties; those with broad names are conjunctions whose
parts are defined, and explained, one by one in the module.

| Run | Instance | Shows |
|---|---|---|
| `optimize_two` | 2 searches, 1 shard, 1 handler, posts of a shard repeated | the inductive invariant `IInv` (types, claims, shards and results of one search never in another's, done with a result of its kind) and `OptimizeContract` |
| `optimize_live` | 1 search, 2 shards, every fault but repeated shard posts and a deadline within a merge | merges exclude each other, no plan is discarded, every search ends, a Stop ends it |
| `ledger_one` | 2 orders of 2 steps and 2 pieces, 3 punches, 2 requests on different orders, a rewrite of the list alone, 1 crash, both kinds of `list_set` | `LedgerInv`: precedence and one book; punches that stay, a kill within a rewrite granted; rollback of a completion, an order is never lost |
| `plan_one` | 2 lines, every operation, 2 candidates, any write failing, removals, 1 crash, 1 request at a time | `PlanInv`: a publish is of one plan unless it was cut short for good, one that is refused and undone leaves no trace; plan or queue, published rows, drafts |
| `plan_locks` | 2 requests, 5 operations, 2 candidates | outside the lock rows and meta agree; both requests end |
| `flow_repair` | 3 orders of 4 routings each over 2 lathes and a bench, 4 people on two shifts, breaks, a day off, 5 shop settings, 2 starts, any steps that had started finished, one more order in the second stage | `BoardInv`: no double booking; everyone works in the hours of their shift; one setup per job, piece flow, a repair that keeps the plan; a job on time is passed only by one that is ready before it |
| `batching` | 7 order lines of 3 items, 4 lists of drafts (one of them with a line that was on file), 2 machines with people and one without, a day off, a break, rejections, deletions, 3 changes | `BatchesSound`: every order planned, once unless it waits in two groups, windows, merged punches, no overlap, ranks; `AcceptsKept`: quotes and searches are what is planned, accepts move nobody |
| `frozen_set` | 2 lines of one item of 3 steps, 2 pieces each, a machine choice, a break, 5 changes | `FrozenSound`: pieces, flow, setups and the report; `FloorKept`: published machines, and the panel's plan |
| `plan_cache` | 1 browser that waits for each answer, every edit of everyone else at any moment, 1 midnight, restarts | `ServedHonest`: a plan of the inputs that were read; `AcceptHonest`, `AcceptedAsSearched`: what is saved was shown, and searched |
| `masters_serial` | 1 item with up to 3 of 4 steps, 2 machines, 1 person, 1 order, 4 writes, one request at a time, a workbook yet to be seeded | punched steps stay first; `TablesSound`: every order routed, every machine known; seeding |
| `search_keeps_best` | 3 orders, landscapes of two values and one best sequence, three sets of must-finish dates, with and without a plan in force, 2 budgets, every draw, Stop at any moment | `SearchKeeps`: budget, best of what was seen, elitism; never worse than the plan in force; every search ends |
| `contest_agrees` | 3 shards in any order, failing or cut short, 2 candidates by 2 machine sets, 2 scores; the peaks of every nineteenth thousandth by 4 pairs of slopes with the planner's own bracket, and 16 rough responses; every pair of plans of 3 books | `ContestsAgree`: one winner however it is split; `TunerFinds`: the peak; `ScoresHonest`: scorers, ranks of the weights, movement; every contest ends |

Why these bounds are enough for what is claimed:

* *Two searches, two shards.* The interesting conflicts are between a search and
  the one after it, and between the merge of a job's shards and one more shard.
  A third search can only repeat the second's relation to the first; the
  invariants are proved for any number anyway.
* *Three punches.* Precedence relates two steps; one punch for each and one that
  is rejected, rolled back or marks completion make every conflict of the
  guards. All are of one day: an earlier day only forbids roll-backs, and the
  theorems are for any number of days. Two requests at a time, each on an order of
  its own, interleave their appends and their moves between the books.
* *Two candidates.* A plan that is on file and one that replaces it; a third
  replaces the second as the second did the first.
* *One crash.* Every write position of every request is a crash position. A
  second crash starts from a state that the first could already have left.
* *Two requests.* The lost updates in section 6 need two; none needs a third.
* *Three orders, four people.* A late job, the ready one behind it and one
  feeding that one are what the give-way rule relates; a second person is needed
  for a hand-over, a third for a tie, a fourth for the night. Of the six exits of
  `GiveWay` four are taken in `flow_repair`; the other two were met in random
  larger books, which showed none of the run's properties violated.
* *Seven lines.* Two lines of one item outside each other's window, a third
  between them, and two drafts that may club with neither: a batch that merges,
  one that must not, and an accept behind an accept.
* *Five changes to a frozen step.* Punch, Done, publish, take back and publish
  again is the longest chain whose last step sees rows of another moment.
* *Three orders to search.* Six sequences and their neighbours hold a local best
  that is not the best, which is what elitism, restarts and seeds are for.
* *Bracket of 450 thousandths.* The tuner runs with its production parameters,
  so rounding and reused points are the real ones.

`CHECK_DEADLOCK FALSE` stands only where the system really may stop: a decoder
that has finished its plan. Symmetry is used only without temporal formulas
whose truth could depend on it: `plan_one` has action properties and no
fairness.

## 4. Fairness

* `OptimizeJob`: weak fairness on each search thread and each handler (the
  operating system runs them; the local search is bounded by its budget), and on
  `Deadline` and `GraceEnds` (time passes). Nothing is assumed of workers, of
  GitHub or of the admin; a search ends without any of them. The instance leaves
  out `slowMerge`: the tick that sees the deadline, or a reported failure, falling
  within a merge by the collector. With it `SearchEnds` is false (section 6).
* `PublishedPlan`: weak fairness on the steps of each request. A waiting
  request can be overtaken again and again by others that take the lock, since
  Python locks are not fair; `plan_locks` bounds that contention by `MaxPlans`,
  so it shows freedom from deadlock, not from starvation.
* `SequenceSearch` and `Contest`: weak fairness on the search's own steps, which
  no other part of the program can block. A shard that never answers is a step
  of the watchdog that goes on without it. `Cancel` is never assumed.
* The other modules state no liveness: their requests are sequences of store
  calls that nothing blocks, and the decoder's loop ends because each turn
  advances one order's index.

## 5. The proofs

Checked by TLAPS from the assumptions on the constants that the modules name
(`OptimizeAssumption`, `PlanAssumption`, `LedgerAssumption`, `MastersAssumption`,
`BoundAssumption` and its two companions in `PlanCache`, `SearchAssumption`,
`ContestAssumption`, `TunerAssumption`, `BooksAssumption`, `DecoderAssumption`,
`HoursAssumption`), which TLC evaluates in
the runs: for every set of shards, handlers, requests, lines, orders, items and
machines, every shop, routing and calendar, every number of searches, plans,
punches, edits and crashes, every score of a plan. A theorem with a
hypothesis states it; what it excludes is where section 6 has a counterexample.

| Theorem | States | Under |
|---|---|---|
| **`OptimizeJobProofs`** | | |
| `TypeCorrect`, `Invariance` | `TypeOK`, `IInv` | |
| `MergeIsExclusive` | `OneMerge` | |
| `ResultIsRight` | `ResultIsOfThisSearch`, a part of `IInv` | |
| `NothingDiscarded` | `DiscardsNoPlan` | |
| `Refinement` | `Implements` | |
| **`PublishedPlanProofs`** | | |
| `TypeCorrect` | `TypeOK`, with `LockHeld` | |
| `PublishLockWorks` | `PlanAndMeta` | `Undisturbed`, any number of requests |
| `PublishesWhole`, `NoOrderIsFree` | `PlanInv`, `PlanOrQueue` | `OneRequest` |
| `DraftsNotLost`, `PublishedStays` | `DraftsKept`, `PublishStays` | `OneRequest` |
| **`PlanCacheProofs`** | | |
| `ServedPlansHonest` | `ServedHonest` | `Serial` |
| `QuotesKept`, `AcceptsTheSearched` | `AcceptHonest`, `AcceptedAsSearched` | `Serial` |
| **`FlowDecoderProofs`** | | |
| `DecoderSafe`, `NobodyTwice` | `DecoderInv`, `BoardInv` | |
| `NeverSplit` | `SetupPaidOnce` | |
| `StartedInOrder` | `StartsInOrder`, the first half of `PieceFlow` | |
| `WorkedInHours` | `WorksWhenOpen` | `HoursSound` |
| `PassedOnlyByTheReady` | `PassedByTheReady` | |
| `RepairedOnItsMachine` | `PinnedStays` | |
| **`OrderLedgerProofs`** | | |
| `LedgerTypes` | `TypeOK` | |
| `LedgerKept` | `LedgerInv` | `OneAtATime`, no `LateRejects` |
| `SavedPunchesStay` | `PunchesStay` | `RewritesAlone`, any number of requests |
| `OrdersNotLost`, `UndoneMarkReturns` | `OrdersStay`, `RollbackReturns` | `OneAtATime` |
| **`ShopMastersProofs`** | | |
| `TablesFit`, `WorkbookFirst` | `TablesSound`, `SeededFirst` | `Serial` |
| `ProductionFirst` | `PunchedIsPrefix` | `Serial`, no `StalePages` |
| **`SequenceSearchProofs`** | | |
| `KeepsBest`, `PlannerNotWorse` | `SearchKeeps`, `NeverWorse` | |
| **`ContestProofs`** | | |
| `ScoresAddUp` | `ScorersAgree`, `LateDayCosts`, `MovementAddsUp` | |
| `MissedDateOutweighs` | `ScoresHonest` | `Outweighed` |
| `WorkersChangeNothing` | `ContestsAgree` | |
| `TunerFindsThePeak` | `TunerFinds` | `RoundingFits` |
| `PlannersTunerFindsThePeak` | `TunerFinds` | `PlannersTuner` |

The hypotheses: `OneRequest`, `OneAtATime` and `Serial` say that one request is
under way at a time, which the code does not enforce but one admin at one screen
amounts to; the environment (the edits of everyone else in `PlanCache`, the
search, crashes) still steps in between. `RewritesAlone` is weaker: requests that
append (punches, completions) overlap as they like, one that rewrites the list of
punches (a rollback, a delete) runs alone. `LateRejects` allows a rejection to be entered after the
pieces it rejects have been passed on, `StalePages` a punch from a page that
shows an old routing. `HoursSound` says that the hours of a day do not run into
each other: a night shift is over when the next day shift begins, and so is a
break that crosses midnight. Other settings are accepted, and section 6 says what
happens then. `RoundingFits` says of a set of shapes (how far a bracket's other
points are from its first) that it has those the tuner begins with and those it
narrows them to, and that in all of them the points are in order: a golden
section in whole thousandths is not one at every width, and of a bracket four
thousandths wide the two inner points coincide. `PlannersTuner` is the call of
`sweep_optimize` (`new_engine.py:1194`): from 50 to 95 percent, to 1 percent, from five
points. It has thirty-three shapes, all of them in order.

Along which argument:

`OptimizeJobProofs`
: `OneMerge`, `ResultIsOfThisSearch`, `DoneHasResult` and
  `ShardsOfThisSearch` are not inductive by themselves. `Commit` stores a result
  computed long before, so the invariant says that what is about to be stored
  has the kind of the current search (`CommitKind`), that tasks belong to
  searches that were started (`Started`, `TasksKnown`), and that whoever merges
  holds the claim (`ClaimHeld`): then a second claim cannot be taken.
  `NoWinnerIsTrue` says that a merge that found no plan is still right about the
  shards as they are now; recording is closed while a claim is held.
  `DiscardsNoPlan` follows as an action property. `Refinement`: `Init` maps to
  the contract's, and each action is a contract step or a stutter under the
  invariant.

`PublishedPlanProofs`
: `LockHeld` says that the publish lock is held exactly from the write of the
  rows to that of the meta, whatever fails or is killed. `LockInv` adds that
  between the two writes the holder's plan is the one on file. Each condition of
  `Undisturbed` (no failing write, no crash, no Add New Orders) is needed: a
  failing meta and a lost publish are in section 6, and a process killed between
  the two writes leaves them apart.
  For one request, with any of its writes failing (before or after it took
  effect), removals and crashes anywhere, `OneInv` has six
  parts: which operation is at which write (`OpOK`), what of the plan it read is
  still or again on file (`OldOK`), what of its own is (`NewOK`), which lines
  both cover (`CoverOK`), that the drafts are those it read (`DraftOK`), and
  that the stored parts, or those it would restore, are of one publish unless an
  earlier one was torn (`WholeOK`). The history variable `torn` is set where a
  publish ends with some of its writes done and some not: killed in between, or
  rows, meta, ranks or the rollback raised. It is cleared by the next publish that
  gets to its last write, whatever was on file. `CoverOK` is what makes
  `PlanOrQueue` survive all of that.

`PlanCacheProofs`
: one request at a time (`Serial`; with two, section 6) among all the edits of
  others. What a request holds was read when it began, so the invariant says for
  each point at which it can be (`PlanningOK`) what the caches hold *for it*:
  the masters' cache is that of its digest, the plan's cache that of its key. A
  cached result may be of a later day than its key (midnight between the two),
  hence `SameInputs` and an inequality of days rather than equality.

`FlowDecoderProofs`
: `NoDoubleBooking` says nothing of the board the next job is laid on, so
  `DecoderInv` says what that board knows of every step in force (`Recorded`):
  its stretches are booked with its people and lie in time taken on its
  machine, and a machining job's machine is taken from its start to its end.
  The rest of it types the loop's state (`Book`, `Board`), the pins (`Pinned`)
  and the log (`Logged`), and keeps the orders of the two stages apart
  (`Staged`). From the bottom: what `Gaps` returns is free of every block and two
  gaps never meet (`GapFree`, `GapsFollow`); the loops over
  stretches, windows, runs and passes of the guard stay in a set (`TurnsExist`,
  `TurnsStay`), so what is laid is a chain of stretches that are clear, and in
  one run when it must be whole (`ManFits` to `LaidOn`); the guard, the replay of
  the published order and the yields choose only among such placements
  (`OperationFits` to `PickFits`); a commit of one meets nothing in force
  (`NewApart`, `NewAlone`). The second stage trades the spans for `TimeOn`, which has
  every stretch and those pauses nobody ran in: it still covers a machining job
  only because, by `SetupPaidOnce`, nobody runs in one (`PauseFree`, `TimeCovers`). `Flowing`, for
  `StartsInOrder`, says that every step before an order's next one is placed
  and when the next may begin. `Rostered` carries, from the windows down to each
  stretch, that it lies in hours that are open to its machine and its person;
  instant by instant that compares what `IterWindows` and `ShiftKeyFor` make of
  shifts, midnight and breaks with the clock. `Owing` says which steps run on a
  machine, and that one with a pin is on the machine of its pin. For the queue,
  `Earned` says of a candidate that everything it would pass is late or becomes
  ready after it: it holds of the first in the queue, and each link of the chain of
  jobs stepping aside hands it on (`LetThroughFits` to `PickFits`).

`OrderLedgerProofs`
: first the accounting, in sets of pieces: how appending a punch,
  undoing one and deleting an order change what each step made and passed on
  (`StepsFollow`, a sharper `StepsInOrder`, is what a roll-back preserves). Then
  `OneInv`: what a request checked before its last store call still holds at it
  (`ListOK`), and where an order is while it moves from one book to the other
  (`BooksOK`), with the crash of any call. With two requests, or a rejection
  that comes later than its pieces, section 6 has the counterexamples.
  `SavedPunchesStay` needs less, `AloneInv`: while a request that rewrites is
  between its read and its write nobody else is under way, so the list it writes
  back is still the one on file (`Rewrites`), and after the DEL it is what the
  request holds.

`ShopMastersProofs`
: three tables refer to each other, and each request checks some and writes
  another. `IInv` says that the tables fit (`RoutingsOK`, `MachinesOK`), that
  before the workbook is taken over nothing is ordered (`SeedOK`), and that what
  the one request under way has checked still holds of what it will write
  (`ItemHolds`, `MachineHolds`, `PunchHolds`...). `Fits` replaces
  `PunchedIsPrefix` by what an edit's refusals really preserve.

`SequenceSearchProofs`
: first the operators, for any draws: the sorts, the moves and the crossover
  make sequences in which every order appears once. `SearchInv` then says what holds
  while seeds are decoded (`Seeding`), that the planner's first seed is always
  decoded (`FirstSeed`), that what was decoded is behind the best, or behind the
  best *and* the sequence the climb stands on (`Leading`), how much of the
  budget is spent (`Spent`) and that the population has the best's score
  (`Elite`). `NeverWorse` follows from `FirstSeed` and `Leading`.

`ContestProofs`
: `Init` chooses the plans to compare and no step changes them, so the
  invariant is short (`Judging`) and the work is in the sums.  `Picked` to
  `SumBounded` prove, of the folds of the community modules, that what joins a
  set adds its weight whatever order `CHOOSE` takes the elements in; then each term of one
  scorer equals its mirror order by order (`PartByPart`, `SumOfPart`), a later
  day raises a sum (`SumMonotone`), the movement is bounded order by order.
  "A plan meeting the date always beats one missing it" is not true of every
  book, the weights being numbers: `Outweighed` says that all the rest, for so
  many orders, so many of them committed and so many days late, weighs less than
  one missed day. It holds of the run's books, and of a hundred orders, ten of
  them committed, all two months late.
  For the contests `ContestInv` has a part for each kind. What sorts and joins is
  given by `CHOOSE` and by a recursive function, so `RisingIs` puts the numbers of
  a set in order by how many are below each, and `JoinsExist` goes by induction on
  the number of lists (the least counterexample of `LeastNumber`); all that is used
  of them after that is in `ContendersAre` and `FlattenIs`. `CloudInv`
  says that a shard's rows are a beginning of its slice, with the scores of
  the candidates unless a Stop cut the last one short; the slices share the
  candidates out (`SlicesShare`), so a winner, being the row that comes ahead of
  all others by a key that says nothing of the order (`WinnerIs`), is the same
  for every order of the shards, unless two machine sets tie (`SameWinner`). `SweepInv` says that the sweep
  holds the first of the best rows so far, which of equal scores is the setting in
  force or the smallest overlap because that is the order it tries them in.
  `MatrixInv` says that no job is in the rows twice; the best of the best of each
  combination is the best of all (`ReduceIsTop`, `OffloadIsTop`). `TunerInv` says
  that what is in the log is the response at that point, that the coarse points
  come in order, and that a bracket's ends were probed; without a cleared flag the
  coarse pass is therefore complete when it is left. `PeakInv` keeps a single peak
  between the ends: of two inner points in order, what lies beyond the worse one
  is not the peak. The best point ever probed is no worse than both ends, so it is
  between them as well.

Only model-checked, and why:

* *liveness* (`SearchEnds`, `StopEnds`, `EveryRequestEnds`, `Ends`, `Finishes`): out
  of the prover's reach;
* *of `FlowDecoder`*: the other half of `PieceFlow`, a step ends no earlier than
  those before it, since the guard pushes a fixed number of times and whether
  that is enough is a matter of the numbers; `RepairKeepsPlan`, an induction over two
  runs of the decoder side by side. `PublishedOrderWins`, that a job on time is
  passed by nobody who *starts* later than it would, is false (section 6);
* *`Batching`* and *`FrozenSet`*: batches, rows and bars are folds over sequences with
  a state, and what each computes for every list is an induction of its own, by the
  least counterexample, which has not been done. `AcceptsKept` is moreover false for
  some of the constants (section 6).

## 6. Where the code and its comments disagree

Each row is a property of one of the modules that the code does not have; it is
no part of a run. The constants reproduce it in seconds or a few minutes: put
the property in a copy of the named run's configuration.

| Property | Constants | What happens |
|---|---|---|
| **`OptimizeJob`** (`optimize_live`) | | |
| `SearchEnds` | `FairSpec`, 1 search, `{s1}`, `{h1}`, `{"slowMerge", "noWinner"}` | the deadline passes while a collector merges; it finds no plan and clears the shards with nobody left to look: every later Start answers 409 (`main.py:4535`) |
| `AppliedStaysApplied` | 1 search, 1 shard, 2 handlers, `{"retryPlan"}` | a result posted twice is stored again after Apply and the panel comes back (`main.py:2476`) |
| `OnlyOwnThreadFails` | 2 searches, `{"exception", "dispatchFail"}` | the exception of an earlier search's thread ends the current one (`main.py:2354`) |
| `RecordedShardStays` | 2 shards, `{"retry"}` | a worker that got no reply reports an error whose empty rows replace its recorded ones (`main.py:4576`) |
| `NoLocalAfterStop` | 1 shard, `{"dispatchFail"}` | a Stop during a failing dispatch is followed by a local search (`main.py:2233`) |
| `StopSalvages` | 2 shards, no fault | a shard recorded between the two locked blocks of a Stop is dropped (`main.py:2633`) |
| **`OrderLedger`** (`ledger_one`) | | |
| `PunchesStay` | `RewritesAlone FALSE`, 2 requests, 1 step, `Ordered 2`, 2 entries | a rollback rewrites the list it read at its start (`book_store.py:179`) |
| `StepsInOrder` | `LateRejects TRUE`, 1 order, 2 steps | a rejection entered later leaves the next step ahead (`orderbook.py:155`) |
| `FirstStepFits` | 1 step, `Ordered 1`, 3 punches | an archived order is punched past its quantity, then returned (`main.py:4786`) |
| `OrdersStay` | `RewritesAlone FALSE`, `OrdersApart FALSE`, 2 requests, 1 step, 1 punch | rolling back a completion while it is being archived loses the order (`book_store.py:102`) |
| `PunchesDurable` | `ListWrites {"delPush"}`, 1 crash | a crash between DEL and RPUSH empties the list (`storage.py:135`) |
| **`PublishedPlan`** (`plan_one`) | | |
| `PublishedWhole` without `~torn` | `Ops {"apply", "clear"}`, `Fails {"meta"}`, `{"ranks"}` or `{"undo", "frozen"}`, 1 request | a publish is left half done until the next one: the meta fails after the rows were written, and the answer is "Nothing was changed" (`main.py:1848`); nobody catches a failing rollback (1855) or failing ranks (3068) |
| `PublishStays` | `Ops {"seed", "apply", "add", "put"}`, 2 requests | the read inside the publish lock comes from the memo: Add New Orders overwrites a plan applied meanwhile (`main.py:3593`) |
| `PlannedOnce` | `Ops {"seed", "put", "add"}`, `Removes TRUE`, 1 request | a deleted order's key stays queued and comes alive again (`main.py:976`) |
| `PublishedWhole` | `Ops {"apply", "clear"}`, 2 requests | rows of one publish with the frozen set or ranks of another (`main.py:1852`) |
| `SeedsOnce` | `Ops {"seed"}`, 2 requests | two page loads both seed (`main.py:1870`) |
| `PlanOrQueue` | `Ops {"seed", "put", "add"}`, 2 requests | one arrival group is overwritten (`main.py:3551`) |
| `DraftsKept` | the same | drafts saved during an accept are cleared by it (`main.py:3554`) |
| `AppliesItsKind` | `Ops {"apply"}`, 1 request | the kind is checked in one locked block and applied in the next (`main.py:4374`) |
| **`FlowDecoder`** (`flow_repair`) | | |
| `RepairKeepsDates` | `SharedBooks`, `SharedShop`, 3 jobs, none new, 2 people, machines A, H, N, day 24 ticks, shift 8 to 19, no night, no breaks, `Qty 1`, `Setup 0`, no overlap | the repair of an unpunched plan gives the rest of a shift to its first person and moves deliveries (`flow_scheduler.py:834`); seen with the Python scheduler too |
| `PublishedOrderWins` | `QueueBooks`, `QueueShops`, `OneEach`, `AllOrders`, 5 jobs, none new, 4 people, machines A to D, day 50 ticks, shift 1 to 45, no night, no breaks, `Qty 2`, `Setup 0`, `OverlapPct 90`, `MinStretch 1`, `GuardPasses 8`, start 0 | a job counts as ready by the arrival of its pieces, is pushed hours behind by the piece-flow guard and takes its turn all the same: a job on time that was published before it waits (`flow_scheduler.py:311`; docstring at 195). Seen with the Python scheduler too, 08:45 becoming 13:00 |
| **`PlanCache`** (`plan_cache`) | | |
| `ServedIsOwn`, `CacheHonest`, `AcceptedAsSearched` | `Serial FALSE`, 2 clients, no lines, no midnight | two requests pair the key of one plan with the result of the other; a prepone saves dates the running search was not given (`main.py:1022`, `3667`) |
| `SavedAsQuoted` | those of the run | lines typed after the quote are added with dates no page showed |
| **`ShopMasters`** (`masters_serial`) | | |
| `SavesWhatWasSeen` | those of the run | an item deleted and created anew starts at version 1 again, and a page opened before passes the check (`item_master.py`) |
| `PunchedIsPrefix` | `StalePages TRUE` | an entry from an old page names a step its routing has lost |
| `EditsStay`, `PunchedIsPrefix`, `OrdersRouted`, `MachinesKnown` | `Serial FALSE`, 2 clients, 3 edits | reads, checks and the write of a document are not one step |
| **`SequenceSearch`** (`search_keeps_best`) | | |
| `NeverWorseThanInForce` | those of the run | with must-finish dates the first seed is another sequence, and a Stop before the second returns it |
| **`Contest`, `Scoring`** (`contest_agrees`) | | |
| `SameMachineSet` | those of the run | a tie falls to another machine set than in one process, against "byte-identical" (`optimize_service.py:10`) |
| `MakespanBreaksTies` | those of the run | makespan outweighs the discount of an early day (`optimizer.py`, docstring of `score`) |
| `CommittedStays` | those of the run | the gate compares only the worst slips: a committed order may slip behind another one that was already worse (`main.py:3016`) |
| **`Batching`** (`batching`) | | |
| `QuotedIsPlanned` | `Targets {0, 1, 2}` | the date asked for stays with a draft after the earlier date was refused and moves the next plan, not its quote (`main.py:1124`) |
| `BatchesOf(o)` at most one | those of the run | a deleted line keeps its key in the queue; accepted again it is in two groups, and each plans its pieces (`main.py:976`) |
| `AcceptMovesNobody` without `requeued` | those of the run | such a line is planned with its old group too, and moves the orders behind that (`main.py:979`) |
| `QuotedIsPlanned` without `repinned` | those of the run | the published rows of a deleted line are still there: accepted again with another one, it goes first whatever was quoted (`new_engine.py:631`) |
| **`FrozenSet`** (`frozen_set`) | | |
| `NeverSkips` | those of the run | a frozen row whose punches were all taken back leaves its step in no plan (`flow_scheduler.py:975`; docstring at 902). The report names it |
| `MovedPaysSetup` | `WaitsForDone FALSE` | a plan published before Done is pressed holds a step where it no longer is, without its setup |

Some more, without a property of their own:

* the docstring of `iter_windows` says "Only windows whose END is after
  start_from are yielded" (`worktime.py`), but it begins at the date of
  `start_from`: asked at half past midnight it skips the night shift that runs
  until five, so work that gets ready after midnight loses the rest of the night
  (seen in Python; `LayWindows` has it);
* two settings `HoursSound` excludes: a night shift that ends after the next day's
  first start works into hours `shift_key_for` gives to the day shift
  (`worktime.py:65`), and a break that begins before midnight and ends after the
  first start is not taken out of that morning, since `_without_breaks` looks at
  the breaks of its own day only (`worktime.py:80`). `WorksWhenOpen` fails in
  `flow_repair` with `SecondEnd = 5`, and with `MealBreaks = {<<8, 4>>}`;
* `PlanConfig` says of the overlap "0.9 = start at 90% done" (`config.py:84`); the
  scheduler lets the next step start when one part in ten is done;
* the docstring of `_guarded` says "same machine ... just placed later"
  (`flow_scheduler.py:210-211`); each of its passes chooses the machine anew, and
  may overshoot. `RepairKeepsPlan` therefore leaves out plans in which that can
  matter (`Wandered`), and those with a hand-over inside a shift (`HandedOver`),
  the case of `RepairKeepsDates`;
* the tuner looks its winner up among the candidates it ran: if the contest is
  stopped and the flag cleared between two polls it may not be there
  (`contest.py:248`; `main.py:2153`, `2354`). `NoLookupError` says that nothing
  else leads there;
* a clubbed batch is scored once in a search and once per line in the contest,
  which can differ when its lines have different dates; a must-finish date comes
  first only while the rest of the plan weighs less than one missed day: up to
  about 447 days by which one committed order overruns its slack, or, in general,
  within the bound `Outweighed` of `MissedDateOutweighs`;
* an order that is archived while its item is deleted comes back without one;
* a punched step that no frozen row covered at the publish moves without a setup
  (`unknown` of `FrozenSet`).

## 7. What is not modelled

* *Scheduler*: the tolerances in comparisons of minutes, shift rotation (no week
  anchor is set), a duplicate order of a group. A step pinned to a machine that is
  out of service to the end of the look-ahead makes the plan fail: the model has
  that outcome (`phase = "failed"`) and no property of it.
* *Searches*: progress numbers, the payload sent to a worker, the wall clock of a
  local search. In books larger than the run's the code's climb samples positions
  (fifteen times four) where the model may try all, and from forty orders on a
  perturbation makes several moves at once; no property rests on either.
* *Order book*: uploads and edits of delivery dates inside `OrderLedger`
  (`Batching` has uploads), wastage, fields no guard reads. Two requests of which
  one rewrites the list, or on one order, are left out of the run: section 6 has
  what they do.
* *Published plan*: the winner's settings, whose failing write is that of the ranks
  next to it; the commitment lane (switched off).
* *Batching*: the placement itself; late published jobs; a plan start other than
  the first day; roll-backs of punches, punches of archived orders and orders that
  come back from the archive (`OrderLedger` has them). A rejection is an entry of its own.
* *Plan cache*: the hour at which an automatic plan starts; what the fingerprint
  hashes, beyond "masters" and "book".
* *Masters*: settings nothing refuses (weights, hours) and workbook import.
* *Objective*: display figures; the reasons on the banner of `fixed_plan.py`.
* *Store*: its three backends, which are outside libraries and services.
* *Dead code*: `gap_harvest.py`, `_auto_apply_result` and `_try_start_auto` are
  called by nothing; the earlier engine (`engine/flow_scheduler.py`, rules 4 to 7)
  is not the one production selects (`DEFAULT_SCHEDULER`).
* *Never*: loaders, spreadsheets, reports, login, the browser client and the
  measurement scripts: they keep no state another part relies on, or are layout
  and parsing.

## 8. The plan

What was planned is there: every component of section 1 whose state another one
relies on has a module, and of eight modules the safety properties are proved, but
for the two of `FlowDecoder` that section 5 names. What a next step would be, in this order:

1. `FrozenSet`: `FloorKept` (a published row covers every step the batch owes, so
   the choice of machines cannot matter) and then the parts of `FrozenSound`, by
   induction on the steps of a routing, as `FlattenIs` does for lists.
2. `FlowDecoder`: `RepairKeepsPlan`, by carrying the published run along with the
   repair (each turn places the operation that the turn with the same number
   placed), and `EndsInOrder` with a bound on the pauses a placement can contain.
3. `Batching`: `BatchesSound`, one rule after the other.

## 9. Running it

    tlc -workers 2 -config OptimizeTwo.cfg MCOptimizeJob         # 2 minutes
    tlc -workers 2 -config OptimizeLive.cfg MCOptimizeJob        # 1 to 2 minutes
    tlc -workers 2 -config LedgerOne.cfg MCOrderLedger           # 3 minutes
    tlc -workers 2 -config PlanOne.cfg MCPublishedPlan           # 1 minute
    tlc -workers 2 -config PlanLocks.cfg MCPublishedPlan
    tlc -workers 2 -config FlowRepair.cfg MCFlowDecoder          # 2 minutes
    tlc -workers 2 -config Batching.cfg MCBatching               # 2 minutes
    tlc -workers 2 -config FrozenSet.cfg MCFrozenSet             # 1 minute
    tlc -workers 2 -config PlanCacheSerial.cfg MCPlanCache       # 2 minutes
    tlc -workers 2 -config MastersSerial.cfg MCShopMasters
    tlc -workers 2 -config SearchKeepsBest.cfg MCSequenceSearch
    tlc -workers 2 -config ContestAgrees.cfg MCContest           # 2 minutes
    for m in OptimizeJobProofs PublishedPlanProofs PlanCacheProofs \
             FlowDecoderProofs OrderLedgerProofs ShopMastersProofs \
             SequenceSearchProofs ContestProofs
    do tlapm $m.tla; done                                        # half an hour
