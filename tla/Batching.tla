------------------------------ MODULE Batching ------------------------------
(***************************************************************************)
(* From the order book to the plan on screen: which lines are made together *)
(* (Rule 1), in which order the batches go to the machines (Rules 2 and 3, *)
(* a saved search replayed over them), how lines accepted in Add New        *)
(* Orders are planned behind the book that was there, one accept after the  *)
(* other, and how their dates are quoted (engine/pipeline.py, rules/rule1,  *)
(* rule2 and rule3, ppc_engine's adapter engine/new_engine.py,              *)
(* engine/quote.py and `_plan` of api/main.py).                             *)
(*                                                                          *)
(* Every request replans, so `plan` is the plan after each of them. The     *)
(* placement of one batch is abstracted to: each step takes the first free  *)
(* stretch of its machine after the step before it; FlowDecoder models the  *)
(* placement itself, with shifts, people, overlap and late jobs. Here every *)
(* published job is on time. Orders, items and days are numbers; an order   *)
(* stands for one (SO number, item) pair.                                   *)
(***************************************************************************)
EXTENDS Integers, Sequences, FiniteSets

CONSTANTS
    Orders,         \* the order lines that may exist, numbers
    Booked,         \* those on file at first
    ItemOf, QtyOf,  \* order -> item, ordered quantity
    Routes,         \* item -> sequence of [machine, cycle]; <<>>: no routing
    Staffed,        \* machines with an operator in Settings
    Setup,          \* setup_time_min
    Window,         \* consolidation_window_days
    Metric,         \* priority_metric: "slack", "ratio" or "process_time"
    Within,         \* priority_window_days; -1 for None
    Days,           \* delivery dates in an upload; those of Booked are in
    FirstDays,      \* this smaller set
    Uploads,        \* orders that may be in an upload
    EntryDays,      \* days that are punched
    DayLength,      \* working time of one day
    Holidays,       \* days off
    Reserved,       \* <<machine, from, to>>: breaks and absences on file
    Exhaustive,     \* engine/quote.py _EXHAUSTIVE_MAX
    Drafts,         \* the draft lists that are typed: sequences of new orders
    Targets,        \* dates the drafts carry; -1 for none
    MaxChanges      \* a bound

None == -1
Vendor == "OS"      \* the lane of an outsourced step, which holds no machine

VARIABLES
    due,        \* the active book: order -> delivery date
    archived,   \* orders marked complete
    good,       \* punches: <<order, step>> -> its entries, in order of entry; of a
                \* piece made (pieces 1), or of one rejected later (pieces -1)
    ranks,      \* the saved priority ranks: order -> rank
    queue,      \* the arrival queue: groups of orders, in order of arrival
    pinned,     \* the published plan: order -> its place (`placed`)
    scheduler,  \* config.scheduler
    changes,
    plan,       \* what `_plan` computes from the above
    stale,      \* the inputs have changed since
    publishing, \* "all" or "new" orders are to be published from the next plan
    promise,    \* of an accept: the dates before it and the dates it quoted
    searched    \* of an applied search: its sequence

vars == <<due, archived, good, ranks, queue, pinned, scheduler, changes, plan, stale,
          publishing, promise, searched>>

Least(S) == CHOOSE x \in S : \A y \in S : x <= y
Greatest(S) == CHOOSE x \in S : \A y \in S : x >= y
Total(f) ==
    LET Sum[S \in SUBSET DOMAIN f] ==
            IF S = {} THEN 0 ELSE LET x == CHOOSE y \in S : TRUE IN f[x] + Sum[S \ {x}]
    IN Sum[DOMAIN f]
LexLess(s, t) ==
    \E i \in DOMAIN s : s[i] < t[i] /\ \A j \in 1..(i - 1) : s[j] = t[j]
\* The elements of S as a sequence; Less is a total order on S.
Sorted(S, Less(_, _)) ==
    [i \in 1..Cardinality(S) |->
        CHOOSE x \in S : Cardinality({y \in S : Less(y, x)}) = i - 1]
Fold(Op(_, _), base, seq) ==
    LET Upto[n \in 0..Len(seq)] == IF n = 0 THEN base ELSE Op(Upto[n - 1], seq[n])
    IN Upto[Len(seq)]
RangeOf(seq) == {seq[i] : i \in DOMAIN seq}
----------------------------------------------------------------------------
(* The lines to plan: engine/orderbook.py.                                  *)

Route(o) == Routes[ItemOf[o]]
Steps(o) == DOMAIN Route(o)
\* Rejections are netted over all the entries of a step, then clamped.
Made(g, o, s) == Cardinality({i \in DOMAIN g[<<o, s>>] : g[<<o, s>>][i].pieces = 1})
Done(g, o, s) == Greatest({0, 2 * Made(g, o, s) - Len(g[<<o, s>>])})
LeftAt(g, o, s) == QtyOf[o] - Done(g, o, s)
\* What is still to be finished: good at the last step counts (no punch is
\* taken for an item without a routing).
Remaining(g, o) == IF Route(o) = <<>> THEN QtyOf[o] ELSE LeftAt(g, o, Len(Route(o)))
Lines(book, g) == {o \in DOMAIN book : Remaining(g, o) > 0}

\* process_completed_on: the entries are walked by day (those of one day as they
\* were entered) to the last one that brought the step to the ordered quantity.
CompletedOn(g, o, s) ==
    LET entries == g[<<o, s>>]
        Earlier(i, j) == LexLess(<<entries[i].day, i>>, <<entries[j].day, j>>)
        Walk(at, i) ==
            LET now == at.run + entries[i].pieces
            IN [run |-> now,
                on  |-> IF at.run < QtyOf[o] /\ QtyOf[o] <= now THEN entries[i].day ELSE at.on]
        end == Fold(Walk, [run |-> 0, on |-> None], Sorted(DOMAIN entries, Earlier))
    IN IF end.run >= QtyOf[o] THEN end.on ELSE None

PunchDays(g) == UNION {{g[x][i].day : i \in DOMAIN g[x]} : x \in DOMAIN g}
\* effective_plan_start_date: the next working day after the last punch; the
\* configured start is day 0.
StartDay(g) ==
    IF PunchDays(g) = {} THEN 0
    ELSE LET last == Greatest(PunchDays(g))
         IN Least({d \in (last + 1)..(last + 1 + Cardinality(Holidays)) : d \notin Holidays})
----------------------------------------------------------------------------
(* Rule 1: same-item lines with near delivery dates are one batch.          *)

(* mutant: within the window of the line before it *)
GoverningByLast(dates, window) ==
    {d \in dates : \A e \in dates : e < d => d > e + window}
\* The dates that open a batch: a line joins while it is within the window of
\* the batch's governing (earliest) date.
Governing(dates, window) ==
    LET opens[d \in dates] == \A e \in dates : e < d /\ opens[e] => d > e + window
    IN {d \in dates : opens[d]}

MergedLeft(g, lines, s) == Total([o \in lines |-> LeftAt(g, o, s)])
\* D12: a step is complete for the batch when it is for every line, and then on
\* the latest of their days.
MergedDoneOn(g, lines, s) ==
    LET on == {CompletedOn(g, o, s) : o \in lines}
    IN IF None \in on THEN None ELSE Greatest(on)

BatchFor(g, lines) ==
    LET item == ItemOf[CHOOSE o \in lines : TRUE]
        steps == DOMAIN Routes[item]
    IN [qty    |-> Total([o \in lines |-> Remaining(g, o)]),
        left   |-> [s \in steps |-> MergedLeft(g, lines, s)],
        doneOn |-> [s \in steps |-> MergedDoneOn(g, lines, s)]]

Consolidate(lines, dates, g) ==
    LET ofItem(i) == {o \in lines : ItemOf[o] = i}
        opened(i) == Governing({dates[o] : o \in ofItem(i)}, Window)
        members(i, d) == {o \in ofItem(i) :
            d = Greatest({e \in opened(i) : e <= dates[o]})}
        heads == UNION {{<<i, d>> : d \in opened(i)} : i \in {ItemOf[o] : o \in lines}}
    IN {[id |-> <<0, 1 + Cardinality({h \in heads : LexLess(h, x)})>>,
         item |-> x[1], date |-> x[2], members |-> members(x[1], x[2])]
        : x \in heads}
----------------------------------------------------------------------------
(* Rules 2 and 3: by delivery date, then within each look-ahead cluster the *)
(* batch most at risk first.                                                *)

Work(item, qty) ==
    Total([s \in {x \in DOMAIN Routes[item] : Routes[item][x].machine # Vendor} |->
            Setup + Routes[item][s].cycle * qty])
CyclePerPiece(item) ==
    Total([s \in {x \in DOMAIN Routes[item] : Routes[item][x].machine # Vendor} |->
            Routes[item][s].cycle])
Available(from, to) == DayLength * Cardinality(from..(to - 1) \ Holidays)

\* The metric first, then the date, the item and the batch number.
Riskier(a, b) ==
    LET key(x) == CASE Metric = "slack"        -> x.avail - x.work
                    [] Metric = "process_time" -> -CyclePerPiece(x.item)
                    [] OTHER                   -> 0
        ratio(x, y) == Metric = "ratio" /\ y.work > 0 /\ x.work > 0
        ka == IF ratio(a, b) THEN a.avail * b.work ELSE IF Metric = "ratio" /\ a.work = 0 THEN 1 ELSE key(a)
        kb == IF ratio(a, b) THEN b.avail * a.work ELSE IF Metric = "ratio" /\ b.work = 0 THEN 1 ELSE key(b)
    IN LexLess(<<ka, a.date, a.item, a.id[2]>>, <<kb, b.date, b.item, b.id[2]>>)

Prioritized(batches, g) ==
    LET opened == IF Within = None THEN {} ELSE Governing({b.date : b \in batches}, Within)
        cluster(b) == IF Within = None THEN 0 ELSE Greatest({d \in opened : d <= b.date})
        rows == {[id |-> b.id, item |-> b.item, date |-> b.date, members |-> b.members,
                  cluster |-> cluster(b),
                  work  |-> Work(b.item, Total([o \in b.members |-> Remaining(g, o)])),
                  avail |-> Available(StartDay(g), b.date)] : b \in batches}
        Before(a, b) == a.cluster < b.cluster \/ (a.cluster = b.cluster /\ Riskier(a, b))
    IN Sorted(rows, Before)

\* A batch has the best rank of its members; None when no member is ranked.
BatchRank(b, rk) ==
    LET known == b.members \cap DOMAIN rk
    IN IF known = {} THEN None ELSE Least({rk[o] : o \in known})

\* Ranked batches are reordered among the places they hold; the others stay.
ApplyPriorityRank(seq, rk) ==
    LET slots == {i \in DOMAIN seq : BatchRank(seq[i], rk) # None}
        Before(i, j) == LexLess(<<BatchRank(seq[i], rk), i>>, <<BatchRank(seq[j], rk), j>>)
        order == Sorted(slots, Before)
        nth(i) == Cardinality({j \in slots : j <= i})
    IN [i \in DOMAIN seq |-> IF i \in slots THEN seq[order[nth(i)]] ELSE seq[i]]

\* ranks_for: every member of the i-th batch gets rank i.
RanksFor(seq) ==
    [o \in UNION {seq[i].members : i \in DOMAIN seq} |->
        CHOOSE i \in DOMAIN seq : o \in seq[i].members]
----------------------------------------------------------------------------
(* One planning pass: run_forward with the new engine's adapter.            *)

\* A batch with no routing, or with work left on a machine nobody is qualified
\* for, is left out of the schedule; it stays in the batch list.
Runnable(b, g) ==
    /\ Routes[b.item] # <<>>
    /\ \A s \in DOMAIN Routes[b.item] :
        \/ Routes[b.item][s].machine \in Staffed \cup {Vendor}
        \/ MergedLeft(g, b.members, s) = 0

\* The jobs of the published plan go in the published order, and the others
\* after them in theirs (`_ppc_pins`: a row covers a batch that shares an order).
Replayed(seq, pins) ==
    LET place(b) == LET known == b.members \cap DOMAIN pins
                    IN IF known = {} THEN None ELSE Least({pins[o] : o \in known})
        Before(i, j) ==
            LET pi == place(seq[i])  pj == place(seq[j])
            IN \/ pi # None /\ pj # None /\ LexLess(<<pi, i>>, <<pj, j>>)
               \/ pi # None /\ pj = None
               \/ pi = None /\ pj = None /\ i < j
        order == Sorted(DOMAIN seq, Before)
    IN [i \in DOMAIN seq |-> seq[order[i]]]

\* The first stretch of length len from `from` on that no interval of `taken` cuts.
FirstGap(taken, from, len) ==
    Least({t \in {from} \cup {x[2] : x \in taken} :
            t >= from /\ \A x \in taken : x[2] <= t \/ t + len <= x[1]})

\* occupancy_from_entries: what the jobs placed so far hold of a machine, with
\* the breaks on file.
Taken(rows, m) ==
    {<<x[2], x[3]>> : x \in {y \in Reserved \cup UNION {rows[k].blocks : k \in DOMAIN rows} : y[1] = m}}

\* One step of a batch, of which `left` pieces are to be made: after the step
\* before it; a finished step takes no time, a vendor counts from the day the
\* parts were sent, if that is known.
OnMachine(at, m, len, from) ==
    [ready |-> from + len, blocks |-> at.blocks \cup {<<m, from, from + len>>}]
AtVendor(at, time, sent) ==
    [at EXCEPT !.ready = IF sent = None THEN @ + time ELSE Greatest({@, sent * DayLength + time})]
LayStep(at, step, left, sent, taken) ==
    IF left <= 0 THEN at
    ELSE IF step.machine = Vendor THEN AtVendor(at, step.cycle, sent)
    ELSE LET len == Setup + step.cycle * left
         IN OnMachine(at, step.machine, len, FirstGap(taken, at.ready, len))

LayBatch(rows, before, b, made, start) ==
    LET route == Routes[b.item]
        Lay(at, s) == LayStep(at, route[s], made.left[s], IF s = 1 THEN None ELSE made.doneOn[s - 1],
                              Taken(before \o rows, route[s].machine))
        Row(laid) == [id |-> b.id, members |-> b.members, placed |-> Len(rows),
                      end |-> laid.ready, blocks |-> laid.blocks]
    IN Append(rows, Row(Fold(Lay, [ready |-> start, blocks |-> {}], [s \in DOMAIN route |-> s])))

\* `before`: the rows of the passes before this one.
Scheduled(ordered, g, pins, before) ==
    LET fits(b) == Runnable(b, g)
        Step(rows, b) == LayBatch(rows, before, b, BatchFor(g, b.members), StartDay(g) * DayLength)
    IN [batches |-> ordered,
        rows    |-> Fold(Step, <<>>, Replayed(SelectSeq(ordered, fits), pins))]
RunForward(lines, dates, g, rk, pins, before) ==
    Scheduled(ApplyPriorityRank(Prioritized(Consolidate(lines, dates, g), g), rk), g, pins, before)
----------------------------------------------------------------------------
(* `_plan`: the book, then the arrival groups one after the other.          *)

\* _split_queue: a queued order that is no longer a line drops out, and so does
\* a group that loses all of its orders.
Groups(q, lines) ==
    LET keeps(o) == o \in lines
        some(group) == group # <<>>
    IN SelectSeq([i \in DOMAIN q |-> SelectSeq(q[i], keeps)], some)
SplitQueue(q, lines, sched) ==
    IF sched = "new"
    THEN [stage1 |-> lines \ UNION {RangeOf(q[i]) : i \in DOMAIN q}, groups |-> Groups(q, lines)]
    ELSE [stage1 |-> lines, groups |-> <<>>]

(* mutant: the ranks of the saved search *)
GroupRankSaved(group) == <<>>
\* The orders of a group in the order of the arrangement that was quoted.
GroupRank(group) == [o \in RangeOf(group) |-> CHOOSE i \in DOMAIN group : group[i] = o]

\* _reid_batches: the number of a batch starts anew in every pass.
ReId(rows, i) == [k \in DOMAIN rows |-> [rows[k] EXCEPT !.id = <<i, @[2]>>]]

NoPlan == [batches |-> <<>>, rows |-> <<>>]

\* The rows an accept is planned around: all of those placed before it.
Ahead(rows) == rows

\* One more pass around all that is placed so far: the book, then each accept.
Behind(p, next, no) ==
    LET base == 1 + Greatest({-1} \cup {p.rows[k].placed : k \in DOMAIN p.rows})
        later == [k \in DOMAIN next.rows |-> [next.rows[k] EXCEPT !.placed = @ + base]]
    IN [batches |-> p.batches \o ReId(next.batches, no), rows |-> p.rows \o ReId(later, no)]

Passes(parts, rk) ==
    <<[lines |-> parts.stage1, ranks |-> rk]>> \o
    [i \in DOMAIN parts.groups |->
        [lines |-> RangeOf(parts.groups[i]), ranks |-> GroupRank(parts.groups[i])]]
Chain(passes, book, g, pins) ==
    LET Step(p, i) == Behind(p, RunForward(passes[i].lines, book, g, passes[i].ranks, pins,
                                           Ahead(p.rows)), i - 1)
    IN Fold(Step, NoPlan, [i \in DOMAIN passes |-> i])
Plan(book, g, rk, q, pins, sched) ==
    Chain(Passes(SplitQueue(q, Lines(book, g), sched), rk), book, g,
          IF sched = "new" THEN pins ELSE <<>>)

\* expected_completion: the day each scheduled order is finished.
Expected(p) ==
    LET rowsOf(o) == {k \in DOMAIN p.rows : o \in p.rows[k].members}
    IN [o \in UNION {p.rows[k].members : k \in DOMAIN p.rows} |->
            Greatest({p.rows[k].end \div DayLength : k \in rowsOf(o)})]
\* The rows of a published plan: each order with its place.
Published(p) ==
    LET rowsOf(o) == {k \in DOMAIN p.rows : o \in p.rows[k].members}
    IN [o \in UNION {p.rows[k].members : k \in DOMAIN p.rows} |->
            Least({p.rows[k].placed : k \in rowsOf(o)})]
----------------------------------------------------------------------------
(* engine/quote.py: the new lines around the plan in force.                 *)

Arrangements(n) == {f \in [1..n -> 1..n] : \A i, j \in 1..n : i # j => f[i] # f[j]}
RankOrderings(n) ==
    IF n <= Exhaustive THEN Arrangements(n)
    ELSE {[i \in 1..n |-> 1 + ((i + k - 1) % n)] : k \in 0..(n - 1)}

\* One arrangement of the new lines: who is finished when.
Stage2(lines, target, order, g, rows) ==
    LET dates == [o \in RangeOf(lines) |-> IF target[o] = None THEN StartDay(g) ELSE target[o]]
        rank == [o \in RangeOf(lines) |->
                    CHOOSE k \in DOMAIN order : lines[order[k]] = o]
    IN RunForward(RangeOf(lines), dates, g,
                  IF Len(lines) = 1 THEN <<>> ELSE rank, <<>>, rows)

\* Lower is better: lines left out, days late, the last day, the sum of the days.
Score(lines, target, expected) ==
    LET all == RangeOf(lines)
        on  == all \cap DOMAIN expected
        late(o) == IF target[o] = None \/ expected[o] <= target[o] THEN 0
                   ELSE expected[o] - target[o]
    IN <<Cardinality(all \ on), Total([o \in on |-> late(o)]),
         Greatest({0} \cup {expected[o] : o \in on}), Total([o \in on |-> expected[o]])>>

\* The first of the best arrangements wins; its order is the order of the group.
Best(lines, target, tried) ==
    LET key(x) == Score(lines, target, x.expected) \o x.order
    IN CHOOSE x \in tried : \A y \in tried \ {x} : LexLess(key(x), key(y))
Quote(lines, target, g, rows) ==
    Best(lines, target, {[order |-> f, expected |-> Expected(Stage2(lines, target, f, g, rows))]
                            : f \in RankOrderings(Len(lines))})
----------------------------------------------------------------------------
NoPunch == [x \in UNION {{<<o, s>> : s \in Steps(o)} : o \in Orders} |-> <<>>]
Init ==
    /\ due \in [Booked -> FirstDays]
    /\ archived = {} /\ good = NoPunch /\ ranks = <<>> /\ queue = <<>> /\ pinned = <<>>
    /\ scheduler \in {"new", "flow"} /\ changes = 0
    /\ plan = NoPlan /\ stale = TRUE
    /\ publishing = IF scheduler = "new" THEN "all" ELSE "no"    \* the seed
    /\ promise = <<>> /\ searched = <<>>

\* Each request plans first, so it finds a plan of the inputs as they are.
Settled == ~stale /\ publishing = "no"
Changed == stale' = TRUE /\ plan' = NoPlan

Replan ==
    /\ stale
    /\ plan' = Plan(due, good, ranks, queue, IF publishing = "all" THEN <<>> ELSE pinned, scheduler)
    /\ stale' = FALSE
    /\ UNCHANGED <<due, archived, good, ranks, queue, pinned, scheduler, changes, publishing,
                   promise, searched>>

\* The free plan is published: the seed, an applied search, the standard plan.
Publish ==
    /\ ~stale /\ publishing = "all"
    /\ pinned' = Published(plan)
    /\ publishing' = "no" /\ Changed
    /\ UNCHANGED <<due, archived, good, ranks, queue, scheduler, changes, promise, searched>>

\* _pin_new_orders: the accepted orders go behind every published job; of two
\* places of an order, one of them from before it was deleted, the first counts.
PinNew ==
    LET rows == Published(plan)
        new  == RangeOf(queue[Len(queue)]) \cap DOMAIN rows
        base == 1 + Greatest({-1} \cup {pinned[o] : o \in DOMAIN pinned})
    IN /\ ~stale /\ publishing = "new"
       /\ pinned' = [o \in DOMAIN pinned \cup new |->
                        IF o \in DOMAIN pinned THEN pinned[o] ELSE base + rows[o]]
       /\ publishing' = "no" /\ Changed
       /\ UNCHANGED <<due, archived, good, ranks, queue, scheduler, changes, promise, searched>>

Changes == Settled /\ changes < MaxChanges /\ changes' = changes + 1
Forgets == promise' = <<>> /\ searched' = <<>> /\ Changed

\* One piece made or rejected at a step, for today or an earlier day; what the
\* step has made may not pass what came good from the step before it.
Punch(o, s, d, pieces) ==
    /\ Changes /\ o \in DOMAIN due
    /\ good' = [good EXCEPT ![<<o, s>>] = Append(@, [day |-> d, pieces |-> pieces])]
    /\ Made(good', o, s) <= IF s = 1 THEN QtyOf[o] ELSE Done(good', o, s - 1)
    /\ Forgets
    /\ UNCHANGED <<due, archived, ranks, queue, pinned, scheduler, publishing>>

Without(o) == [x \in DOMAIN due \ {o} |-> due[x]]

\* Marked complete: to the archive, with its punches.
Complete(o) ==
    /\ Changes /\ o \in DOMAIN due
    /\ due' = Without(o) /\ archived' = archived \cup {o}
    /\ Forgets
    /\ UNCHANGED <<good, ranks, queue, pinned, scheduler, publishing>>

\* Deleted from either book, with its punches. Its key stays in the arrival
\* queue, the ranks and the published rows.
Delete(o) ==
    /\ Changes /\ o \in DOMAIN due \cup archived
    /\ due' = Without(o) /\ archived' = archived \ {o}
    /\ good' = [x \in DOMAIN good |-> IF x[1] = o THEN <<>> ELSE good[x]]
    /\ Forgets
    /\ UNCHANGED <<ranks, queue, pinned, scheduler, publishing>>

\* merge_upload: an unknown order is added, an active one takes the new date, a
\* completed one is left alone.
Upload(o, d) ==
    /\ Changes /\ o \notin archived /\ (o \in DOMAIN due => due[o] # d)
    /\ due' = [x \in DOMAIN due \cup {o} |-> IF x = o THEN d ELSE due[x]]
    /\ Forgets
    /\ UNCHANGED <<archived, good, ranks, queue, pinned, scheduler, publishing>>

\* The plan of a finished search is applied: any sequence of the batches that
\* can be scheduled, of the whole book, the queued orders included.
ApplySearch ==
    LET batches == {b \in Consolidate(Lines(due, good), due, good) : Runnable(b, good)}
    IN /\ Changes
       /\ \E seq \in [1..Cardinality(batches) -> batches] :
            /\ \A i, j \in DOMAIN seq : i # j => seq[i] # seq[j]
            /\ ranks' = RanksFor(seq)
            /\ searched' = [i \in DOMAIN seq |-> seq[i].members]
       /\ queue' = <<>> /\ promise' = <<>>
       /\ publishing' = "all" /\ Changed
       /\ UNCHANGED <<due, archived, good, pinned, scheduler>>

\* "Go back to standard plan"; the retired engines hold no published plan.
GoBack ==
    /\ Changes
    /\ ranks' = <<>> /\ queue' = <<>>
    /\ publishing' = IF scheduler = "new" THEN "all" ELSE "no"
    /\ Forgets
    /\ UNCHANGED <<due, archived, good, pinned, scheduler>>

\* Add New Orders: quoted against the plan in force, saved with the quoted dates
\* and queued as one group. A line is refused only if it is in one of the books,
\* so a deleted one may come back. The other schedulers cannot plan behind a
\* plan: no line gets a date, and the accept is refused.
Queued == UNION {RangeOf(queue[i]) : i \in DOMAIN queue}
Accept(lines, res) ==
    /\ RangeOf(lines) \subseteq DOMAIN res.expected
    /\ due' = [o \in DOMAIN due \cup RangeOf(lines) |->
                IF o \in DOMAIN due THEN due[o] ELSE res.expected[o]]
    /\ queue' = Append(queue, [k \in DOMAIN lines |-> lines[res.order[k]]])
    /\ promise' = [old |-> Expected(plan), new |-> res.expected,
                   requeued |-> RangeOf(lines) \cap Queued # {},
                   repinned |-> RangeOf(lines) \cap DOMAIN pinned # {}]
AddOrders(lines, target) ==
    /\ Changes /\ scheduler = "new"
    /\ RangeOf(lines) \cap (DOMAIN due \cup archived) = {}
    /\ Accept(lines, Quote(lines, target, good, plan.rows))
    /\ searched' = <<>>
    /\ publishing' = "new" /\ Changed
    /\ UNCHANGED <<archived, good, ranks, pinned, scheduler>>

\* Settings: another scheduler.
Switch ==
    /\ Changes
    /\ scheduler' = IF scheduler = "new" THEN "flow" ELSE "new"
    /\ Forgets
    /\ UNCHANGED <<due, archived, good, ranks, queue, pinned, publishing>>

Idle == Settled /\ UNCHANGED vars

Next ==
    \/ Replan \/ Publish \/ PinNew
    \/ \E o \in Orders : \E s \in Steps(o), d \in EntryDays, n \in {1, -1} : Punch(o, s, d, n)
    \/ \E o \in Orders : Complete(o) \/ Delete(o)
    \/ \E o \in Uploads, d \in Days : Upload(o, d)
    \/ ApplySearch \/ GoBack \/ Switch
    \/ \E lines \in Drafts : \E target \in [RangeOf(lines) -> Targets] : AddOrders(lines, target)
    \/ Idle

Spec == Init /\ [][Next]_vars
----------------------------------------------------------------------------
TypeOK ==
    /\ DOMAIN due \subseteq Orders /\ DOMAIN due \cap archived = {} /\ archived \subseteq Orders
    /\ \A o \in DOMAIN due : due[o] \in Nat
    /\ \A x \in DOMAIN good : good[x] \in Seq([day : EntryDays, pieces : {1, -1}])
    /\ \A i \in DOMAIN queue : RangeOf(queue[i]) \subseteq Orders
    /\ DOMAIN ranks \cup DOMAIN pinned \subseteq Orders
    /\ scheduler \in {"new", "flow"} /\ stale \in BOOLEAN
    /\ publishing \in {"no", "all", "new"}

BatchesOf(o) == {k \in DOMAIN plan.batches : o \in plan.batches[k].members}
Place(o) == CHOOSE k \in DOMAIN plan.batches : o \in plan.batches[k].members

\* In two arrival groups: it was deleted, and accepted a second time.
TwiceQueued(o) == Cardinality({i \in DOMAIN queue : o \in RangeOf(queue[i])}) > 1

(* Every line with work left is in a batch of the plan, over the book and all
   the arrival groups, and no batch has anything else, whatever was queued,
   deleted, finished, added again or dated anew and on either scheduler. It is
   in one batch only, but for the line that is queued twice, whose pieces the
   new engine plans in each of its groups (a defect, see the README).        *)
PlannedOnce ==
    ~stale =>
        /\ \A o \in Lines(due, good) :
            /\ BatchesOf(o) # {}
            /\ Cardinality(BatchesOf(o)) > 1 => scheduler = "new" /\ TwiceQueued(o)
        /\ \A k \in DOMAIN plan.batches : plan.batches[k].members \subseteq Lines(due, good)

(* No two batches on the Gantt carry one id, although each pass numbers its
   own from B001: rows are grouped by it.                                     *)
IdsUnique ==
    ~stale => /\ \A j, k \in DOMAIN plan.rows : plan.rows[j].id = plan.rows[k].id => j = k
              /\ \A j, k \in DOMAIN plan.batches : plan.batches[j].id = plan.batches[k].id => j = k

(* Rule 1: the lines of a batch are of one item and due within the window of
   its earliest date, and two batches of one item in a pass could not have
   been one.                                                                  *)
WithinWindow ==
    LET B == plan.batches
        first(k) == Least({due[o] : o \in B[k].members})
    IN ~stale =>
        /\ \A k \in DOMAIN B : \A o \in B[k].members :
            ItemOf[o] = B[k].item /\ due[o] <= first(k) + Window
        /\ \A j, k \in DOMAIN B :
            B[j].item = B[k].item /\ B[j].id[1] = B[k].id[1] /\ first(j) < first(k)
                => first(k) > first(j) + Window

(* D12: a step counts as complete for a batch, with the day its parts went to
   the vendor, exactly when none of its lines has pieces left there.          *)
SentWhenAllSent ==
    ~stale => \A k \in DOMAIN plan.rows :
        LET b == BatchFor(good, plan.rows[k].members)
        IN \A s \in DOMAIN b.left : b.doneOn[s] # None <=> b.left[s] <= 0

(* What is planned behind the book never uses a minute of a machine that the
   book, an earlier accept or a break holds (structural_violations).          *)
NoOverlap ==
    ~stale => \A j, k \in DOMAIN plan.rows :
        \A x \in plan.rows[j].blocks, y \in plan.rows[k].blocks \cup Reserved :
            x[1] = y[1] /\ (j # k \/ x # y) => x[3] <= y[2] \/ y[3] <= x[2]

(* A saved search is replayed: of two ranked lines the better one is not
   planned after the other, unless the other shares a batch with a line that
   is better still. (The new engine holds the published order instead.)       *)
RanksRespected ==
    ~stale /\ scheduler # "new" =>
        \A a, b \in DOMAIN ranks \cap Lines(due, good) :
            ranks[a] < ranks[b] /\ Place(a) > Place(b) =>
                \E c \in plan.batches[Place(b)].members \cap DOMAIN ranks : ranks[c] <= ranks[a]

(* Once a search is applied, published and replanned, the plan has its
   batches in its sequence: what was searched is what the floor gets.         *)
SearchedIsPlanned ==
    ~stale /\ searched # <<>> =>
        [k \in DOMAIN plan.rows |-> plan.rows[k].members] = searched

(* Accepting new orders moves no order that had a date: not the book, not an
   earlier accept; neither when it is planned nor when it is pinned. Unless a
   deleted line came back that an earlier accept still has in its group.     *)
AcceptMovesNobody ==
    ~stale /\ promise # <<>> /\ ~promise.requeued =>
        \A o \in DOMAIN promise.old : Expected(plan)[o] = promise.old[o]

(* The dates the director was quoted are the dates the plan then shows. Unless
   a deleted line came back that has its published place still.              *)
QuotedIsPlanned ==
    ~stale /\ promise # <<>> /\ ~promise.repinned =>
        \A o \in DOMAIN promise.new : Expected(plan)[o] = promise.new[o]

(* From the book to the plan no piece of an order is lost, nor planned twice *)
(* unless it was queued twice: batches are of one item and one window, each  *)
(* order is in one of them, a step is done when all of its lines have it, no *)
(* machine is used twice at a time, and the saved ranks are followed.        *)
BatchesSound ==
    /\ TypeOK /\ PlannedOnce /\ IdsUnique /\ WithinWindow
    /\ SentWhenAllSent /\ NoOverlap /\ RanksRespected

(* What was quoted or searched is what is planned after the accept, and an   *)
(* accept moves nobody.                                                      *)
AcceptsKept == AcceptMovesNobody /\ QuotedIsPlanned /\ SearchedIsPlanned
=============================================================================
