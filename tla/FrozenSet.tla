------------------------------ MODULE FrozenSet -----------------------------
(***************************************************************************)
(* Half-finished steps: the frozen set derived from the published plan and  *)
(* the punches (engine/freeze.py), held by every plan on the machine where  *)
(* the step was last worked on (`_ppc_frozen`, `_ppc_pins` and              *)
(* `_entries_from_schedule` of engine/new_engine.py), laid before anything  *)
(* else (`_preplace_frozen` of ppc_engine/scheduler/flow_scheduler.py), and *)
(* the setup a step pays when a published plan moves it.                    *)
(*                                                                          *)
(* One item, whose order lines Rule 1 clubs into one batch. The frozen set  *)
(* is on file: it changes when entries are done (or a search starts) and    *)
(* when a plan is published, and every request replans with it. Time is in  *)
(* units from the plan's start. A step of the free plan takes any of its    *)
(* machines; a stretch of work is laid whole in the first gap, without      *)
(* people (FlowDecoder has them). Every step is a machining step.           *)
(***************************************************************************)
EXTENDS Integers, Sequences, FiniteSets

CONSTANTS
    Lines,          \* the order lines of the item that may exist, numbers
    FirstBooks,     \* sets of them: the books to start from
    Qty,            \* pieces ordered by a line
    FirstRouting,   \* the routing: a sequence of step names
    Options,        \* step name -> its machines
    Cycle, Setup,   \* minutes per piece; config.setup_min
    Overlap,        \* config.overlap, in percent
    DayLength,
    Breaks,         \* <<machine, day>>: breaks that may be entered
    WaitsForDone,   \* a plan is published only when Done was pressed since the
                    \* last entry (the page does not enforce it)
    MaxChanges      \* a bound

None == "none"

VARIABLES
    book,       \* the active lines
    routing,
    punches,    \* line -> step -> the machines of its good pieces, in order
    down,       \* the breaks on file
    published,  \* rows of the published plan
    frozen,     \* the frozen set on file
    plan,       \* the bars of the plan on screen, in the order placed
    stale,      \* the inputs have changed since
    fresh,      \* Done, a search or a publish has seen every entry
    shown,      \* the repaired candidate on screen when it was applied
    unknown,    \* <<line, step>> punched, in no frozen row, when a plan was published
    changes

vars == <<book, routing, punches, down, published, frozen, plan, stale, fresh,
          shown, unknown, changes>>

Least(S) == CHOOSE x \in S : \A y \in S : x <= y
Greatest(S) == CHOOSE x \in S : \A y \in S : x >= y
Total(f) ==
    LET Sum[S \in SUBSET DOMAIN f] ==
            IF S = {} THEN 0 ELSE LET x == CHOOSE y \in S : TRUE IN f[x] + Sum[S \ {x}]
    IN Sum[DOMAIN f]
Fold(Op(_, _), base, seq) ==
    LET Upto[n \in 0..Len(seq)] == IF n = 0 THEN base ELSE Op(Upto[n - 1], seq[n])
    IN Upto[Len(seq)]
\* The row that starts first; the line breaks a tie.
Earliest(rows) ==
    CHOOSE r \in rows : \A x \in rows : r.start < x.start \/ (r.start = x.start /\ r.line <= x.line)
----------------------------------------------------------------------------
(* What is still to be made.                                                *)

Names == {FirstRouting[i] : i \in DOMAIN FirstRouting}
Steps == DOMAIN routing
Good(l, n) == Len(punches[l][n])
Owed(l, n) == Qty - Good(l, n)
\* active_so_lines: a line is planned until its last step has every piece.
Batch == {l \in book : Owed(l, routing[Len(routing)]) > 0}
\* The batch has no per-step count until one of its lines has an entry.
Tracked == \E l \in Batch, n \in Names : Good(l, n) > 0
BatchOwed(n) == Total([l \in Batch |-> Owed(l, n)])
Punched == {x \in Lines \X Names : Good(x[1], x[2]) > 0}
InProgress == {x \in Batch \X Names :
                x[2] \in {routing[p] : p \in Steps} /\ Good(x[1], x[2]) \in 1..(Qty - 1)}
----------------------------------------------------------------------------
(* Frozen rows and published rows become what the decoder is told.          *)

DownIn(m, until) == \E b \in down : b[1] = m /\ b[2] <= until

\* A row's step by name: its number counts only while it still names that step.
Position(row) ==
    IF \E p \in Steps : routing[p] = row.name THEN CHOOSE p \in Steps : routing[p] = row.name
    ELSE 0

\* _ppc_frozen: one operation per step, on the machine of the row that started
\* first, for all the pieces the batch owes there. In a free plan a machine that
\* is out of service when the step was due gives up its steps.
Held(rows, release) ==
    {r \in rows : /\ r.line \in Batch /\ r.remaining > 0 /\ Position(r) # 0
                  /\ BatchOwed(r.name) > 0
                  /\ ~(release /\ DownIn(r.machine, r.end \div DayLength))}
FrozenOp(rows) ==
    LET r == Earliest(rows)
    IN [name |-> routing[Position(r)], machine |-> r.machine, qty |-> BatchOwed(routing[Position(r)]),
        setup |-> \E x \in rows : x.setupFrom \notin {None, r.machine}]
FrozenOps(rows, release) ==
    LET held == Held(rows, release)
        at(p) == {r \in held : Position(r) = p}
    IN [p \in {Position(r) : r \in held} |-> FrozenOp(at(p))]

\* _ppc_pins: a step that a published row covers keeps that row's machine, while
\* it is one of the step's machines; several rows of a step are one pin.
Pins(rows) ==
    LET covers == {r \in rows : /\ r.refs \cap Batch # {} /\ Position(r) # 0
                                /\ r.machine \in Options[routing[Position(r)]]}
        at(p) == {r \in covers : Position(r) = p}
        first(p) == CHOOSE r \in at(p) : \A x \in at(p) : r.start <= x.start
    IN [p \in {Position(r) : r \in covers} |-> first(p).machine]
----------------------------------------------------------------------------
(* decode, for one batch. A bar: [at, machine, qty, from, setup, held,      *)
(* start, end]; `from` is the step a resumed part is past (0: none).        *)

Taken(bars, m) ==
    {<<bars[i].start, bars[i].end>> : i \in {j \in DOMAIN bars : bars[j].machine = m}} \cup
    {<<b[2] * DayLength, (b[2] + 1) * DayLength>> : b \in {x \in down : x[1] = m}}
FirstGap(taken, from, len) ==
    Least({t \in {from} \cup {x[2] : x \in taken} :
            t >= from /\ \A x \in taken : x[2] <= t \/ t + len <= x[1]})
\* Laid again later when it would be finished before `floor` (piece flow).
Lay(taken, gate, len, floor) ==
    LET t == FirstGap(taken, gate, len)
    IN IF t + len < floor THEN FirstGap(taken, floor - len, len) ELSE t

\* _ready_after: the next step may begin once this one is far enough.
ReadyAfter(start, setup, qty, n, paced) ==
    IF Overlap > 0 /\ qty > 0
    THEN Least({start + setup + (qty * Cycle[n] * (100 - Overlap)) \div 100, paced})
    ELSE paced

Start == [bars |-> <<>>, next |-> 1, ready |-> 0, prevEnd |-> 0,
          left |-> <<>>, laid |-> {}, resumeReady |-> 0, resumeEnd |-> 0, resumed |-> <<>>]
\* Pieces still to make at a step, net of a part that was resumed.
Left(st, p) == IF p \in DOMAIN st.left THEN st.left[p] ELSE BatchOwed(routing[p])
With(f, p, v) == [q \in DOMAIN f \cup {p} |-> IF q = p THEN v ELSE f[q]]

Bar(p, m, qty, from, setup, held, t, len) ==
    [at |-> p, machine |-> m, qty |-> qty, from |-> from, setup |-> setup, held |-> held,
     start |-> t, end |-> t + len]

\* With a step before it still owing pieces, only what is past that step resumes;
\* the main loop makes the rest, in routing order.
Resume(st, p, op, blocker) ==
    LET qty == Left(st, p) - Left(st, blocker)
        len == qty * Cycle[op.name] + IF op.setup THEN Setup ELSE 0
        t   == Lay(Taken(st.bars, op.machine), st.resumeReady, len, st.resumeEnd)
        paced == Greatest({t + len, st.resumeEnd})
    IN IF qty <= 0 THEN st
       ELSE [st EXCEPT
            !.bars = Append(@, Bar(p, op.machine, qty, blocker, op.setup, TRUE, t, len)),
            !.left = With(@, p, Left(st, blocker)),
            !.resumed = With(@, p, paced),
            !.resumeEnd = paced,
            !.resumeReady = ReadyAfter(t, IF op.setup THEN Setup ELSE 0, qty, op.name, paced)]
Whole(st, p, op) ==
    LET len == op.qty * Cycle[op.name] + IF op.setup THEN Setup ELSE 0
        t   == Lay(Taken(st.bars, op.machine), st.ready, len, st.prevEnd)
        paced == Greatest({t + len, st.prevEnd})
    IN [st EXCEPT
            !.bars = Append(@, Bar(p, op.machine, op.qty, 0, op.setup, TRUE, t, len)),
            !.laid = @ \cup {p},
            !.prevEnd = paced,
            !.next = Greatest({@, p + 1}),
            !.ready = Greatest({@, ReadyAfter(t, IF op.setup THEN Setup ELSE 0, op.qty,
                                              op.name, paced)})]
(* mutant: a step in progress is past all the steps before it *)
BlockersNone(st, p) == {}
\* Steps before it that still owe pieces and that this pass has not laid; a batch
\* nobody has punched holds nothing back.
Blockers(st, p) == IF Tracked THEN {q \in 1..(p - 1) : q \notin st.laid /\ Left(st, q) > 0} ELSE {}
\* One operation of _preplace_frozen; those of one batch go in routing order.
Preplace(st, p, op) ==
    LET blockers == Blockers(st, p)
    IN IF blockers = {} THEN Whole(st, p, op) ELSE Resume(st, p, op, Greatest(blockers))

Paced(st, p, end) ==
    Greatest({end, st.prevEnd} \cup IF p \in DOMAIN st.resumed THEN {st.resumed[p]} ELSE {})
\* The main loop: whatever is left of a step, after the step before it. A pinned
\* step never goes in front of the frozen ones of its machine.
Turn(st, p, m, waits) ==
    Greatest({st.ready} \cup IF waits THEN {st.bars[i].end : i \in {j \in DOMAIN st.bars :
                                              st.bars[j].held /\ st.bars[j].machine = m}} ELSE {})
LayLeft(st, p, qty, t, m) ==
    LET len == Setup + qty * Cycle[routing[p]]
        paced == Paced(st, p, t + len)
    IN [st EXCEPT
            !.bars = Append(@, Bar(p, m, qty, 0, TRUE, FALSE, t, len)),
            !.prevEnd = paced,
            !.ready = ReadyAfter(t, Setup, qty, routing[p], paced)]
LayNext(st, p, m, waits) ==
    LET qty == Left(st, p)
        len == Setup + qty * Cycle[routing[p]]
    IN IF qty <= 0
       THEN [st EXCEPT !.prevEnd = Paced(st, p, st.ready), !.ready = Paced(st, p, st.ready)]
       ELSE LayLeft(st, p, qty, Lay(Taken(st.bars, m), Turn(st, p, m, waits), len, st.prevEnd), m)

\* ops: the frozen operations; pins: step -> machine; choice: step name -> machine.
Decode(ops, pins, choice) ==
    LET Pre(st, p) == IF p \in DOMAIN ops THEN Preplace(st, p, ops[p]) ELSE st
        Main(st, p) ==
            IF p < st.next THEN st
            ELSE IF p \in DOMAIN pins THEN LayNext(st, p, pins[p], p \notin DOMAIN ops)
            ELSE LayNext(st, p, choice[routing[p]], FALSE)
        all == [p \in Steps |-> p]
    IN IF Batch = {} THEN <<>> ELSE Fold(Main, Fold(Pre, Start, all), all).bars
----------------------------------------------------------------------------
(* The rows of a plan, and the frozen set of the rows: engine/freeze.py.    *)

\* _refs: whose pieces a bar has. Only in a batch with a split step do the lines
\* differ: those past the blocker, those at it, those before it.
Refs(bars, b) ==
    LET split == {i \in DOMAIN bars : bars[i].from # 0}
        past(q) == {l \in Batch : Owed(l, routing[b.at]) - Owed(l, routing[q]) > 0}
        owing(p) == {l \in Batch : Owed(l, routing[p]) > 0}
        parts == {i \in split : bars[i].at = b.at}
        mine == IF b.from # 0 THEN past(b.from)
                ELSE IF parts # {} THEN owing(bars[CHOOSE i \in parts : TRUE].from)
                ELSE IF \E i \in split : b.at <= bars[i].from THEN owing(b.at)
                ELSE Batch
    IN IF mine = {} THEN Batch ELSE mine

\* The bar shows at least as late an end as the bars of the steps before it.
ShownEnd(bars, b) ==
    Greatest({b.end} \cup IF b.from # 0 THEN {}
                          ELSE {bars[i].end : i \in {j \in DOMAIN bars :
                                    bars[j].from = 0 /\ bars[j].at < b.at}})
\* schedule_projection
Rows(bars) ==
    {[name |-> routing[b.at], seq |-> b.at, machine |-> b.machine, refs |-> Refs(bars, b),
      start |-> b.start, end |-> ShownEnd(bars, b), moved |-> <<>>]
        : b \in {bars[i] : i \in DOMAIN bars}}

\* Where a step in progress was last worked on, as far as the frozen set knows.
LastKnown(old, l, n) ==
    LET rows == {f \in old : f.line = l /\ f.name = n}
    IN IF rows = {} THEN None
       ELSE LET f == CHOOSE x \in rows : TRUE
            IN IF f.setupFrom # None THEN f.setupFrom ELSE f.machine
\* mark_moved: a published row remembers, for each line, the machine its step was
\* moved from and the count at that moment.
MarkMoved(rows, old) ==
    {[r EXCEPT !.moved =
        [l \in {x \in r.refs : LastKnown(old, x, r.name) \notin {None, r.machine}} |->
            [from |-> LastKnown(old, l, r.name), good |-> Good(l, r.name)]]] : r \in rows}

\* The move is still to be paid for until the step is punched again.
OwesSetup(row, l) == l \in DOMAIN row.moved /\ row.moved[l].good = Good(l, row.name)
\* compute_frozen_set
FrozenRow(row, l) ==
    [line |-> l, name |-> row.name, seq |-> Position(row), machine |-> row.machine,
     remaining |-> Owed(l, row.name), start |-> row.start, end |-> row.end,
     setupFrom |-> IF OwesSetup(row, l) THEN row.moved[l].from ELSE None]
ComputeFrozen(rows) ==
    LET of(x) == {r \in rows : r.name = x[2] /\ x[1] \in r.refs}
        first(S) == CHOOSE r \in S : \A y \in S : r.start < y.start \/ (r.start = y.start /\ r.end <= y.end)
    IN {FrozenRow(first(of(x)), x[1]) : x \in {y \in InProgress : of(y) # {}}}
----------------------------------------------------------------------------
Choices == {c \in [Names -> UNION {Options[n] : n \in Names}] : \A n \in Names : c[n] \in Options[n]}
FreePlan(choice) == Decode(FrozenOps(frozen, TRUE), <<>>, choice)
\* The repair of a published plan with a frozen set: its steps keep their machines.
Repaired(rows, fz, choice) == Decode(FrozenOps(fz, rows = {}), Pins(rows), choice)

Init ==
    /\ book \in FirstBooks
    /\ routing = FirstRouting
    /\ punches = [l \in Lines |-> [n \in Names |-> <<>>]]
    /\ down = {} /\ published = {} /\ frozen = {}
    /\ plan = <<>> /\ stale = TRUE /\ fresh = TRUE
    /\ shown = <<>> /\ unknown = {} /\ changes = 0

Settled == ~stale /\ published # {}
Changes == Settled /\ changes < MaxChanges /\ changes' = changes + 1
Forgets == stale' = TRUE /\ plan' = <<>> /\ shown' = <<>>

Replan ==
    /\ stale
    /\ \E choice \in Choices : plan' = Repaired(published, frozen, choice)
    /\ stale' = FALSE
    /\ UNCHANGED <<book, routing, punches, down, published, frozen, fresh, shown, unknown, changes>>

\* Go-live: the plan on screen becomes the published one.
Seed ==
    /\ ~stale /\ published = {}
    /\ published' = Rows(plan)
    /\ Forgets
    /\ UNCHANGED <<book, routing, punches, down, frozen, fresh, unknown, changes>>

\* A good piece, on the machine the plan has it on.
Punch(l, n) ==
    /\ Changes /\ l \in Batch
    /\ \E p \in Steps :
        /\ routing[p] = n
        /\ Good(l, n) < IF p = 1 THEN Qty ELSE Good(l, routing[p - 1])
        /\ \E i \in DOMAIN plan :
            /\ plan[i].at = p /\ l \in Refs(plan, plan[i])
            /\ punches' = [punches EXCEPT ![l][n] = Append(@, plan[i].machine)]
    /\ fresh' = FALSE /\ Forgets
    /\ UNCHANGED <<book, routing, down, published, frozen, unknown>>

\* An entry is taken back, if no later step has used its piece; any entry of the
\* last day may be.
Rollback(l, n) ==
    /\ Changes /\ l \in book
    /\ \A p \in Steps : p > 1 /\ routing[p - 1] = n => Good(l, routing[p]) < Good(l, n)
    /\ \E i \in DOMAIN punches[l][n] :
        punches' = [punches EXCEPT ![l][n] =
                        [k \in 1..(Len(@) - 1) |-> IF k < i THEN @[k] ELSE @[k + 1]]]
    /\ fresh' = FALSE /\ Forgets
    /\ UNCHANGED <<book, routing, down, published, frozen, unknown>>

\* "Done entering", or a search starts.
Done ==
    /\ Settled /\ ~fresh
    /\ frozen' = ComputeFrozen(published)
    /\ fresh' = TRUE /\ Forgets
    /\ UNCHANGED <<book, routing, punches, down, published, unknown, changes>>

(* mutant: the frozen set on file is kept *)
PublishKeeps(choice) ==
    LET rows == MarkMoved(Rows(FreePlan(choice)), frozen)
    IN /\ Settled /\ (WaitsForDone => fresh) /\ Batch # {}
       /\ published' = rows
       /\ shown' = Repaired(rows, ComputeFrozen(rows), choice)
       /\ unknown' = unknown \cup {x \in Punched : ~\E f \in frozen : <<f.line, f.name>> = x}
       /\ stale' = TRUE /\ plan' = <<>> /\ fresh' = TRUE
       /\ UNCHANGED <<book, routing, punches, down, changes, frozen>>
\* A searched plan is applied, or the standard plan: the free plan is published
\* and its frozen set saved with it; the panel has shown the repair of the two.
Publish(choice) ==
    LET rows == MarkMoved(Rows(FreePlan(choice)), frozen)
    IN /\ Settled /\ (WaitsForDone => fresh) /\ Batch # {}
       /\ published' = rows /\ frozen' = ComputeFrozen(rows)
       /\ shown' = Repaired(rows, ComputeFrozen(rows), choice)
       /\ unknown' = unknown \cup {x \in Punched : ~\E f \in frozen : <<f.line, f.name>> = x}
       /\ stale' = TRUE /\ plan' = <<>> /\ fresh' = TRUE
       /\ UNCHANGED <<book, routing, punches, down, changes>>

Upload(l) ==
    /\ Changes /\ l \notin book
    /\ book' = book \cup {l}
    /\ Forgets
    /\ UNCHANGED <<routing, punches, down, published, frozen, fresh, unknown>>

\* A machine is out of service on a day, or the entry is deleted.
Break(b) ==
    /\ Changes
    /\ down' = IF b \in down THEN down \ {b} ELSE down \cup {b}
    /\ Forgets
    /\ UNCHANGED <<book, routing, punches, published, frozen, fresh, unknown>>

\* A step nobody has punched is taken out of the routing, or put back.
Edit(n) ==
    /\ Changes
    /\ LET has == \E p \in Steps : routing[p] = n
           keep(m) == IF has THEN m # n /\ \E p \in Steps : routing[p] = m
                      ELSE m = n \/ \E p \in Steps : routing[p] = m
           after == {m \in Names : \E i, j \in DOMAIN FirstRouting :
                        i < j /\ FirstRouting[i] = n /\ FirstRouting[j] = m}
       IN /\ \A l \in book : Good(l, n) = 0 /\ (has \/ \A m \in after : Good(l, m) = 0)
          /\ routing' = SelectSeq(FirstRouting, keep)
          /\ routing' # <<>>
    /\ Forgets
    /\ UNCHANGED <<book, punches, down, published, frozen, fresh, unknown>>

Idle == Settled /\ UNCHANGED vars

Next ==
    \/ Replan \/ Seed \/ Done
    \/ \E l \in Lines, n \in Names : Punch(l, n) \/ Rollback(l, n)
    \/ \E choice \in Choices : Publish(choice)
    \/ \E l \in Lines : Upload(l)
    \/ \E b \in Breaks : Break(b)
    \/ \E n \in Names : Edit(n)
    \/ Idle

Spec == Init /\ [][Next]_vars
----------------------------------------------------------------------------
(* The checks every plan is shown with: _report_for_book.                   *)

\* batch_quantity_violations: steps of the routing that fall short of what is
\* owed, by the biggest bar and by their sum.
QuantityAlerts ==
    {p \in Steps :
        LET qty == [i \in {j \in DOMAIN plan : plan[j].at = p} |-> plan[i].qty]
        IN Total(qty) < BatchOwed(routing[p]) /\ \A i \in DOMAIN qty : qty[i] < BatchOwed(routing[p])}

\* routing_order_violations: steps that start before the one that feeds them, or
\* are shown to end before it. A resumed part has nothing to wait for.
OrderAlerts ==
    LET bars(p) == {plan[i] : i \in {j \in DOMAIN plan : plan[j].at = p /\ plan[j].from = 0}}
        laid == {p \in Steps : bars(p) # {}}
        begin(p) == Least({b.start : b \in bars(p)})
        finish(p) == Greatest({ShownEnd(plan, b) : b \in bars(p)})
        early(p, q) == \/ begin(p) < begin(q) \/ finish(p) < finish(q)
                       \/ begin(p) = begin(q) /\ finish(q) > begin(q)
    IN {p \in laid : \E q \in laid : q < p /\ (\A r \in laid : r <= q \/ p <= r) /\ early(p, q)}
----------------------------------------------------------------------------
TypeOK ==
    /\ book \subseteq Lines
    /\ \A l \in Lines, n \in Names :
        /\ Good(l, n) \in 0..Qty
        /\ \A i \in DOMAIN punches[l][n] : punches[l][n][i] \in Options[n]
    /\ \A p \in Steps \ {1} : \A l \in Lines : Good(l, routing[p]) <= Good(l, routing[p - 1])
    /\ down \subseteq Breaks /\ unknown \subseteq Lines \X Names
    /\ \A f \in frozen : f.line \in Lines /\ f.remaining \in 1..Qty
    /\ stale \in BOOLEAN /\ fresh \in BOOLEAN

BarsAt(p) == {i \in DOMAIN plan : plan[i].at = p}

(* Every step of the plan makes exactly the pieces its batch owes there, in one
   bar or two, whatever is frozen, punched, clubbed in or taken back since.     *)
PiecesKept ==
    ~stale /\ Batch # {} /\ (fresh \/ Tracked) =>
        \A p \in Steps : Total([i \in BarsAt(p) |-> plan[i].qty]) = BatchOwed(routing[p])

(* A pinned step never lets its batch skip a step the batch still owes.        *)
NeverSkips ==
    ~stale /\ Batch # {} => \A p \in Steps : BatchOwed(routing[p]) > 0 => BarsAt(p) # {}

(* No bar is finished before the step that feeds it has delivered its pieces,
   and the rest of a split step starts after the step before it. (A batch whose
   entries have all been taken back since Done: NeverSkips.)                   *)
FlowKept ==
    LET by(p, t) == Total([l \in Batch |-> Good(l, routing[p])])
                    + Total([i \in {j \in BarsAt(p) : plan[j].end <= t} |-> plan[i].qty])
    IN ~stale /\ (fresh \/ Tracked) => \A p \in Steps \ {1} : \A i \in BarsAt(p) :
        /\ by(p, plan[i].end) <= by(p - 1, plan[i].end)
        /\ \A j \in BarsAt(p - 1) :
            plan[i].from = 0 /\ plan[j].from = 0 => plan[j].start < plan[i].start

(* A bar that pays no setup runs on the machine where its step was last worked
   on, for one of its lines: a published plan that moves a half-finished step
   charges the setup until the step is punched again.                          *)
MovedPaysSetup ==
    ~stale => \A i \in DOMAIN plan : plan[i].held /\ ~plan[i].setup =>
        LET n == routing[plan[i].at]
        IN \/ \E l \in Batch : Good(l, n) > 0 /\ punches[l][n][Good(l, n)] = plan[i].machine
           \/ \E l \in Batch : <<l, n>> \in unknown
           \/ ~fresh

(* The report tells the truth: pieces a stale frozen row keeps out of the plan
   (NeverSkips) are reported at their step, and a batch that is planned right
   raises no alarm, of quantity or of order, however its steps were resumed.   *)
ReportHonest ==
    ~stale =>
        /\ QuantityAlerts = {p \in Steps : Total([i \in BarsAt(p) |-> plan[i].qty]) < BatchOwed(routing[p])}
        /\ fresh \/ Tracked => QuantityAlerts = {} /\ OrderAlerts = {}

(* Every bar is on a machine the published plan gave that step.                *)
HoldsPublished ==
    ~stale => \A i \in DOMAIN plan :
        LET rows == {r \in published : r.name = routing[plan[i].at] /\ r.refs \cap Batch # {}}
        IN rows # {} => plan[i].machine \in {r.machine : r \in rows}

(* The plan the panel showed is the plan the floor gets once it is applied.    *)
PanelIsFloor == ~stale /\ shown # <<>> => plan = shown

(* A plan around the frozen set makes every piece once, none before the step *)
(* before it made it, pays the setup of a step it moves, and its report      *)
(* names what it could not plan.                                             *)
FrozenSound == TypeOK /\ PiecesKept /\ FlowKept /\ MovedPaysSetup /\ ReportHonest

(* The floor: bars stay on the published machines, and the plan that is      *)
(* published is the one the panel showed.                                    *)
FloorKept == HoldsPublished /\ PanelIsFloor
=============================================================================
