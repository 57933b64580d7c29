----------------------------- MODULE FlowDecoder -----------------------------
(***************************************************************************)
(* The scheduler: ppc_engine/scheduler/flow_scheduler.py, decode, with the  *)
(* staffing board, the working windows and the duration rule it calls.      *)
(*                                                                         *)
(* One step of the model places one operation, as one turn of decode's loop *)
(* does.  A behaviour is the life of a plan: a fresh plan, its publication, *)
(* a repair of it (the published steps pinned to machine, order and person) *)
(* on a shop that may have changed since, and the second stage that fits    *)
(* new orders around the finished plan.                                     *)
(*                                                                         *)
(* Time is in whole ticks.  The windows of a machine are those of           *)
(* WorkCalendar; who is on which shift, who may run what, who is on leave    *)
(* and what is out of service are the shop's settings.  In-progress (frozen) *)
(* steps are FrozenSet's.                                                   *)
(***************************************************************************)
EXTENDS WorkCalendar

CONSTANTS
    Jobs,            \* order keys, numbered in priority order (`sequence`)
    NewJobs,         \* the orders typed later, planned by the second stage
    FirstOrders,     \* the sets of orders a first plan may be made of
    Books,           \* the routings of the orders: sequences of [kind, on, cycle]
    Qty,             \* pieces per order
    Machines,
    People,          \* numbered in name order
    Shops,           \* settings: [skill, base, leave, down]: the machines and the
                     \* shift of each person, leave and machine breaks
    Home,            \* the settings the first plan is made under
    Starts,          \* plan starts a repair may run at
    Setup,           \* setup_min of a machining operation
    OverlapPct,      \* overlap between in-house operations, in percent
    MinStretch,      \* _MIN_STRETCH_MIN
    LateTolerance,   \* _LATE_TOLERANCE
    GuardPasses,     \* passes of the piece-flow guard
    Horizon          \* the end of the last window: stands for an open end

InHouse == {"machining", "manual", "inspection"}
Operation == [kind : InHouse \cup {"outsourced", "dispatch"}, on : Seq(Machines), cycle : Nat]
Nobody == 0
NoMachine == "no machine"
Unrunnable == "unrunnable"

ASSUME DecoderAssumption ==
    /\ Jobs \subseteq Nat /\ IsFiniteSet(Jobs)
    /\ NewJobs \subseteq Jobs /\ FirstOrders \subseteq SUBSET (Jobs \ NewJobs)
    /\ IsFiniteSet(Machines) /\ {NoMachine, Unrunnable} \cap Machines = {}
    /\ People \subseteq Nat \ {Nobody}
    /\ Books \subseteq [Jobs -> Seq(Operation)]
    /\ \A s \in Shops : s.skill \in [People -> SUBSET Machines] /\ s.base \in [People -> {"day", "night"}]
    /\ Home \in Shops /\ 0 \in Starts /\ Starts \subseteq Nat
    /\ {Qty, Setup, MinStretch, LateTolerance, GuardPasses, Horizon} \subseteq Nat
    /\ OverlapPct \in 0..100

VARIABLES
    phase,           \* "plan", "repair", "quote" or "failed"
    route,           \* the routing of each order
    orders,          \* the orders this decode plans
    shop,            \* the settings in force
    today,           \* config.plan_start
    left,            \* process_remaining: pieces owed per step
    sent,            \* os_sent: when the parts of the next step left, or NotSent
    pins,            \* step -> PinnedOp
    idx, ready, prevEnd,     \* idx_of, ready_of, prev_end_of
    spans,           \* machine_spans
    booked,          \* StaffingBoard._intervals
    manned,          \* StaffingBoard._assign
    occupied,        \* calendar.machine_busy
    placed,          \* step -> its placement
    log,             \* the steps in the order they were placed
    published        \* [placed, log] of the plan the previous stage made

request == <<phase, orders, shop, today, left, sent, pins, occupied, published>>
board == <<idx, ready, prevEnd, spans, booked, manned, placed, log>>
vars == <<route, request, board>>

NotSent == -1
Nothing == [x \in {} |-> x]
Windows == [m \in Machines |-> IterWindows(m)]
Shifts == UNION {{Windows[m][n].shift : n \in DOMAIN Windows[m]} : m \in Machines}

-----------------------------------------------------------------------------
(* Order of tuples, and the least of a set by a key: Python's min(key=...). *)

Before(a, b) == \E n \in DOMAIN a : a[n] < b[n] /\ \A m \in 1..(n - 1) : a[m] = b[m]
Least(S, Key(_)) == CHOOSE x \in S : \A y \in S \ {x} : Before(Key(x), Key(y))

(* A loop: n turns from x on. *)
Loop(n, Turn(_, _), x) ==
    LET after[i \in 0..n] == IF i = 0 THEN x ELSE Turn(after[i - 1], i) IN after[n]

-----------------------------------------------------------------------------
(* Who runs a machine in a window. *)

(* build_machine_pools: the people who could ever run it, scarce first. *)
Pool(m) == {p \in People : m \in shop.skill[p]}

(* Nobody changes shift by themselves: _plan_config gives no week_anchor. *)
EffectiveShift(p) == shop.base[p]

Eligible(m, shift) ==
    {p \in Pool(m) : EffectiveShift(p) = shift[2] /\ IsOperatorAvailable(shop.leave, p, shift[1])}

(* The stretches long enough in which somebody may man m. *)
Stretches(m, shift, at, until, remaining, owner) ==
    UNION {{[who |-> p, at |-> g[1], to |-> g[2]] :
              g \in {x \in Gaps(booked[p], at, until) : x[2] - x[1] >= Min({MinStretch, remaining})}} :
           p \in (Eligible(m, shift) \cup {owner}) \ {Nobody}}

(* _next_stretch: earliest start first, on a tie the machine's own operator,
   then scarce, then name. *)
NextStretch(found, owner) ==
    Least(found, LAMBDA c : <<c.at, IF c.who = owner THEN 0 ELSE 1, Cardinality(shop.skill[c.who]), c.who>>)

Manning(work, shift, s) ==
    LET end == Min({s.to, s.at + work.left})
    IN [at |-> end, left |-> work.left - (end - s.at),
        segs |-> Append(work.segs, [start |-> s.at, end |-> end, who |-> s.who, shift |-> shift])]

(* The inner loop of _lay_windows: stretch by stretch through one window. *)
ManNext(m, shift, until, st) ==
    LET found == IF st.work.left = 0 THEN {}
                 ELSE Stretches(m, shift, st.work.at, until, st.work.left, st.owner)
        s == NextStretch(found, st.owner)
    IN IF found = {} THEN st ELSE [work |-> Manning(st.work, shift, s), owner |-> s.who]
Man(m, shift, until, work, preferred) ==
    LET owner == IF preferred # Nobody THEN preferred ELSE manned[<<m, shift>>]
    IN Loop(work.left, LAMBDA st, i : ManNext(m, shift, until, st), [work |-> work, owner |-> owner]).work

(* The person the published plan had in this window while they may still man
   the machine there, else its first operator if they may: _lay_frozen. *)
Preferred(pin, m, w) ==
    LET then == {g \in pin.staff : /\ g.start < w.end /\ g.end > w.start
                                   /\ g.who \in Eligible(m, w.shift)}
    IN IF then # {} THEN Least(then, LAMBDA g : <<g.start>>).who
       ELSE IF pin.who \in Eligible(m, w.shift) THEN pin.who
       ELSE Nobody

NoPin == [staff |-> {}, who |-> Nobody]

(* _lay_windows: lay `work` on m in its windows, one after the other, that
   fall in the stretch `run`.  What did not fit is in `left`.  The walk starts
   on the day the stretch does: a night that began the day before, and is not
   over, is not among its windows. *)
Walked(m, run, w) ==
    /\ w.start < run[2] /\ w.end > run[1] /\ w.shift[1] >= DayOf(run[1])
    /\ IsMachineAvailable(shop.down, m, w.shift[1])
LayWindow(m, run, pin, work, w) ==
    LET at == [work EXCEPT !.at = Max({work.at, w.start})]
        got == Man(m, w.shift, Min({w.end, run[2]}), at, Preferred(pin, m, w))
    IN IF work.left = 0 \/ ~Walked(m, run, w) THEN work
       ELSE [got EXCEPT !.at = Max({@, w.end})]
LayWindows(m, run, work, pin) ==
    Loop(Len(Windows[m]), LAMBDA st, n : LayWindow(m, run, pin, st, Windows[m][n]),
         [work EXCEPT !.at = run[1]])

(* Mutant: only an earlier stage's time keeps a job whole. *)
WholeWhenOccupied(m, kind) == occupied[m] # {}

(* _lay_around.  Machining, and any work on a machine an earlier stage
   occupies, takes the first free run that holds it whole; other work runs
   around the jobs already there. *)
Whole(m, kind) == kind = "machining" \/ occupied[m] # {}

LayInNext(m, kind, pin, st) ==
    LET run == CHOOSE r \in st.runs : \A x \in st.runs : r[1] <= x[1]
        got == LayWindows(m, run, st.work, pin)
    IN IF st.runs = {} \/ st.work.left = 0 THEN st
       ELSE [runs |-> st.runs \ {run},
             work |-> IF ~Whole(m, kind) \/ got.left = 0 THEN got ELSE st.work]
LayAround(m, kind, runs, work, pin) ==
    Loop(Cardinality(runs), LAMBDA st, i : LayInNext(m, kind, pin, st), [runs |-> runs, work |-> work]).work

(* calendar.free_runs, and _free_runs, which knows this plan's jobs as well. *)
FreeRuns(m, from) == Gaps(spans[m] \cup occupied[m], from, Horizon)

LayOn(m, from, dur, kind, pin) ==
    LayAround(m, kind, FreeRuns(m, from),
              [at |-> from, left |-> dur, segs |-> <<>>], pin)

-----------------------------------------------------------------------------
(* Where an order's next operation would go. *)

Step(k) == <<k, idx[k]>>
Op(s) == route[s[1]][s[2]]
Owed(s) == left[s[1]][s[2]]
Remaining == {k \in orders : idx[k] <= Len(route[k])}

(* operation_duration_min *)
Duration(s) ==
    LET op == Op(s)
    IN IF Owed(s) = 0 THEN 0
       ELSE CASE op.kind = "machining" -> Setup + Owed(s) * op.cycle
              [] op.kind \in {"manual", "inspection"} -> Owed(s) * op.cycle
              [] op.kind = "outsourced" -> op.cycle
              [] op.kind = "dispatch" -> 0

(* The parts of an outsourced step that is owed, after a step that is not,
   are at the vendor since sent[k]. *)
AtVendor(s) ==
    /\ Op(s).kind = "outsourced" /\ Owed(s) > 0 /\ s[2] > 1
    /\ Owed(<<s[1], s[2] - 1>>) = 0 /\ sent[s[1]] # NotSent

Milestone(from, end) == [machine |-> NoMachine, start |-> from, end |-> end, segs |-> <<>>]

(* The machine that finishes soonest, the first of the step's on a tie. *)
Soonest(op, runnable) ==
    LET best == Least(runnable, LAMBDA x : <<Last(x.work.segs).end, x.option>>)
    IN IF runnable = {} THEN [machine |-> Unrunnable, start |-> 0, end |-> Horizon, segs |-> <<>>]
       ELSE [machine |-> op.on[best.option], start |-> Head(best.work.segs).start,
             end |-> Last(best.work.segs).end, segs |-> best.work.segs]

(* _place_operation: the published machine only for a pinned step. *)
PlaceOperation(k, from) ==
    LET s == Step(k)
        op == Op(s)
        pinned == s \in DOMAIN pins
        options == {n \in DOMAIN op.on : pinned => op.on[n] = pins[s].machine}
        laid == {[option |-> n, work |-> LayOn(op.on[n], Max({from, today}), Duration(s), op.kind,
                                               IF pinned THEN pins[s] ELSE NoPin)] : n \in options}
    IN CASE Duration(s) = 0 -> Milestone(from, from)
         [] op.kind = "outsourced" /\ Duration(s) > 0 ->
              Milestone(from, IF AtVendor(s) THEN Max({from, sent[k] + op.cycle})
                              ELSE from + op.cycle)
         [] OTHER -> Soonest(op, {x \in laid : x.work.left = 0})

(* _guarded: work may not end before the step that feeds it delivered. *)
PushOn(k, p) ==
    IF p.machine \in {NoMachine, Unrunnable} \/ p.end >= prevEnd[k] THEN p
    ELSE PlaceOperation(k, p.start + (prevEnd[k] - p.end))

(* Mutant: no piece-flow guard. *)
NotGuarded(k, p) == p
Guarded(k, p) == Loop(GuardPasses, LAMBDA pushed, i : PushOn(k, pushed), p)

-----------------------------------------------------------------------------
(* Which order's operation goes next. *)

(* Giffler-Thompson (no caller asks for the legacy rule). *)
FreshPick(pl) ==
    LET crit == Least(Remaining, LAMBDA k : <<pl[k].end, k>>)
        contending == {k \in Remaining : /\ pl[k].machine = pl[crit].machine
                                         /\ pl[k].start < pl[crit].end}
    IN IF pl[crit].machine = NoMachine THEN crit ELSE Min(contending)

(* The steps queued on a machine by the published plan: pinned, still owed. *)
Queued(s) == s \in DOMAIN pins /\ Owed(s) > 0
Queue(m) == {s \in DOMAIN pins : Queued(s) /\ pins[s].machine = m}
OrderKey(s) == <<pins[s].rank, pins[s].start>>

(* Mutant: pinned steps go in priority order. *)
ReplayKeyByPriority(k, pl) ==
    IF pl[k].machine = NoMachine THEN <<0, 0, pl[k].start, k>>
    ELSE IF Step(k) \in DOMAIN pins THEN <<1, 0, 0, k>>
    ELSE <<2, 0, pl[k].start, k>>

ReplayKey(k, pl) ==
    IF pl[k].machine = NoMachine THEN <<0, 0, pl[k].start, k>>
    ELSE IF Step(k) \in DOMAIN pins THEN <<1, pins[Step(k)].rank, pins[Step(k)].start, k>>
    ELSE <<2, 0, pl[k].start, k>>

Reached(k) == Max({ready[k], today})
Late(k) == Queued(Step(k)) /\ Reached(k) > pins[Step(k)].start + LateTolerance

(* Would placing g put it in front of a step queued on its machine earlier in
   the published order, other than one that is late and not ready by then? *)
JumpsItsMachine(g, pl) ==
    /\ Queued(Step(g))
    /\ \E s \in Queue(pins[Step(g)].machine) :
         /\ s[1] # g /\ idx[s[1]] <= s[2]
         /\ Before(OrderKey(s), OrderKey(Step(g)))
         /\ ~(idx[s[1]] = s[2] /\ Late(s[1]) /\ Reached(s[1]) > pl[g].start)

(* The others whose next step is queued on the machine of key's. *)
Rivals(key) ==
    {k \in Remaining \ {key} : Queued(Step(k)) /\ pins[Step(k)].machine = pins[Step(key)].machine}
Settled(some, pl) == [k \in DOMAIN pl |-> IF k \in some THEN Guarded(k, pl[k]) ELSE pl[k]]

(* A step that no machine can be staffed for: the decode raises. *)
Fails(pl) == \E k \in Remaining : pl[k].machine = Unrunnable

(* _pick: the next job in published order, a late one giving way on its own
   machine to the jobs that are ready.  `aside` are the jobs that stepped
   aside in this turn, `j` the next of those that would be done first. *)
LetThrough(st, j, pl) ==
    LET Key(k) == ReplayKey(k, pl)
        up == {c \in Rivals(st.key) \ st.aside : Before(Key(c), Key(j)) /\ Reached(c) <= pl[j].start}
        unfed == \E s \in Queue(pins[Step(st.key)].machine) :
                    idx[s[1]] < s[2] /\ Before(OrderKey(s), OrderKey(Step(j)))
        rest == Remaining \ (st.aside \cup {st.key} \cup Rivals(st.key))
        g == Least(rest, Key)
        stays == [st EXCEPT !.pl = pl, !.decided = TRUE]
        Yields(to) == [key |-> to, aside |-> st.aside \cup {st.key}, pl |-> pl, decided |-> FALSE]
    IN IF pl[j].start >= pl[st.key].start THEN stays
       ELSE IF up # {} THEN Yields(Least(up, Key))
       ELSE IF unfed /\ rest # {} /\ Before(Key(g), Key(j))
            THEN IF JumpsItsMachine(g, pl) THEN stays ELSE Yields(g)
       ELSE Yields(j)

StepAside(st, pl) ==
    LET ahead == {k \in Rivals(st.key) : pl[k].start < Reached(st.key)}
        soon == {k \in Rivals(st.key) : Reached(k) <= Min({pl[a].start : a \in ahead})}
        j == Least(soon, LAMBDA k : ReplayKey(k, pl))
    IN IF Fails(pl) \/ ahead = {} THEN [st EXCEPT !.pl = pl, !.decided = TRUE]
       ELSE LetThrough(st, j, Settled({st.key, j}, pl))

GiveWay(st) ==
    IF st.decided THEN st
    ELSE IF ~Late(st.key) THEN [st EXCEPT !.decided = TRUE]
    ELSE StepAside(st, Settled({k \in Rivals(st.key) : st.pl[k].start < Reached(st.key)}, st.pl))

FollowPublished(pl) ==
    LET first == Least(Remaining, LAMBDA k : ReplayKey(k, pl))
    IN Loop(2 * Cardinality(Remaining) + 2, LAMBDA st, i : GiveWay(st),
            [key |-> first, aside |-> {}, pl |-> pl, decided |-> FALSE])

Picked(pl) ==
    LET chosen == FollowPublished(pl)
    IN IF \E s \in DOMAIN pins : Queued(s) THEN [key |-> chosen.key, pl |-> chosen.pl]
       ELSE [key |-> FreshPick(pl), pl |-> pl]
Guard(chosen) == [chosen EXCEPT !.pl = Settled({chosen.key}, @)]
Pick(pl) == Guard(Picked(pl))

-----------------------------------------------------------------------------
(* One turn of the loop. *)

(* _ready_after: two in-house steps overlap, everything else waits. *)
ReadyAfter(k, start, paced) ==
    LET op == Op(Step(k))
        release == start + (IF op.kind = "machining" THEN Setup ELSE 0)
                         + (Owed(Step(k)) * op.cycle * (100 - OverlapPct)) \div 100
    IN IF /\ OverlapPct > 0 /\ Owed(Step(k)) > 0 /\ op.kind \in InHouse
          /\ route[k][idx[k] + 1].kind \in InHouse
       THEN Min({release, paced})
       ELSE paced

Occupy(p) ==
    spans' = IF p.machine = NoMachine THEN spans
             ELSE [spans EXCEPT ![p.machine] = @ \cup {<<p.start, p.end>>}]

(* Mutant: only the person who finishes the job is booked. *)
StaffTheLast(p) ==
    LET on(shift) == {n \in DOMAIN p.segs : p.segs[n].shift = shift}
    IN /\ booked' = IF p.segs = <<>> THEN booked
                    ELSE [booked EXCEPT ![Last(p.segs).who] = @ \cup {<<Last(p.segs).start, Last(p.segs).end>>}]
       /\ manned' = [a \in DOMAIN manned |-> IF a[1] = p.machine /\ on(a[2]) # {}
                                             THEN p.segs[Max(on(a[2]))].who ELSE manned[a]]

(* StaffingBoard.commit, for every assignment of the placement. *)
Staff(p) ==
    LET of(q) == {g \in ToSet(p.segs) : g.who = q}
        on(shift) == {n \in DOMAIN p.segs : p.segs[n].shift = shift}
    IN /\ booked' = [q \in People |-> booked[q] \cup {<<g.start, g.end>> : g \in of(q)}]
       /\ manned' = [a \in DOMAIN manned |-> IF a[1] = p.machine /\ on(a[2]) # {}
                                             THEN p.segs[Max(on(a[2]))].who ELSE manned[a]]

Commit(k, p) ==
    LET s == Step(k)
        paced == Max({p.end, prevEnd[k]})
    IN /\ placed' = [x \in DOMAIN placed \cup {s} |-> IF x = s THEN p ELSE placed[x]]
       /\ log' = Append(log, s)
       /\ Occupy(p)
       /\ Staff(p)
       /\ prevEnd' = [prevEnd EXCEPT ![k] = paced]
       /\ idx' = [idx EXCEPT ![k] = @ + 1]
       /\ ready' = [ready EXCEPT ![k] = IF idx[k] = Len(route[k]) THEN @
                                        ELSE ReadyAfter(k, p.start, paced)]

Placements == [k \in Remaining |-> PlaceOperation(k, ready[k])]

Raise == phase' = "failed" /\ UNCHANGED board

(* One turn of the loop: every candidate is placed on the board as it is, one
   is chosen and committed.  (Variables over one value are computed once.) *)
PlaceNext ==
    /\ phase # "failed" /\ Remaining # {}
    /\ \E pl \in {Placements} :
       \E pick \in {IF Fails(pl) THEN [pl |-> pl] ELSE Pick(pl)} :
         IF Fails(pick.pl) THEN Raise
         ELSE Commit(pick.key, pick.pl[pick.key]) /\ UNCHANGED phase
    /\ UNCHANGED <<route, orders, shop, today, left, sent, pins, occupied, published>>

-----------------------------------------------------------------------------
(* The stages of a plan. *)

(* Mutant: the log of the plan before is kept. *)
BeginKeepsLog(who, start) ==
    /\ orders' = who
    /\ idx' = [k \in Jobs |-> 1]
    /\ ready' = [k \in Jobs |-> start]
    /\ prevEnd' = [k \in Jobs |-> start]
    /\ spans' = [m \in Machines |-> {}]
    /\ placed' = Nothing
    /\ UNCHANGED log

Begin(who, start) ==
    /\ orders' = who
    /\ idx' = [k \in Jobs |-> 1]
    /\ ready' = [k \in Jobs |-> start]
    /\ prevEnd' = [k \in Jobs |-> start]
    /\ spans' = [m \in Machines |-> {}]
    /\ placed' = Nothing
    /\ log' = <<>>

Nobodies == [a \in Machines \X Shifts |-> Nobody]
Idle == [p \in People |-> {}]

(* An order with an owed step nobody can run is left out: _orders_from_batches. *)
Manned(m, settings) == \E p \in People : m \in settings.skill[p]
TakenIn(k, settings, owed) ==
    \A n \in DOMAIN route[k] :
       owed[k][n] > 0 /\ route[k][n].kind \in InHouse => \E m \in ToSet(route[k][n].on) : Manned(m, settings)

Init ==
    /\ phase = "plan"
    /\ route \in Books
    /\ orders \in FirstOrders
    /\ shop = Home
    /\ today = 0
    /\ left = [k \in Jobs |-> [n \in DOMAIN route[k] |-> Qty]]
    /\ sent = [k \in Jobs |-> NotSent]
    /\ pins = Nothing
    /\ idx = [k \in Jobs |-> 1]
    /\ ready = [k \in Jobs |-> 0]
    /\ prevEnd = [k \in Jobs |-> 0]
    /\ spans = [m \in Machines |-> {}]
    /\ booked = Idle
    /\ manned = Nobodies
    /\ occupied = [m \in Machines |-> {}]
    /\ placed = Nothing
    /\ log = <<>>
    /\ published = [placed |-> Nothing, log |-> <<>>]

(* _ppc_pins over the rows schedule_projection wrote, and _pin_queues: a step
   of an order that is not planned, or on a machine nobody can run any more,
   loses its pin. *)
PinsOf(plan, settings, who) ==
    LET rows == {s \in DOMAIN plan.placed :
                    /\ s[1] \in who /\ plan.placed[s].machine # NoMachine
                    /\ Manned(plan.placed[s].machine, settings)}
    IN [s \in rows |-> [machine |-> plan.placed[s].machine,
                        start |-> plan.placed[s].start,
                        who |-> Head(plan.placed[s].segs).who,
                        staff |-> ToSet(plan.placed[s].segs),
                        rank |-> CHOOSE n \in DOMAIN plan.log : plan.log[n] = s]]

(* A plan of the same book, made again later: the punches finished some steps,
   the settings may have changed, an order may be in the book that no
   published row covers.  The plan published first is followed. *)
Repair ==
    /\ phase = "plan" /\ Remaining = {}
    /\ \E now \in Starts, settings \in Shops,
          done \in [Jobs -> 0..Max({Len(route[k]) : k \in Jobs})] :
         /\ \A k \in Jobs : done[k] <= Len(route[k]) /\ (now = 0 \/ k \notin orders => done[k] = 0)
         /\ \A k \in Jobs : \A n \in 1..done[k] : placed[<<k, n>>].start <= now
         /\ shop' = settings /\ today' = now
         /\ left' = [k \in Jobs |-> [n \in DOMAIN route[k] |-> IF n <= done[k] THEN 0 ELSE Qty]]
         /\ sent' \in [Jobs -> {NotSent, 0, now}]
         /\ \A k \in Jobs : sent'[k] # NotSent =>
              done[k] \in 1..(Len(route[k]) - 1) /\ route[k][done[k] + 1].kind = "outsourced"
         /\ published' = [placed |-> placed, log |-> log]
         /\ Begin({k \in Jobs \ NewJobs : TakenIn(k, settings, left')}, now)
         /\ pins' = PinsOf(published', settings, orders')
         /\ booked' = Idle /\ manned' = Nobodies
    /\ phase' = "repair"
    /\ UNCHANGED <<route, occupied>>

(* The time a finished plan takes on a machine: its segments, and the pauses
   of a job no other job ran in (_entries_from_schedule, _blocks). *)
TimeOn(m) ==
    LET here == {s \in DOMAIN placed : placed[s].machine = m}
        Segs(s) == {<<g.start, g.end>> : g \in ToSet(placed[s].segs)}
        Pauses(s) == {<<placed[s].segs[n].end, placed[s].segs[n + 1].start>> :
                        n \in {i \in 1..(Len(placed[s].segs) - 1) :
                                placed[s].segs[i].end < placed[s].segs[i + 1].start}}
        Ran(o, gap) == \E g \in Segs(o) : g[1] < gap[2] /\ g[2] > gap[1]
        idle == {gap \in UNION {Pauses(s) : s \in here} : ~\E o \in here : Ran(o, gap)}
    IN (UNION {Segs(s) : s \in here}) \cup idle

(* Who was the last to man each machine in each shift. *)
LastManned ==
    LET on(m) == UNION {ToSet(placed[s].segs) : s \in {t \in DOMAIN placed : placed[t].machine = m}}
        in(a) == {g \in on(a[1]) : ShiftKeyFor(g.start) = a[2]}
        last(S) == CHOOSE g \in S : \A h \in S : h.start <= g.start
    IN [a \in DOMAIN manned |-> IF in(a) = {} THEN Nobody ELSE last(in(a)).who]

(* occupancy_from_entries, and the second stage: the new orders around the
   finished plan of the first. *)
PlanNewOrders ==
    /\ phase = "repair" /\ Remaining = {} /\ NewJobs # {}
    /\ phase' = "quote"
    /\ published' = [placed |-> placed, log |-> log]
    /\ pins' = Nothing
    /\ occupied' = [m \in Machines |-> TimeOn(m)]
    /\ manned' = LastManned
    /\ Begin({k \in NewJobs : TakenIn(k, shop, left)}, today)
    /\ UNCHANGED <<route, shop, today, left, sent, booked>>

Next == PlaceNext \/ Repair \/ PlanNewOrders

Spec == Init /\ [][Next]_vars

-----------------------------------------------------------------------------
(* The plan on the floor: what is placed, with the plan the second stage fits
   its orders around. *)
Kept == IF phase = "quote" THEN published.placed ELSE Nothing
InForce == [s \in DOMAIN placed \cup DOMAIN Kept |->
                IF s \in DOMAIN placed THEN placed[s] ELSE Kept[s]]
Overlap(g, h) == g.start < h.end /\ h.start < g.end

TypeOK ==
    /\ phase \in {"plan", "repair", "quote", "failed"}
    /\ orders \subseteq Jobs /\ shop \in Shops /\ today \in Starts
    /\ \A k \in Jobs : /\ idx[k] \in 1..(Len(route[k]) + 1)
                        /\ ready[k] \in Nat /\ prevEnd[k] \in Nat
    /\ \A s \in DOMAIN placed : s[1] \in orders /\ s[2] < idx[s[1]]
    /\ ToSet(log) = DOMAIN placed /\ Len(log) = Cardinality(DOMAIN placed)
    /\ \A a \in DOMAIN manned : manned[a] \in People \cup {Nobody}

(* "one operator mans one machine": nobody is at two machines at a time, and
   no machine runs two jobs at a time, whichever stage planned them. *)
NoDoubleBooking ==
    \A s, t \in DOMAIN InForce :
      \A g \in ToSet(InForce[s].segs), h \in ToSet(InForce[t].segs) :
        Overlap(g, h) /\ <<s, g>> # <<t, h>> =>
            g.who # h.who /\ InForce[s].machine # InForce[t].machine

(* "never split around another job, so a setup is never paid twice": between
   the start and the end of a machining job its machine runs nothing else. *)
SetupPaidOnce ==
    \A s, t \in DOMAIN InForce :
      /\ s # t /\ Op(s).kind = "machining"
      /\ InForce[s].machine # NoMachine /\ InForce[s].machine = InForce[t].machine
      => \A g \in ToSet(InForce[t].segs) : ~Overlap(g, InForce[s])

(* "NOTHING runs in a break": whoever works, works in the hours of their own
   shift, not in a break, a day off, their leave or the machine's, by the clock;
   and the shift a stretch of work is booked under is the one it is in. *)
Clock(t) == (t + FirstStart) % DayTicks
InBreak(t) ==
    \E b \in MealBreaks : IF b[1] < b[2] THEN Clock(t) \in b[1]..(b[2] - 1)
                                        ELSE Clock(t) >= b[1] \/ Clock(t) < b[2]
WorksWhenOpen ==
    \A s \in DOMAIN placed : \A g \in ToSet(placed[s].segs) :
      \A t \in g.start..(g.end - 1) :
        /\ ~InBreak(t) /\ ShiftKeyFor(t) = g.shift /\ IsWorkingDay(g.shift[1])
        /\ CASE g.shift[2] = "day" -> Clock(t) \in FirstStart..(FirstEnd - 1) /\ DayOf(t) = g.shift[1]
             [] Clock(t) >= FirstEnd -> DayOf(t) = g.shift[1]
             [] OTHER -> Clock(t) < SecondEnd /\ DayOf(t) = g.shift[1] + 1
        /\ shop.base[g.who] = g.shift[2] /\ placed[s].machine \in shop.skill[g.who]
        /\ ~Reserved(shop.leave, g.who, g.shift[1])
        /\ ~Reserved(shop.down, placed[s].machine, g.shift[1])

(* "the machine-wise schedule processes pieces before they exist": a step
   starts no earlier and ends no earlier than every step before it in its
   routing, and only in-house steps overlap. *)
StartsInOrder ==
    \A s \in DOMAIN placed :
      \A n \in 1..(s[2] - 1) :
        LET fed == placed[<<s[1], n>>]
        IN /\ placed[s].start >= fed.start
           /\ Op(<<s[1], n>>).kind \notin InHouse => placed[s].start >= fed.end
EndsInOrder ==
    \A s \in DOMAIN placed :
      \A n \in 1..(s[2] - 1) :
        placed[s].machine # NoMachine => placed[s].end >= placed[<<s[1], n>>].end
PieceFlow == StartsInOrder /\ EndsInOrder

(* "a repair of a plan nobody has punched places every job exactly where it
   was published": same machine, same people, same minutes.  Two things keep it
   from doing so.  A stretch of a shift that a second person worked, after the
   machine had run another job, is offered to the first one again; and the
   piece-flow guard may change machines between its passes and overshoot, where
   the pinned step is laid on one machine only. *)
Unpunched ==
    /\ phase = "repair" /\ today = 0 /\ shop = Home
    /\ orders = {s[1] : s \in DOMAIN published.placed}
    /\ \A k \in orders : \A n \in DOMAIN left[k] : left[k][n] = Qty
HandedOver(s) ==
    \E g, h \in ToSet(published.placed[s].segs) : g.shift = h.shift /\ g.who # h.who
Wandered(s) == OverlapPct > 0 /\ s[2] > 1 /\ Len(Op(s).on) > 1
RepairKeepsPlan ==
    Unpunched /\ (\A s \in DOMAIN published.placed : ~HandedOver(s) /\ ~Wandered(s)) =>
        \A s \in DOMAIN placed : placed[s] = published.placed[s]

(* "every delivery date is the published one", as the test of the repair says. *)
RepairKeepsDates ==
    Unpunched => \A s \in DOMAIN placed : placed[s].end = published.placed[s].end

(* A job that is published before s on its machine, next in its order and on
   time. *)
Passed(k, s) ==
    LET t == Step(k)
    IN /\ Queued(t) /\ pins[t].machine = pins[s].machine
       /\ Before(OrderKey(t), OrderKey(s)) /\ ~Late(k)

(* "a job that is on time is never jumped, so the published order wins whenever
   both are ready": such a job is passed only while it is not ready.  Not so of
   a job that is passed by one the piece-flow guard starts later. *)
PublishedOrderWins ==
    [][\A s \in DOMAIN placed' \ DOMAIN placed :
         Queued(s) => \A k \in Remaining \ {s[1]} : Passed(k, s) => Reached(k) > placed'[s].start]_vars

(* A job that is on time is passed only by one that is ready before it is, in a
   turn in which a late job steps aside on their machine: _pick. *)
PassedByTheReady ==
    [][\A s \in DOMAIN placed' \ DOMAIN placed :
         Queued(s) => \A k \in Remaining \ {s[1]} : Passed(k, s) =>
            /\ Reached(s[1]) < Reached(k)
            /\ \E late \in Remaining \ {s[1], k} :
                 Late(late) /\ pins[Step(late)].machine = pins[s].machine]_vars

(* What a shop can do: nobody and no machine is in two places at once.  *)
BoardInv == TypeOK /\ NoDoubleBooking
=============================================================================
