----------------------------- MODULE WorkCalendar -----------------------------
(***************************************************************************)
(* The hours of the shop: ppc_engine/worktime.py and domain/calendar.py.    *)
(*                                                                         *)
(* Time is in ticks, DayTicks of them to a day; tick 0 is the start of the  *)
(* first shift of day 0.  A shift is the day it is anchored to and its kind; *)
(* the night shift starts when the day shift ends and may end the day after. *)
(***************************************************************************)
EXTENDS Integers, SequencesExt

CONSTANTS
    DayTicks,        \* ticks from midnight to midnight
    FirstStart,      \* clock times: first_start,
    FirstEnd,        \* first_end, which is second_start,
    SecondEnd,       \* and second_end
    MealBreaks,      \* pairs of clock times; one that ends before it starts
                     \* crosses midnight
    OffDays,         \* the weekly off and the holidays
    NightMachines,   \* the machines that run the second shift
    LookAhead        \* _MAX_DAYS_LOOKAHEAD

ASSUME HoursAssumption ==
    /\ DayTicks \in Nat \ {0} /\ LookAhead \in Nat
    /\ {FirstStart, FirstEnd, SecondEnd} \subseteq 0..(DayTicks - 1) /\ FirstStart < FirstEnd
    /\ \A b \in MealBreaks : b[1] \in 0..(DayTicks - 1) /\ b[2] \in 0..(DayTicks - 1)

(* free_stretches and free_runs: what a set of blocks leaves of from..to. *)
Gaps(blocks, from, to) ==
    LET cuts == {from} \cup {b[2] : b \in {x \in blocks : x[2] > from /\ x[2] < to}}
        Free(t) == \A b \in blocks : ~(b[1] <= t /\ t < b[2])
        next(t) == Min({to} \cup {b[1] : b \in {x \in blocks : x[1] >= t /\ x[2] > x[1]}})
    IN {<<t, next(t)>> : t \in {c \in cuts : c < to /\ Free(c) /\ next(c) > c}}

Midnight(day) == day * DayTicks - FirstStart
DayOf(t) == (t + FirstStart) \div DayTicks

-----------------------------------------------------------------------------
(* Who and what is there on a day: a reservation is <<key, from, to>>, whole
   days, both included, in either order. *)

DaysOf(r) == Min({r[2], r[3]})..Max({r[2], r[3]})
Reserved(rows, key, day) == \E r \in rows : r[1] = key /\ day \in DaysOf(r)

IsWorkingDay(day) == day \notin OffDays
IsMachineAvailable(down, m, day) == IsWorkingDay(day) /\ ~Reserved(down, m, day)
IsOperatorAvailable(leave, p, day) == IsWorkingDay(day) /\ ~Reserved(leave, p, day)

-----------------------------------------------------------------------------
(* The windows of a machine. *)

ShiftWindow(day, kind) ==
    LET second == IF SecondEnd > FirstEnd THEN day ELSE day + 1
    IN [shift |-> <<day, kind>>,
        start |-> Midnight(day) + (IF kind = "day" THEN FirstStart ELSE FirstEnd),
        end   |-> IF kind = "day" THEN Midnight(day) + FirstEnd ELSE Midnight(second) + SecondEnd]

(* The breaks of the days a shift touches. *)
BreaksOf(w) ==
    {<<Midnight(day) + b[1], Midnight(IF b[2] > b[1] THEN day ELSE day + 1) + b[2]>> :
        b \in MealBreaks, day \in {w.shift[1], w.shift[1] + 1}}

Pieces(w, breaks) ==
    {[shift |-> w.shift, start |-> g[1], end |-> g[2]] : g \in Gaps(breaks, w.start, w.end)}

(* Mutant: only the breaks of the day the shift is anchored to. *)
WithoutBreaksOfItsDay(w) == Pieces(w, {b \in BreaksOf(w) : DayOf(b[1]) = w.shift[1]})

WithoutBreaks(w) == Pieces(w, BreaksOf(w))

(* iter_windows, from day 0: day by day, the day shift first.  FlowDecoder
   skips the days it would start after. *)
IterWindows(m) ==
    LET kinds(day) == IF ~IsWorkingDay(day) THEN {}
                      ELSE IF m \in NightMachines THEN {"day", "night"} ELSE {"day"}
        windows == UNION {UNION {WithoutBreaks(ShiftWindow(day, k)) : k \in kinds(day)} :
                          day \in 0..(LookAhead - 1)}
        before(w) == {v \in windows :
                        \/ v.shift[1] < w.shift[1]
                        \/ v.shift[1] = w.shift[1] /\ v.shift[2] = "day" /\ w.shift[2] = "night"
                        \/ v.shift = w.shift /\ v.start < w.start}
    IN [n \in 1..Cardinality(windows) |-> CHOOSE w \in windows : Cardinality(before(w)) = n - 1]

(* The shift an instant is in: today's first, then yesterday's. *)
Holds(w, t) == w.start <= t /\ t < w.end
NoShift == <<-1, "none">>
ShiftKeyFor(t) ==
    LET of(day) == {k \in {"day", "night"} : Holds(ShiftWindow(day, k), t)}
        today == DayOf(t)
    IN IF of(today) # {} THEN <<today, CHOOSE k \in of(today) : TRUE>>
       ELSE IF of(today - 1) # {} THEN <<today - 1, CHOOSE k \in of(today - 1) : TRUE>>
       ELSE NoShift
=============================================================================
