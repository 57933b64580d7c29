------------------------------ MODULE Scoring ------------------------------
(***************************************************************************)
(* How a plan is judged.  The search inside a candidate scores a schedule    *)
(* with ppc_engine/objective; the contest, the panel and the gate of Apply  *)
(* score it with engine/optimizer.py, "documented as mirrors".  And what    *)
(* accepting an earlier date moves (_quote_movement of api/main.py).        *)
(*                                                                         *)
(* A plan gives every order the minute, from the plan day's midnight, at    *)
(* which its last step ends.  A line has its delivery date `due`, the date  *)
(* `promised`, whether it is `committed`, and `target`, its must-finish     *)
(* date: days, or NoDay.  Weights of quarters of days are whole in 16ths.   *)
(* An order is a batch of its own: clubbed lines have one date in a search. *)
(***************************************************************************)
EXTENDS Integers, FiniteSetsExt

CONSTANTS
    PlanStart,      \* minute of the plan's start
    Slack           \* committed_promise_slack_days

NoDay == -1
Minutes == 1440

CeilingWeight == 100
PromiseWeight == 5000
TargetWeight  == 1000000000
OntimeCap     == 60     \* days
LateLinear    == 10

Positive(n) == IF n > 0 THEN n ELSE 0
Square(n) == n * n

-----------------------------------------------------------------------------
(* engine/optimizer.py                                                      *)

Expected(plan) == [k \in DOMAIN plan |-> plan[k] \div Minutes]
Gap(lines, plan, k) == Expected(plan)[k] - lines[k].due

(* mutant: the discount of an early finish is taken off the square *)
OntimeBreachDiscountLate(lines, plan) ==
    LET cost(k) == LET g == Gap(lines, plan, k)
                       d == Min({IF g > 0 THEN g ELSE -g, OntimeCap})
                   IN  (IF g > 0 THEN 16 ELSE 4) * Square(d) + 16 * LateLinear * Positive(g)
    IN  SumFunction([k \in DOMAIN plan |-> cost(k)])

(* In 16ths: the square of the days missed, an early one a quarter, capped;  *)
(* and every late day.                                                      *)
OntimeBreach(lines, plan) ==
    LET cost(k) == LET g == Gap(lines, plan, k)
                       d == Min({IF g > 0 THEN 4 * g ELSE -g, 4 * OntimeCap})
                   IN  Square(d) + 16 * LateLinear * Positive(g)
    IN  SumFunction([k \in DOMAIN plan |-> cost(k)])

CeilingBreach(lines, plan, ceiling) ==
    LET over(k) == Square(Positive(Gap(lines, plan, k) - ceiling))
    IN  IF ceiling = NoDay THEN 0 ELSE SumFunction([k \in DOMAIN plan |-> over(k)])

Committed(lines, plan) == {k \in DOMAIN plan : lines[k].committed /\ lines[k].promised # NoDay}

PromiseBreach(lines, plan) ==
    LET over(k) == Square(Positive(Expected(plan)[k] - lines[k].promised - Slack))
    IN  SumFunction([k \in Committed(lines, plan) |-> over(k)])

MaxCommittedSlip(lines, plan) ==
    Max({0} \cup {Expected(plan)[k] - lines[k].promised : k \in Committed(lines, plan)})

TargetBreach(lines, plan) ==
    LET over(k) == IF lines[k].target = NoDay THEN 0
                   ELSE Positive(Expected(plan)[k] - lines[k].target)
    IN  SumFunction([k \in DOMAIN plan |-> over(k)])

(* Minutes in parts of a day, rounded: n parts of each day.                 *)
Rounded(n, minutes) ==
    LET day == minutes \div Minutes
    IN  n * day + (2 * n * (minutes - day * Minutes) + Minutes) \div (2 * Minutes)
(* Hundredths of a day from midnight to the last end                        *)
MakespanDays(plan) == Rounded(100, Max({plan[k] : k \in DOMAIN plan}))

PlanMetrics(lines, plan, ceiling) ==
    [ontime |-> OntimeBreach(lines, plan), ceiling |-> CeilingBreach(lines, plan, ceiling),
     promise |-> PromiseBreach(lines, plan), target |-> TargetBreach(lines, plan),
     makespan |-> MakespanDays(plan)]

(* How much more m scores than n, days past must-finish dates left out:      *)
(* whole units, rounded down.                                               *)
Difference(m, n) ==
    CeilingWeight * (m.ceiling - n.ceiling) + PromiseWeight * (m.promise - n.promise)
    + (1000 * (m.ontime - n.ontime) + 16 * (m.makespan - n.makespan)) \div 16000

(* score(m) < score(n).  Of the days past must-finish dates only the first   *)
(* is weighed against the rest.                                             *)
Beats(m, n) ==
    CASE m.target < n.target -> Difference(m, n) < TargetWeight
      [] m.target > n.target -> Difference(m, n) < -TargetWeight
      [] OTHER -> Difference(m, n) < 0

-----------------------------------------------------------------------------
(* ppc_engine/objective: orders measured one by one, then the terms          *)

LatenessDays(completion, due) == completion \div Minutes - due

ComputeMetrics(lines, plan) ==
    LET slips(by, has) == [k \in has |-> LatenessDays(plan[k], by[k])]
        promise == [k \in DOMAIN plan |-> IF lines[k].committed THEN lines[k].promised ELSE NoDay]
        target  == [k \in DOMAIN plan |-> lines[k].target]
    IN  [lateness |-> slips([k \in DOMAIN plan |-> lines[k].due], DOMAIN plan),
         promiseSlip |-> slips(promise, {k \in DOMAIN plan : promise[k] # NoDay}),
         targetSlip |-> slips(target, {k \in DOMAIN plan : target[k] # NoDay}),
         makespan |-> Rounded(10000, Max({plan[k] : k \in DOMAIN plan}) - PlanStart)]

(* Over the orders of f, the squares of what is above a bound.              *)
SquaresAbove(f, bound) ==
    SumFunction([k \in DOMAIN f |-> IF f[k] > bound THEN Square(f[k] - bound) ELSE 0])

OntimeTerm(late) ==
    LET miss(k) == IF late[k] > 0 THEN 4 * late[k] ELSE -late[k]
        term(k) == (IF miss(k) > 4 * OntimeCap THEN Square(4 * OntimeCap) ELSE Square(miss(k)))
                   + IF late[k] > 0 THEN 16 * LateLinear * late[k] ELSE 0
    IN  SumFunction([k \in DOMAIN late |-> term(k)])

Objective(m, ceiling) ==
    [ontime |-> OntimeTerm(m.lateness),
     ceiling |-> IF ceiling = NoDay THEN 0 ELSE SquaresAbove(m.lateness, ceiling),
     promise |-> SquaresAbove(m.promiseSlip, Slack),
     target |-> SumFunction([k \in DOMAIN m.targetSlip |-> Positive(m.targetSlip[k])]),
     makespan |-> m.makespan]

-----------------------------------------------------------------------------
(* What accepting the draft orders would move: the plan in force, without    *)
(* the drafts, against the plan the floor would get, with them.             *)

Common(before, after) == DOMAIN before \cap DOMAIN after
Movers(before, after) ==
    {k \in Common(before, after) : Expected(after)[k] > Expected(before)[k]}

(* Restricted to the orders on both sides                                   *)
LateDays(lines, plan, common) ==
    SumFunction([k \in common |-> Positive(Gap(lines, plan, k))])
QuoteMovement(lines, before, after) ==
    LET common == Common(before, after)
    IN  [moved |-> Movers(before, after),
         before |-> LateDays(lines, before, common), after |-> LateDays(lines, after, common)]
=============================================================================
