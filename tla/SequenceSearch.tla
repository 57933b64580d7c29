--------------------------- MODULE SequenceSearch ---------------------------
(***************************************************************************)
(* The searches for a better sequence of orders: the iterated local search  *)
(* the planner runs (ppc_engine/optimize/search.py), its memetic sibling    *)
(* (memetic.py) and the restarts of the classic engine (engine/optimizer).  *)
(*                                                                         *)
(* A plan is its sequence and a sequence has a score, the lower the better: *)
(* any function of the sequences.  Random draws are free choices.  Orders   *)
(* are numbers, in the order of their keys.                                 *)
(***************************************************************************)
EXTENDS Integers, SequencesExt

CONSTANTS
    Orders,         \* the orders to plan
    Due, Work,      \* days to an order's due date, and its minutes of work
    MinPerDay,      \* minutes a day gives
    Musts,          \* dates some orders must finish by, as functions
    InForce,        \* rank orders a search may be given: the plan in force
    Kinds,          \* searches run: "ils", "memetic", "classic"
    Landscapes,     \* scores of the sequences, as functions
    Budgets,        \* evaluations a search may spend
    Polish,         \* evaluations one child's climb may spend
    PopSize,        \* sequences in a population
    MaxStagnation,  \* children in a row that may bring nothing new
    RestartAfter    \* moves in a row that may not improve

Perms == SetToSeqs(Orders)
N     == Cardinality(Orders)

ASSUME SearchAssumption ==
    /\ IsFiniteSet(Orders) /\ Orders \subseteq Int
    /\ Due \in [Orders -> Int] /\ Work \in [Orders -> Int] /\ MinPerDay \in Int
    /\ \A due \in Musts : DOMAIN due \subseteq Orders /\ due \in [DOMAIN due -> Int]
    /\ Kinds \subseteq {"ils", "memetic", "classic"}
    /\ Landscapes \subseteq [Perms -> Int]
    /\ Budgets \subseteq Nat /\ Polish \in Nat /\ PopSize \in Nat

VARIABLES
    kind,       \* the search
    force,      \* the rank order it was given
    must,       \* and the dates to be met
    budget,     \* and what it may spend
    score,      \* the score of every sequence
    seeds,      \* sequences still to be looked at first
    seen,       \* sequences decoded (_Evaluator._cache)
    evals,      \* decodes
    best,       \* best sequence so far
    cur,        \* sequence the climb stands on
    untried,    \* moves not tried since it got there
    limit,      \* evaluations at which the climb ends
    before,     \* evaluations when the round began
    pop,        \* the population
    idle,       \* rounds, or moves, without success
    stop,       \* should_cancel
    at          \* "seeds", "round", "climb", "done"

vars == <<kind, force, must, budget, score, seeds, seen, evals, best, cur, untried, limit, before, pop, idle, stop, at>>
given == <<kind, force, must, budget, score>>

-----------------------------------------------------------------------------
(* Dispatch rules (dispatch_rules.py)                                       *)

(* Every order stands behind those that go ahead of it.                     *)
Sorted(ahead) ==
    [i \in 1..Cardinality(DOMAIN ahead) |->
        CHOOSE o \in DOMAIN ahead : Cardinality(ahead[o]) = i - 1]

(* By a figure of each order, the earlier key first among equals            *)
By(f) == Sorted([o \in DOMAIN f |->
                    {p \in DOMAIN f : f[p] < f[o] \/ (f[p] = f[o] /\ p < o)}])

EddSequence   == By(Due)
SptSequence   == By(Work)
SlackSequence == By([o \in Orders |-> Due[o] * MinPerDay - Work[o]])
LptSequence   ==
    Sorted([o \in Orders |-> {p \in Orders :
        \/ Work[p] > Work[o]
        \/ Work[p] = Work[o] /\ (Due[p] < Due[o] \/ (Due[p] = Due[o] /\ p < o))}])

(* The orders of a sequence that are not in S, in its order                 *)
Without(s, S) ==
    By([o \in Range(s) \ S |-> CHOOSE i \in DOMAIN s : s[i] = o])

(* The plan in force is a seed only when it ranks every order, once each;   *)
(* orders that are gone are passed over.                                    *)
Known(s)    == SelectSeq(s, LAMBDA o : o \in Orders)
Complete(s) == Known(s) \in Perms
Incumbent(s) == IF Complete(s) THEN <<Known(s)>> ELSE <<>>

(* The orders with a date to be met go first, the tightest date first.      *)
HeadFirst(due, base) == By(due) \o Without(base, DOMAIN due)

(* mutant: the plan in force is looked at after the textbook rules *)
SeedsIncumbentLast(s, due) ==
    (IF DOMAIN due = {} THEN <<>> ELSE <<HeadFirst(due, Head(Incumbent(s) \o <<EddSequence>>))>>)
    \o <<EddSequence, SptSequence, SlackSequence, LptSequence>> \o Incumbent(s)

Seeds(s, due) ==
    (IF DOMAIN due = {} THEN <<>> ELSE <<HeadFirst(due, Head(Incumbent(s) \o <<EddSequence>>))>>)
    \o Incumbent(s) \o <<EddSequence, SptSequence, SlackSequence, LptSequence>>

-----------------------------------------------------------------------------
(* Moves                                                                    *)

Move(s, i, j) == InsertAt(RemoveAt(s, i), j, s[i])
Swap(s, i, j) == [s EXCEPT ![i] = s[j], ![j] = s[i]]

(* _earlier_positions: an order goes to the front, half way, just before or  *)
(* to a random place, the most tardy order first: in any order here.        *)
EarlierMoves == {m \in (1..N) \X (1..N) : m[2] < m[1]}

MoveBlock(s, i, j) ==
    LET rest == SubSeq(s, 1, i - 1) \o SubSeq(s, i + 3, N)
    IN  SubSeq(rest, 1, j - 1) \o SubSeq(s, i, i + 2) \o SubSeq(rest, j, N - 3)

(* The classic engine inserts; with four batches or more it also swaps, and  *)
(* moves blocks of three.                                                   *)
ClassicStep(s) ==
    {Move(s, i, j) : i, j \in 1..N}
    \cup (IF N < 4 THEN {}
          ELSE {Swap(s, i, j) : i, j \in 1..N} \cup {MoveBlock(s, i, j) : i, j \in 1..(N - 3)})

(* Order crossover: a slice of the first parent stays, the second parent's   *)
(* order fills the rest, from behind the slice around to its front.         *)
Crossover(p, q, a, b) ==
    IF N < 3 THEN p
    ELSE LET kept == {p[i] : i \in a..b}
             fill == Without(q, kept)
         IN  [i \in 1..N |-> IF i \in a..b THEN p[i]
                             ELSE fill[IF i > b THEN i - b ELSE i + (N - b)]]

-----------------------------------------------------------------------------
Better(s, t) == score[s] < score[t]
Hit(s)       == kind # "classic" /\ s \in seen
Evaluates(s) == seen' = seen \cup {s} /\ evals' = evals + (IF Hit(s) THEN 0 ELSE 1)
BestOf(s, t) == IF Better(s, t) THEN s ELSE t

Init ==
    /\ kind \in Kinds /\ budget \in Budgets /\ score \in Landscapes
    /\ CASE kind = "ils"     -> /\ force \in InForce /\ must \in Musts
                                /\ seeds = Seeds(force, must)
         [] kind = "memetic" -> /\ force = <<>> /\ must = <<>>
                                /\ \E fill \in [1..(PopSize - 3) -> Perms] :
                                     seeds = <<EddSequence, SptSequence, SlackSequence>> \o fill
         [] kind = "classic" -> force = <<>> /\ must = <<>> /\ seeds = <<EddSequence>>
    /\ pop = seeds /\ seen = {} /\ evals = 0 /\ best = <<>> /\ cur = <<>>
    /\ untried = {} /\ limit = 0 /\ before = 0 /\ idle = 0 /\ stop = FALSE /\ at = "seeds"

(* The seeds are decoded first and the best of them kept.                   *)
TrySeed ==
    /\ at = "seeds"
    /\ LET s == Head(seeds) IN
         /\ Evaluates(s)
         /\ best' = IF best = <<>> \/ Better(s, best) THEN s ELSE best
         /\ seeds' = Tail(seeds)
         /\ IF Tail(seeds) = <<>> \/ stop THEN at' = "round" /\ cur' = best'
                                         ELSE at' = at /\ UNCHANGED cur
    /\ UNCHANGED <<given, untried, limit, before, pop, idle, stop>>

MayGoOn == evals < budget /\ ~stop

(* _local_search begins with the sequence it is given.                      *)
ClimbFrom(s, n) ==
    /\ Evaluates(s) /\ cur' = s /\ untried' = EarlierMoves
    /\ limit' = n /\ before' = evals /\ at' = "climb"

(* ils: a round climbs from the best, later from the best with a kick.      *)
IlsRound ==
    /\ at = "round" /\ kind = "ils" /\ MayGoOn
    /\ ClimbFrom(cur, budget)
    /\ UNCHANGED <<given, seeds, best, pop, idle, stop>>

(* memetic: two parents breed a child, which may be mutated.                *)
Breed ==
    /\ at = "round" /\ kind = "memetic" /\ MayGoOn /\ idle <= MaxStagnation
    /\ \E p, q \in Range(pop), a, b \in 1..(N - 1) :
         /\ a <= b
         /\ LET child == Crossover(p, q, a, b)
            IN  \/ ClimbFrom(child, Min({budget, evals + Polish}))
                \/ \E i, j \in 1..N : i < j
                     /\ ClimbFrom(Swap(child, i, j), Min({budget, evals + Polish}))
    /\ UNCHANGED <<given, seeds, best, pop, idle, stop>>

(* classic: a restart from a rule's order or a random one.                  *)
Restart ==
    /\ at = "round" /\ kind = "classic" /\ MayGoOn /\ N >= 2
    /\ \E s \in Perms :
         /\ Evaluates(s) /\ cur' = s /\ best' = BestOf(s, best)
    /\ idle' = 0 /\ at' = "climb"
    /\ UNCHANGED <<given, seeds, untried, limit, before, pop, stop>>

(* A move that improves is taken, and every move is to be tried again.      *)
TryMove ==
    /\ at = "climb" /\ kind # "classic" /\ evals < limit /\ ~stop
    /\ \E m \in untried :
         LET s == Move(cur, m[1], m[2]) IN
           /\ Evaluates(s)
           /\ cur' = BestOf(s, cur)
           /\ untried' = IF Better(s, cur) THEN EarlierMoves ELSE untried \ {m}
    /\ UNCHANGED <<given, seeds, best, limit, before, pop, idle, stop, at>>

(* mutant: a child takes its parent's place *)
OustParent(s) == \E i \in DOMAIN pop : pop' = [pop EXCEPT ![i] = s]

(* The child ousts the worst of the population if it is better.             *)
OustWorst(s) ==
    LET i == CHOOSE k \in DOMAIN pop :
                /\ \A l \in DOMAIN pop : ~Better(pop[k], pop[l])
                /\ \A l \in 1..(k - 1) : Better(pop[l], pop[k])
    IN  pop' = [pop EXCEPT ![i] = IF Better(s, @) THEN s ELSE @]

ClimbOver == at = "climb" /\ kind # "classic" /\ (untried = {} \/ evals >= limit \/ stop)

(* mutant: rounds go on until the budget is spent *)
IlsClimbedOn ==
    /\ ClimbOver /\ kind = "ils" /\ best' = BestOf(cur, best)
    /\ IF evals >= budget \/ stop
       THEN at' = "done" /\ UNCHANGED cur
       ELSE at' = "round" /\ \E i, j \in 1..N : cur' = Move(best', i, j)
    /\ UNCHANGED <<given, seeds, seen, evals, untried, limit, before, pop, idle, stop>>

(* ils: the climb's end is kept if better; a round that decoded nothing new *)
(* ends the search, else the best gets a kick (_perturb).                   *)
IlsClimbed ==
    /\ ClimbOver /\ kind = "ils" /\ best' = BestOf(cur, best)
    /\ IF evals >= budget \/ evals = before \/ stop
       THEN at' = "done" /\ UNCHANGED cur
       ELSE at' = "round" /\ \E i, j \in 1..N : cur' = Move(best', i, j)
    /\ UNCHANGED <<given, seeds, seen, evals, untried, limit, before, pop, idle, stop>>

MemeticClimbed ==
    /\ ClimbOver /\ kind = "memetic"
    /\ OustWorst(cur) /\ best' = BestOf(cur, best)
    /\ idle' = IF evals = before THEN idle + 1 ELSE 0
    /\ at' = "round"
    /\ UNCHANGED <<given, seeds, seen, evals, cur, untried, limit, before, stop>>

(* classic: a better plan is taken, an equal one on a coin's toss; a basin   *)
(* is left when too many moves in a row did not improve.                    *)
ClassicMove ==
    /\ at = "climb" /\ kind = "classic" /\ MayGoOn /\ idle <= RestartAfter
    /\ \E s \in ClassicStep(cur) :
         /\ Evaluates(s)
         /\ \/ Better(s, cur) /\ cur' = s /\ best' = BestOf(s, best) /\ idle' = 0
            \/ score[s] = score[cur] /\ cur' = s /\ UNCHANGED <<best, idle>>
            \/ ~Better(s, cur) /\ idle' = idle + 1 /\ UNCHANGED <<cur, best>>
    /\ UNCHANGED <<given, seeds, untried, limit, before, pop, stop, at>>

LeaveBasin ==
    /\ at = "climb" /\ kind = "classic" /\ (~MayGoOn \/ idle > RestartAfter)
    /\ at' = "round"
    /\ UNCHANGED <<given, seeds, seen, evals, best, cur, untried, limit, before, pop, idle, stop>>

Finish ==
    /\ at = "round" /\ (~MayGoOn \/ (kind = "memetic" /\ idle > MaxStagnation))
    /\ at' = "done"
    /\ UNCHANGED <<given, seeds, seen, evals, best, cur, untried, limit, before, pop, idle, stop>>

(* "Stop & keep best"; the memetic search cannot be stopped.                *)
Cancel ==
    /\ at # "done" /\ ~stop /\ kind # "memetic" /\ stop' = TRUE
    /\ UNCHANGED <<given, seeds, seen, evals, best, cur, untried, limit, before, pop, idle, at>>

Idle == at = "done" /\ UNCHANGED vars

Step == \/ TrySeed \/ IlsRound \/ Breed \/ Restart \/ TryMove \/ IlsClimbed
        \/ MemeticClimbed \/ ClassicMove \/ LeaveBasin \/ Finish

Next == Step \/ Cancel \/ Idle

(* The search runs on a thread of its own and is never blocked.             *)
Spec == Init /\ [][Next]_vars /\ WF_vars(Step)

-----------------------------------------------------------------------------
TypeOK ==
    /\ best \in Perms \cup {<<>>} /\ cur \in Perms \cup {<<>>} /\ seen \subseteq Perms
    /\ Range(pop) \subseteq Perms /\ untried \subseteq EarlierMoves
    /\ at \in {"seeds", "round", "climb", "done"} /\ stop \in BOOLEAN

(* A search spends its budget and no more, however it is cut into climbs    *)
(* and children; only the seeds are decoded whatever the budget.            *)
WithinBudget == evals <= Max({budget, Len(pop)})

(* "keep the best": nothing that was decoded is better than the answer,      *)
(* wherever the search was stopped.                                         *)
BestOfSeen == at = "done" => \A s \in seen : ~Better(s, best)

(* "the worst outcome is that it returns the plan you already had": with a   *)
(* complete plan in force the answer is no worse, even when stopped at once; *)
(* of a search with must-finish dates, no worse than the sequence that has   *)
(* those orders first.                                                      *)
NeverWorse ==
    at = "done" /\ kind = "ils" =>
        IF must = <<>> THEN Complete(force) => ~Better(Known(force), best)
                       ELSE ~Better(HeadFirst(must, IF Complete(force) THEN Known(force)
                                                    ELSE EddSequence), best)

(* The same of every search *)
NeverWorseThanInForce ==
    at = "done" /\ kind = "ils" => (Complete(force) => ~Better(Known(force), best))

(* Elitism: the population has the best sequence's score at every birth.    *)
EliteKept ==
    at = "round" /\ kind = "memetic" =>
        /\ \E s \in Range(pop) : score[s] = score[best]
        /\ \A s \in Range(pop) : ~Better(s, best)

(* "it can never spin forever below budget": every search ends.             *)
Ends == <>(at = "done")

(* Whenever it is stopped, a search has spent no more than its budget and    *)
(* holds the best of everything it decoded.                                  *)
SearchKeeps == TypeOK /\ WithinBudget /\ BestOfSeen /\ EliteKept
============================================================================
