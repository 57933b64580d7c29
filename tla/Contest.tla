------------------------------ MODULE Contest ------------------------------
(***************************************************************************)
(* How a search's settings are contested.  In the cloud the candidates,     *)
(* pairs of an overlap and a machine set, are dealt to shards, whose rows   *)
(* are merged as they arrive (optimize_service.py).  On the server the      *)
(* overlap is tuned by golden section once per machine set (contest.py,     *)
(* new_engine.sweep_optimize); the classic engine tries one candidate after *)
(* the other (optimizer.py), and an offline matrix of jobs is reduced to    *)
(* the result of one process (offload.py).                                  *)
(*                                                                         *)
(* A candidate's search is its score, the lower the better: any score.  The  *)
(* best score at an overlap, which the tuner searches, is its response.     *)
(***************************************************************************)
EXTENDS Integers, SequencesExt, Scoring

CONSTANTS
    Modes,          \* kinds of contest: "cloud", "sweep", "matrix", "local"; or
                    \* "plans": a plan the contest has found is applied
    Candidates,     \* overlaps contested besides the one in force
    Currents,       \* settings that may be in force: <<overlap, machine set>>
    Shards,         \* workers of a cloud contest
    Windows, Seeds, \* a matrix job is an overlap, a window and a seed
    Scores,         \* scores a plan can have, numbers
    Lo, Hi, Tol,    \* the overlaps tuned, in thousandths, and the bracket's width
    Peaks, Slopes,  \* best overlaps and slopes of single-peaked responses
    Rough,          \* pairs <<k, m>>: responses with many peaks
    Coarse,         \* points of the coarse pass
    Books,          \* books in mode "plans": order -> its line
    Drafts,         \* orders a quote adds to the book
    Ends,           \* minutes at which an order can end
    Ceilings        \* the worst lateness in force, or NoDay

(* Overlaps are percentages, in the tuner thousandths; a window is in days.   *)
ASSUME ContestAssumption ==
    /\ Shards \in Nat \ {0}
    /\ IsFiniteSet(Candidates) /\ Candidates \subseteq 0..100
    /\ Currents \subseteq (0..100) \X BOOLEAN
    /\ IsFiniteSet(Windows) /\ Windows \subseteq Nat
    /\ IsFiniteSet(Seeds) /\ Seeds \subseteq Nat
    /\ IsFiniteSet(Scores) /\ Scores \subseteq Nat /\ Scores # {}
ASSUME TunerAssumption ==
    /\ Lo \in 0..1000 /\ Hi \in 0..1000 /\ Lo < Hi
    /\ Tol \in Nat /\ Coarse \in Nat /\ Coarse > 1 /\ Coarse - 1 <= Hi - Lo
    /\ Peaks \subseteq Lo..Hi /\ Slopes \subseteq Nat \ {0}
    /\ Rough \subseteq Nat \X (Nat \ {0})

(* What is known of an order line: its days.  A book has an order or more.   *)
OrderLine == [due : Int, promised : Int, committed : BOOLEAN, target : Int]
ASSUME BooksAssumption ==
    /\ PlanStart \in Nat /\ Slack \in Nat /\ Ends \subseteq Nat
    /\ Ceilings \subseteq Nat \cup {NoDay}
    /\ \A book \in Books :
        IsFiniteSet(DOMAIN book) /\ DOMAIN book # {} /\ book \in [DOMAIN book -> OrderLine]

NoPlan == Max(Scores) + 1
None   == <<>>

VARIABLES
    mode, current,
    score,      \* score of every candidate, or the response that is tuned
    posts,      \* shards that answered, in order
    rows,       \* rows of every shard: a candidate and its score
    log,        \* candidates tried, or points probed, and their scores, in order
    flex,       \* machine set tuned now
    bracket,    \* <<a, c, d, b>>
    out,        \* the winning row so far
    stop,       \* should_cancel
    cleared,    \* the flag was cleared while this search went on
    at          \* "run", "coarse", "bracket", "golden", "tuned", "done", "error"

vars == <<mode, current, score, posts, rows, log, flex, bracket, out, stop, cleared, at>>
contest == <<mode, current, score, cleared>>

-----------------------------------------------------------------------------
(* The candidates and the winner (optimize_service.py)                      *)

Lex(s, t) == \E i \in DOMAIN s : s[i] < t[i] /\ \A j \in 1..(i - 1) : s[j] = t[j]

Least(S, Key(_)) == CHOOSE x \in S : \A y \in S \ {x} : Lex(Key(x), Key(y))

(* The numbers of a set, in rising order.                                   *)
Rising(S) == CHOOSE s \in SetToSeqs(S) : \A i, j \in DOMAIN s : i < j => s[i] < s[j]

(* The setting in force first, the others in rising order.                  *)
SweepContenders == <<current[1]>> \o Rising(Candidates \ {current[1]})

(* Machine set by machine set, every overlap.                               *)
ContestJobs ==
    LET with(f) == [i \in DOMAIN SweepContenders |-> <<SweepContenders[i], f>>]
    IN  with(FALSE) \o with(TRUE)

(* run_contest_slice: shard k takes every Shards-th job from the k-th on.    *)
Slice(k) == [i \in 1..((Len(ContestJobs) - k + Shards) \div Shards) |->
                ContestJobs[k + (i - 1) * Shards]]

(* mutant: a tie goes to the row that comes first *)
PickWinnerFirstCome(rs) ==
    LET ok  == {i \in DOMAIN rs : rs[i][2] # NoPlan}
    IN  IF ok = {} THEN None
        ELSE rs[Least(ok, LAMBDA i : <<rs[i][2], IF rs[i][1] = current THEN 0 ELSE 1, i>>)]

(* The best score wins; of equal ones the setting in force, else the         *)
(* smallest overlap, else the row that comes first.                         *)
PickWinner(rs) ==
    LET ok == {i \in DOMAIN rs : rs[i][2] # NoPlan}
        key(i) == <<rs[i][2], IF rs[i][1] = current THEN 0 ELSE 1, rs[i][1][1], i>>
    IN  IF ok = {} THEN None ELSE rs[Least(ok, key)]

Row(j)     == <<j, score[j]>>
RunContest == PickWinner([i \in DOMAIN ContestJobs |-> Row(ContestJobs[i])])

(* _finalize_from_shards: the shards' rows are joined as the shards came.    *)
AllRows == FlattenSeq([i \in DOMAIN posts |-> rows[posts[i]]])

-----------------------------------------------------------------------------
(* The matrix of (overlap, window, seed) jobs (offload.py)                  *)

(* In one process: a combination's best seed, the first of equal ones, and   *)
(* the best combination, of equal ones the smaller overlap and window.      *)
BestSeed(o, w) == Least(Seeds, LAMBDA s : <<score[<<o, w, s>>], s>>)

RunOffload ==
    LET best(c) == <<c[1], c[2], BestSeed(c[1], c[2])>>
    IN  Row(best(Least(Candidates \X Windows, LAMBDA c : <<score[best(c)]>> \o c)))

(* contest.py, with one of the two given: of equal ones the smaller again.   *)
OptimizeOverlap(w) ==
    Least(Candidates, LAMBDA o : <<score[<<o, w, BestSeed(o, w)>>], o>>)
TuneConsolidation(o) ==
    Least(Windows, LAMBDA w : <<score[<<o, w, BestSeed(o, w)>>], w>>)

Combo(rs, c) == {r \in Range(rs) : <<r[1][1], r[1][2]>> = c}
Combos(rs)   == {<<r[1][1], r[1][2]>> : r \in Range(rs)}

(* reduce_results: the rows of one combination are sorted by seed first.     *)
ReduceResults(rs) ==
    LET best(c) == Least(Combo(rs, c), LAMBDA r : <<r[2], r[1][3]>>)
    IN  best(Least(Combos(rs), LAMBDA c : <<best(c)[2]>> \o c))

-----------------------------------------------------------------------------
Matrix == Candidates \X Windows \X Seeds
Jobs   == (Candidates \cup {current[1]}) \X BOOLEAN

(* A response has a single peak, or is as rough as k * x modulo m.           *)
Responses == (Peaks \X Slopes \X Slopes) \cup Rough
Judged    == UNION {[lines : {book}, now : [DOMAIN book -> Ends],
                     found : [DOMAIN book -> Ends], ceiling : Ceilings] : book \in Books}
Peaked    == mode = "local" /\ Len(score) = 3

Init ==
    /\ mode \in Modes /\ current \in Currents
    /\ mode \in {"sweep", "plans"} => ~current[2]   \* machine sets are the new engine's
    /\ score \in CASE mode \in {"cloud", "sweep"} -> [Jobs -> Scores \cup {NoPlan}]
                  [] mode = "matrix"            -> [Matrix -> Scores]
                  [] mode = "local"             -> Responses
                  [] mode = "plans"             -> Judged
    /\ posts = <<>> /\ rows = [k \in 1..Shards |-> <<>>] /\ log = <<>>
    /\ flex = FALSE /\ bracket = <<>> /\ out = None /\ stop = FALSE /\ cleared = FALSE
    /\ at = IF mode = "local" THEN "coarse" ELSE "run"

(* A search cut short has found nothing better than the whole would have.    *)
Cut(j) == {<<j, v>> : v \in {u \in Scores \cup {NoPlan} : u >= score[j]}}

(* A shard posts its rows: all of them, or after a Stop those before the     *)
(* candidate it was at and what that one had come to (_run_jobs).           *)
ShardPosts(k) ==
    /\ at = "run" /\ mode = "cloud" /\ k \notin Range(posts)
    /\ posts' = Append(posts, k)
    /\ LET all == [i \in DOMAIN Slice(k) |-> Row(Slice(k)[i])] IN
         \/ rows' = [rows EXCEPT ![k] = all]
         \/ stop /\ \E n \in DOMAIN all : \E r \in Cut(all[n][1]) :
              rows' = [rows EXCEPT ![k] = Append(SubSeq(all, 1, n - 1), r)]
    /\ UNCHANGED <<contest, log, flex, bracket, out, stop, at>>

(* A worker that fails posts no rows.                                       *)
ShardFails(k) ==
    /\ at = "run" /\ mode = "cloud" /\ k \notin Range(posts)
    /\ posts' = Append(posts, k)
    /\ UNCHANGED <<contest, rows, log, flex, bracket, out, stop, at>>

(* The last shard, or the watchdog with those that came, merges the rows;    *)
(* without a winner the server searches itself (mode "local").              *)
Merge ==
    /\ at = "run" /\ mode = "cloud"
    /\ out' = PickWinner(AllRows)
    /\ at' = "done"
    /\ UNCHANGED <<contest, posts, rows, log, flex, bracket, stop>>

(* The rows of a matrix come in any order.                                  *)
MatrixPosts ==
    /\ at = "run" /\ mode = "matrix"
    /\ \E j \in Matrix : Row(j) \notin Range(log) /\ log' = Append(log, Row(j))
    /\ UNCHANGED <<contest, posts, rows, flex, bracket, out, stop, at>>

Reduce ==
    /\ at = "run" /\ mode = "matrix" /\ log # <<>>
    /\ out' = ReduceResults(log) /\ at' = "done"
    /\ UNCHANGED <<contest, posts, rows, log, flex, bracket, stop>>

-----------------------------------------------------------------------------
(* The classic sweep (_sweep_optimize_classic)                              *)

(* One candidate after the other, the one in force first; a better score is  *)
(* taken, and that of the candidate Stop cut short counts too.              *)
SweepNext ==
    /\ at = "run" /\ mode = "sweep" /\ ~stop /\ Len(log) < Len(SweepContenders)
    /\ LET j == <<SweepContenders[Len(log) + 1], FALSE>> IN
         \E r \in Cut(j) :
           /\ stop' = (r # Row(j)) /\ log' = Append(log, r)
           /\ out' = IF r[2] # NoPlan /\ (out = None \/ r[2] < out[2]) THEN r ELSE out
    /\ UNCHANGED <<contest, posts, rows, flex, bracket, at>>

SweepEnds ==
    /\ at = "run" /\ mode = "sweep" /\ (stop \/ Len(log) = Len(SweepContenders))
    /\ at' = "done"
    /\ UNCHANGED <<contest, posts, rows, log, flex, bracket, out, stop>>

-----------------------------------------------------------------------------
(* The tuner (tune_overlap), once per machine set                           *)

Probed(x) == \E i \in DOMAIN log : log[i][1] = x
Value(x)  == log[CHOOSE i \in DOMAIN log : log[i][1] = x][2]

Point(i) == Lo + ((Hi - Lo) * (i - 1)) \div (Coarse - 1)
Golden(w) == (618034 * w + 500000) \div 1000000

Response(x) ==
    IF ~Peaked THEN (score[1] * x) % score[2]
    ELSE IF x < score[1] THEN score[2] * (score[1] - x) ELSE score[3] * (x - score[1])

(* f: a point is searched once.                                             *)
Probe(x) == ~Probed(x) /\ log' = Append(log, <<x, Response(x)>>)

CoarseProbe ==
    /\ at = "coarse" /\ Probe(Point(Len(log) + 1))
    /\ at' = IF stop \/ Len(log') = Coarse THEN "bracket" ELSE at
    /\ UNCHANGED <<contest, posts, rows, flex, bracket, out, stop>>

BestCoarse == Least(1..Coarse, LAMBDA i : <<Value(Point(i)), i>>)

(* mutant: the bracket begins at the best coarse point *)
LowEndBest(i) == Point(i)

LowEnd(i) == Point(Max({1, i - 1}))

(* The neighbours of the best coarse point; a coarse point that was not      *)
(* probed is a KeyError.                                                    *)
Bracket ==
    /\ at = "bracket"
    /\ IF stop THEN at' = "tuned" /\ UNCHANGED bracket
       ELSE IF \E i \in 1..Coarse : ~Probed(Point(i)) THEN at' = "error" /\ UNCHANGED bracket
       ELSE LET low  == LowEnd(BestCoarse)
                high == Point(Min({Coarse, BestCoarse + 1}))
                cut  == Golden(high - low)
            IN  bracket' = <<low, high - cut, low + cut, high>> /\ at' = "golden"
    /\ UNCHANGED <<contest, posts, rows, log, flex, out, stop>>

a == bracket[1]
c == bracket[2]
d == bracket[3]
b == bracket[4]

GoldenProbe ==
    /\ at = "golden" /\ Probe(IF Probed(c) THEN d ELSE c)
    /\ UNCHANGED <<contest, posts, rows, flex, bracket, out, stop, at>>

(* mutant: of two equal points neither side is given up *)
NarrowUnlessEqual ==
    /\ at = "golden" /\ Probed(c) /\ Probed(d) /\ b - a > Tol /\ ~stop
    /\ bracket' = CASE Value(c) < Value(d) -> <<a, d - Golden(d - a), c, d>>
                   [] Value(c) > Value(d) -> <<c, d, c + Golden(b - c), b>>
                   [] OTHER -> bracket
    /\ UNCHANGED <<contest, posts, rows, log, flex, out, stop, at>>

Narrow ==
    /\ at = "golden" /\ Probed(c) /\ Probed(d) /\ b - a > Tol /\ ~stop
    /\ bracket' = IF Value(c) < Value(d) THEN <<a, d - Golden(d - a), c, d>>
                                         ELSE <<c, d, c + Golden(b - c), b>>
    /\ UNCHANGED <<contest, posts, rows, log, flex, out, stop, at>>

Narrowed ==
    /\ at = "golden" /\ Probed(c) /\ Probed(d) /\ (b - a <= Tol \/ stop)
    /\ at' = "tuned"
    /\ UNCHANGED <<contest, posts, rows, log, flex, bracket, out, stop>>

(* "the best ever probed, not just the final bracket midpoint"              *)
BestPoint == log[Least(DOMAIN log, LAMBDA i : <<log[i][2], i>>)][1]

(* To the percentage; half of one goes either way.                          *)
Percent(x) == {(x + 4) \div 10, (x + 5) \div 10}

(* The overlap is rounded to a percentage and the plan at that percentage    *)
(* scored; the machine set with the better one wins, the first of equals.   *)
Tuned ==
    /\ at = "tuned"
    /\ \E pct \in Percent(BestPoint), v \in Scores :
         out' = IF out = None \/ v < out[2] THEN <<<<pct, flex>>, v>> ELSE out
    /\ IF flex \/ stop THEN at' = "done" /\ UNCHANGED <<flex, log, bracket>>
                       ELSE at' = "coarse" /\ flex' = TRUE /\ log' = <<>> /\ bracket' = <<>>
    /\ UNCHANGED <<contest, posts, rows, stop>>

-----------------------------------------------------------------------------
(* Apply (_optimize_apply): refused if the worst committed order would slip   *)
(* further than it does now and than is allowed.                            *)
Apply ==
    /\ at = "run" /\ mode = "plans"
    /\ out' = IF MaxCommittedSlip(score.lines, score.found)
                    > Max({Slack, MaxCommittedSlip(score.lines, score.now)})
              THEN None ELSE <<current, 0>>
    /\ at' = "done"
    /\ UNCHANGED <<contest, posts, rows, log, flex, bracket, stop>>

-----------------------------------------------------------------------------
(* "Stop & keep best"                                                       *)
Cancel ==
    /\ at \notin {"done", "error"} /\ mode \notin {"matrix", "plans"} /\ ~stop /\ stop' = TRUE
    /\ UNCHANGED <<contest, posts, rows, log, flex, bracket, out, at>>

(* The flag is the server's, not the search's: the end of the job, told by a *)
(* late worker, or a new one clears it while the thread computes on.        *)
Cleared ==
    /\ at \notin {"done", "error"} /\ mode = "local" /\ stop /\ ~cleared
    /\ stop' = FALSE /\ cleared' = TRUE
    /\ UNCHANGED <<mode, current, score, posts, rows, log, flex, bracket, out, at>>

Step ==
    \/ \E k \in 1..Shards : ShardPosts(k) \/ ShardFails(k)
    \/ Merge \/ MatrixPosts \/ Reduce \/ SweepNext \/ SweepEnds
    \/ CoarseProbe \/ Bracket \/ GoldenProbe \/ Narrow \/ Narrowed \/ Tuned
    \/ Apply

Idle == at \in {"done", "error"} /\ UNCHANGED vars

Next == Step \/ Cancel \/ Cleared \/ Idle

(* Workers answer or the watchdog merges without them; the server's thread   *)
(* is never blocked.                                                        *)
Spec == Init /\ [][Next]_vars /\ WF_vars(Step)

-----------------------------------------------------------------------------
Uncut == stop = FALSE /\ \A k \in 1..Shards : k \in Range(posts) /\ Len(rows[k]) = Len(Slice(k))

(* Points are between the ends, winners are candidates or percentages.      *)
TypeOK ==
    /\ at \in {"run", "coarse", "bracket", "golden", "tuned", "done", "error"}
    /\ mode = "local" => \A i \in DOMAIN log : log[i][1] \in Lo..Hi
    /\ out # None => out[1] \in Jobs \cup Matrix \cup ((0..100) \X BOOLEAN)

(* The shards share the candidates out: none is searched twice, and those of *)
(* all the shards are the whole contest.                                    *)
EachCandidateOnce ==
    mode = "cloud" =>
        /\ \A i, j \in DOMAIN AllRows : AllRows[i][1] = AllRows[j][1] => i = j
        /\ Uncut => {r[1] : r \in Range(AllRows)} = Jobs

(* "a cloud run of the same contest is byte-identical to a local run": when  *)
(* every shard answered in full, the winner has the score and the overlap of *)
(* the contest run in one process, in whatever order the shards came; it is  *)
(* the same unless the two machine sets tie.                                *)
SameAsOneProcess ==
    mode = "cloud" /\ at = "done" /\ Uncut =>
        \/ out = RunContest
        \/ /\ out # None /\ RunContest # None /\ current \notin {out[1], RunContest[1]}
           /\ out[2] = RunContest[2] /\ out[1][1] = RunContest[1][1]

(* The same, with the machine set                                           *)
SameMachineSet == mode = "cloud" /\ at = "done" /\ Uncut => out = RunContest

(* "Best score wins; an exact tie keeps the current": of the rows that came, *)
(* cut short or not, none is better than the winner, and the setting in      *)
(* force loses to a better one only.                                        *)
FairWinner ==
    mode = "cloud" /\ at = "done" =>
        \A r \in Range(AllRows) :
            /\ r[2] # NoPlan => out # None /\ r[2] >= out[2]
            /\ r[1] = current /\ r[2] # NoPlan /\ r[2] = out[2] => out = r

(* "the incumbent keeps exact ties" in both contests: the sweep, stopped or  *)
(* not, and the cloud's rule choose the same winner from the same rows.     *)
SweepAgrees == mode = "sweep" /\ at = "done" => out = PickWinner(log)

(* "picked exactly as the in-process run picks it": the rows of all the jobs *)
(* reduce to the plan of one process, in whatever order they came, and to    *)
(* the choice of the contests of overlaps and of windows.                   *)
MatrixAgrees ==
    mode = "matrix" /\ at = "done" /\ Len(log) = Cardinality(Matrix) =>
        /\ out = RunOffload
        /\ out[1][1] = OptimizeOverlap(out[1][2]) /\ out[1][2] = TuneConsolidation(out[1][1])

(* The points inside the bracket are in order, and a single peak is never    *)
(* shut out.                                                                *)
BracketHolds ==
    bracket # <<>> => /\ a <= c /\ c < d /\ d <= b
                     /\ (Peaked => score[1] \in a..b)

(* "homes in on the true optimum": a single peak is found to the tolerance.  *)
GoldenFinds ==
    at = "tuned" /\ Peaked /\ bracket # <<>> /\ b - a <= Tol =>
        BestPoint - score[1] \in -Tol..Tol

(* A tuner that was stopped in its coarse pass takes the best it has; it     *)
(* does not look for points that were never probed, unless the flag was      *)
(* cleared under it.                                                        *)
NoLookupError == at = "error" => cleared

Metrics(plan) == PlanMetrics(score.lines, plan, score.ceiling)

(* "The two scorers must judge a plan identically": the search's terms are    *)
(* those of the contest; only the makespan is counted from the plan's start  *)
(* and rounded later.                                                       *)
ScorersAgree ==
    mode = "plans" =>
        LET m == Metrics(score.found)
            o == Objective(ComputeMetrics(score.lines, score.found), score.ceiling)
        IN  /\ m.ontime = o.ontime /\ m.ceiling = o.ceiling
            /\ m.promise = o.promise /\ m.target = o.target
            /\ 100 * m.makespan - o.makespan - (10000 * PlanStart) \div Minutes \in -52..52

(* "a plan meeting the date always beats one missing it", however late the    *)
(* other orders of these books are, committed ones too. The weights are        *)
(* numbers, so books with far later orders would break it (`Outweighed`).    *)
MustFinishFirst ==
    mode = "plans" =>
        LET m == Metrics(score.now)
            n == Metrics(score.found)
        IN  m.target = 0 /\ n.target > 0 => Beats(m, n)

(* "a late day is never free, wherever it sits": of two plans that differ in   *)
(* one late order, beyond the cap too, the earlier one scores better.       *)
LateDayCosts ==
    mode = "plans" =>
        \A k \in DOMAIN score.now :
            /\ Gap(score.lines, score.now, k) >= 0
            /\ Gap(score.lines, score.found, k) > Gap(score.lines, score.now, k)
            /\ \A j \in DOMAIN score.now \ {k} : score.now[j] = score.found[j]
            => Beats(Metrics(score.now), Metrics(score.found))

(* The screen before an accept: total late days rise only if an order is      *)
(* listed as moved, and then by no more than the days it moved.              *)
MovementAddsUp ==
    mode = "plans" =>
        LET before == [k \in DOMAIN score.now \ Drafts |-> score.now[k]]
            shown  == QuoteMovement(score.lines, before, score.found)
            days   == [k \in shown.moved |-> Expected(score.found)[k] - Expected(before)[k]]
        IN  shown.after - shown.before <= SumFunction(days)

(* "[Makespan] must never outrank a genuine on-time improvement"              *)
MakespanBreaksTies ==
    mode = "plans" =>
        LET m == Metrics(score.now)
            n == Metrics(score.found)
        IN  /\ m.ontime < n.ontime /\ m.target = n.target
            /\ m.ceiling = n.ceiling /\ m.promise = n.promise
            => Beats(m, n)

(* "a committed order never slips past promise+slack via re-optimize, on ANY  *)
(* apply path"                                                              *)
CommittedStays ==
    mode = "plans" /\ at = "done" /\ out # None =>
        \A k \in Committed(score.lines, score.found) :
            LET slip(plan) == Expected(plan)[k] - score.lines[k].promised
            IN  slip(score.found) <= Max({Slack, slip(score.now)})

(* Every contest ends.                                                      *)
Finishes == <>(at \in {"done", "error"})

(* However the work is split, and in whatever order the answers come, the    *)
(* contest is that of one process that tries every candidate once.           *)
ContestsAgree ==
    TypeOK /\ EachCandidateOnce /\ SameAsOneProcess /\ FairWinner /\ SweepAgrees /\ MatrixAgrees

(* The tuner keeps the peak in its bracket and ends on it, and never asks    *)
(* for a score it does not have.                                             *)
TunerFinds == BracketHolds /\ GoldenFinds /\ NoLookupError

(* What an admin is shown before an accept, and what decides a contest.      *)
ScoresHonest == ScorersAgree /\ MustFinishFirst /\ LateDayCosts /\ MovementAddsUp
============================================================================
