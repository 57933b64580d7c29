---------------------------- MODULE OptimizeJob ----------------------------
(***************************************************************************)
(* The life of an Optimize search in the web server (api/main.py).          *)
(*                                                                         *)
(* One dictionary, _OPTIMIZE, holds the only search of the process.  It is  *)
(* shared by                                                               *)
(*   - the thread that _start_optimize spawns for each search (cloud_job,   *)
(*     which may turn into local_job),                                     *)
(*   - the request handlers of the threadpool: start, cancel, apply, and   *)
(*     the worker endpoints,                                               *)
(*   - the workers outside the process: one GitHub runner per shard, and    *)
(*     the always-on Oracle poller.                                        *)
(* Every locked block of the code is one action; what a thread does between *)
(* two locked blocks, on values it read before, is where the others move.   *)
(*                                                                         *)
(* Left out: scores, progress counters, notes and the text of errors; the   *)
(* fields "mode" and "auto" (display; the auto path is unreferenced); and   *)
(* "cloud_payload", which is present exactly while a cloud search runs.     *)
(***************************************************************************)
EXTENDS Naturals

CONSTANTS
    Cloud,      \* is the cloud configured (_cloud_config() is not None)
    MaxJobs,    \* bound: searches started in a behaviour
    Shards,     \* the GitHub matrix
    Handlers,   \* bound: requests that finalize a result at the same time
    Faults      \* what may go wrong in a behaviour

Jobs == 1..MaxJobs
Actors == Jobs \cup Handlers

FaultKinds ==
    {"dispatchFail",    \* GitHub does not (seem to) accept the dispatch
     "workerDie",       \* a worker vanishes
     "workerErr",       \* a worker reports an error
     "noWinner",        \* a shard holds no eligible plan
     "retry",           \* a GitHub worker loses a reply and posts again
     "retryPlan",       \* the Oracle worker does
     "exception",       \* a thread or handler raises
     "slowMerge",       \* the tick of the deadline may fall within a merge
     "restart"}         \* the server process restarts

ASSUME OptimizeAssumption ==
    /\ Cloud \in BOOLEAN
    /\ MaxJobs \in Nat \ {0}
    /\ Handlers \cap Jobs = {}
    /\ Faults \subseteq FaultKinds

VARIABLES
    (* the fields of _OPTIMIZE *)
    state, jobId, kind, cancel, claimed, cloudFailed, shards, finalizing, result,
    (* the server's threads: job threads (named by their job) and handlers *)
    pc, task,
    (* what the clock tells the watchdog of the current search: it saw the   *)
    (* Stop, the grace window is over, the 40-minute deadline has passed (a  *)
    (* superseded watchdog leaves before it looks at any of these)           *)
    seen, graceOver, late,
    (* the workers *)
    worker, oracle,
    (* an apply / accept request between its check of "kind" and its work *)
    applying

fields  == <<state, jobId, kind, cancel, claimed, cloudFailed, shards, finalizing, result>>
threads == <<pc, task>>
clock   == <<seen, graceOver, late>>
workers == <<worker, oracle>>
vars    == <<fields, threads, clock, workers, applying>>

Kinds    == {"plan", "quote"}
NoShard  == [job |-> 0, rows |-> "none"]
NoShards == [s \in Shards |-> NoShard]
NoResult == [job |-> 0, kind |-> "plan"]
NoTask   == [why |-> "none", job |-> 0, won |-> FALSE, kind |-> "plan"]

(* why a finalize runs: the watchdog salvages after a Stop or a timeout, the *)
(* local search ended, the last shard arrived, a whole result arrived        *)
Reasons      == {"none", "stop", "salvage", "local", "collect", "result"}
MergeReasons == {"stop", "salvage", "collect"}
PCs == {"none", "baseline", "window", "recheck", "stopUnclaimed", "dispatch", "wait", "stop",
        "stopEnd", "stopCheck", "salvaged", "local", "exit",     \* job threads
        "idle",                                                  \* handlers
        "snap", "merge", "commit"}                               \* both

Slot   == [job : 0..MaxJobs, rows : {"none", "win", "empty"}]
Result == [job : 0..MaxJobs, kind : Kinds]
Task   == [why : Reasons, job : 0..MaxJobs, won : BOOLEAN, kind : Kinds]
WorkerStates == {"off", "boot", "run", "win", "empty", "err", "gone"}
OracleStates == [st : {"idle", "polled", "run", "win", "err"}, job : 0..MaxJobs]

FieldsOK ==
    /\ state \in {"idle", "running", "done", "failed"}
    /\ jobId \in 0..MaxJobs
    /\ kind \in Kinds
    /\ cancel \in BOOLEAN /\ claimed \in BOOLEAN
    /\ cloudFailed \in BOOLEAN /\ finalizing \in BOOLEAN
    /\ shards \in [Shards -> Slot]
    /\ result \in Result
ThreadsOK == pc \in [Actors -> PCs] /\ task \in [Actors -> Task]
ClockOK   == seen \in BOOLEAN /\ graceOver \in BOOLEAN /\ late \in BOOLEAN
WorkersOK == worker \in [Jobs -> [Shards -> WorkerStates]] /\ oracle \in OracleStates

TypeOK == FieldsOK /\ ThreadsOK /\ ClockOK /\ WorkersOK /\ applying \in {"none"} \cup Kinds

Init ==
    /\ state = "idle" /\ jobId = 0 /\ kind = "plan"
    /\ cancel = FALSE /\ claimed = FALSE /\ cloudFailed = FALSE
    /\ shards = NoShards /\ finalizing = FALSE /\ result = NoResult
    /\ pc = [a \in Actors |-> IF a \in Jobs THEN "none" ELSE "idle"]
    /\ task = [a \in Actors |-> NoTask]
    /\ seen = FALSE /\ graceOver = FALSE /\ late = FALSE
    /\ worker = [j \in Jobs |-> [s \in Shards |-> "off"]]
    /\ oracle = [st |-> "idle", job |-> 0]
    /\ applying = "none"

-----------------------------------------------------------------------------
(* The test every locked block of the code makes: this job, still running.  *)
Running(j)  == state = "running" /\ jobId = j
HaveShards  == \E s \in Shards : shards[s].job # 0
HaveWinner  == \E s \in Shards : shards[s].rows = "win"
Goto(a, l)  == pc' = [pc EXCEPT ![a] = l]
Fail        == state' = "failed" /\ cancel' = FALSE

Merging(a, j) == task[a].why \in MergeReasons /\ task[a].job = j

-----------------------------------------------------------------------------
(* Request handlers of the admin                                            *)

Start(k) ==
    /\ state # "running" /\ jobId < MaxJobs
    /\ state' = "running" /\ jobId' = jobId + 1 /\ kind' = k
    /\ cancel' = FALSE /\ claimed' = FALSE /\ cloudFailed' = FALSE
    /\ shards' = NoShards /\ finalizing' = FALSE /\ result' = NoResult
    /\ Goto(jobId + 1, IF Cloud THEN "baseline" ELSE "local")
    /\ seen' = FALSE /\ graceOver' = FALSE /\ late' = FALSE
    /\ UNCHANGED <<task, workers, applying>>

Cancel ==
    /\ cancel' = (cancel \/ state = "running")
    /\ UNCHANGED <<state, jobId, kind, claimed, cloudFailed, shards, finalizing, result,
                   threads, clock, workers, applying>>

(* /optimize/apply reads "kind", /new-orders/prepone/accept reads kind,      *)
(* state and result, each in a locked block of its own ...                   *)
AskApply ==
    /\ applying = "none"
    /\ \/ kind = "plan" /\ applying' = "plan"
       \/ kind = "quote" /\ state = "done" /\ result # NoResult /\ applying' = "quote"
    /\ UNCHANGED <<fields, threads, clock, workers>>

(* mutant: state and result are not read again under the lock *)
ApplyUnchecked ==
    /\ applying # "none" /\ applying' = "none"
    /\ state' = "idle" /\ result' = NoResult
    /\ UNCHANGED <<jobId, kind, cancel, claimed, cloudFailed, shards, finalizing,
                   threads, clock, workers>>

(* ... and _optimize_apply takes the lock again.  It may still refuse (the   *)
(* promise backstop, a plan that cannot be built or saved).                  *)
Apply ==
    /\ applying # "none" /\ applying' = "none"
    /\ \/ /\ state = "done" /\ result # NoResult
          /\ state' = "idle" /\ result' = NoResult
       \/ UNCHANGED <<state, result>>
    /\ UNCHANGED <<jobId, kind, cancel, claimed, cloudFailed, shards, finalizing,
                   threads, clock, workers>>

-----------------------------------------------------------------------------
(* cloud_job: the claim window, the dispatch, the watchdog loop             *)

Baseline(j) ==
    /\ pc[j] = "baseline" /\ Goto(j, "window")
    /\ UNCHANGED <<fields, task, clock, workers, applying>>

(* The Oracle poller claims, the admin stops, or the window closes.          *)
EndWindow(j) ==
    /\ pc[j] = "window"
    /\ Goto(j, IF Running(j) THEN "recheck" ELSE "exit")
    /\ UNCHANGED <<fields, task, clock, workers, applying>>

Recheck(j) ==
    /\ pc[j] = "recheck"
    /\ Goto(j, CASE ~Running(j)       -> "exit"
                 [] claimed           -> "wait"
                 [] cancel            -> "stopUnclaimed"
                 [] OTHER             -> "dispatch")
    /\ UNCHANGED <<fields, task, clock, workers, applying>>

(* StopUnclaimed, StopEnd, StopCheck: the writes of state = "failed" that    *)
(* end a stopped job.                                                       *)
FailIf(c) ==
    \/ c /\ Fail
    \/ ~c /\ UNCHANGED <<state, cancel>>

StopUnclaimed(j) ==
    /\ pc[j] = "stopUnclaimed" /\ Goto(j, "exit")
    /\ FailIf(Running(j))
    /\ UNCHANGED <<jobId, kind, claimed, cloudFailed, shards, finalizing, result,
                   task, clock, workers, applying>>

BootWorkers(j) == worker' = [worker EXCEPT ![j] = [s \in Shards |-> "boot"]]

Dispatch(j) ==
    /\ pc[j] = "dispatch" /\ Goto(j, "wait")
    /\ BootWorkers(j)
    /\ UNCHANGED <<fields, task, clock, oracle, applying>>

(* No 204 within 20 s; GitHub may have accepted the dispatch all the same.   *)
DispatchFails(j) ==
    /\ "dispatchFail" \in Faults
    /\ pc[j] = "dispatch" /\ Goto(j, IF Running(j) THEN "local" ELSE "exit")
    /\ BootWorkers(j) \/ UNCHANGED worker
    /\ UNCHANGED <<fields, task, clock, oracle, applying>>

(* One poll of the wait loop, in its four outcomes (a fifth changes nothing) *)
TickOver(j) ==
    /\ pc[j] = "wait" /\ ~Running(j) /\ Goto(j, "exit")
    /\ UNCHANGED <<fields, task, clock, workers, applying>>

StopExpired == late \/ (seen /\ graceOver)

TickStop(j) ==
    /\ pc[j] = "wait" /\ Running(j) /\ cancel
    /\ seen' = TRUE
    /\ Goto(j, IF StopExpired THEN "stop" ELSE "wait")
    /\ UNCHANGED <<fields, task, graceOver, late, workers, applying>>

TimedOut(j) ==
    /\ pc[j] = "wait" /\ Running(j) /\ ~cancel
    /\ late \/ cloudFailed
    /\ "slowMerge" \in Faults \/ \A a \in Actors : ~Merging(a, j)

(* mutant: the claim is taken and not recorded *)
ClaimMergeUnlatched(a, j, why) ==
    /\ finalizing' = finalizing
    /\ task' = [task EXCEPT ![a] = [NoTask EXCEPT !.why = why, !.job = j]]

ClaimMerge(a, j, why) ==
    /\ finalizing' = TRUE
    /\ task' = [task EXCEPT ![a] = [NoTask EXCEPT !.why = why, !.job = j]]

TickSalvage(j) ==
    /\ TimedOut(j) /\ HaveShards /\ ~finalizing
    /\ ClaimMerge(j, j, "salvage") /\ Goto(j, "snap")
    /\ UNCHANGED <<state, jobId, kind, cancel, claimed, cloudFailed, shards, result,
                   clock, workers, applying>>

(* No shard: compute here.  Shards that another party is merging: leave.     *)
TickGiveUp(j) ==
    /\ TimedOut(j) /\ (HaveShards => finalizing)
    /\ Goto(j, IF HaveShards THEN "exit" ELSE "local")
    /\ UNCHANGED <<fields, task, clock, workers, applying>>

(* _cancel_cloud_job, first locked block *)
StopClaim(j) ==
    /\ pc[j] = "stop"
    /\ \/ /\ Running(j) /\ HaveShards /\ ~finalizing
          /\ ClaimMerge(j, j, "stop") /\ Goto(j, "snap")
       \/ /\ Running(j) => HaveShards /\ finalizing
          /\ Goto(j, "stopCheck") /\ UNCHANGED <<finalizing, task>>
       \/ /\ Running(j) /\ ~HaveShards
          /\ Goto(j, "stopEnd") /\ UNCHANGED <<finalizing, task>>
    /\ UNCHANGED <<state, jobId, kind, cancel, claimed, cloudFailed, shards, result,
                   clock, workers, applying>>

(* ... and its last one *)
StopEnd(j) ==
    /\ pc[j] = "stopEnd" /\ Goto(j, "stopCheck")
    /\ FailIf(Running(j))
    /\ cloudFailed' = (cloudFailed /\ ~Running(j))
    /\ UNCHANGED <<jobId, kind, claimed, shards, finalizing, result,
                   task, clock, workers, applying>>

(* mutant: the watchdog leaves once it has honoured the Stop *)
StopCheckLeaves(j) ==
    /\ pc[j] = "stopCheck"
    /\ FailIf(Running(j) /\ late)
    /\ Goto(j, "exit")
    /\ UNCHANGED <<jobId, kind, claimed, cloudFailed, shards, finalizing, result,
                   task, clock, workers, applying>>

StopCheck(j) ==
    /\ pc[j] = "stopCheck"
    /\ FailIf(Running(j) /\ late)
    /\ cloudFailed' = (cloudFailed /\ ~(Running(j) /\ late))
    /\ Goto(j, IF Running(j) /\ ~late THEN "wait" ELSE "exit")
    /\ UNCHANGED <<jobId, kind, claimed, shards, finalizing, result,
                   task, clock, workers, applying>>

(* After the timeout's salvage: no eligible plan means compute here.         *)
Salvaged(j) ==
    /\ pc[j] = "salvaged"
    /\ Goto(j, IF Running(j) /\ cloudFailed THEN "local" ELSE "exit")
    /\ UNCHANGED <<fields, task, clock, workers, applying>>

(* local_job: the sweep ends, by its budget or by the Stop flag.             *)
LocalEnd(j) ==
    /\ pc[j] = "local" /\ Goto(j, "commit")
    /\ task' = [task EXCEPT ![j] = [why |-> "local", job |-> j, won |-> TRUE, kind |-> kind]]
    /\ UNCHANGED <<fields, clock, workers, applying>>

-----------------------------------------------------------------------------
(* _finalize_from_shards and _finalize_optimize, run by a job thread or by a *)
(* request handler                                                          *)

Return(a) ==
    /\ Goto(a, CASE task[a].why = "stop"              -> "stopEnd"
                 [] task[a].why = "salvage"           -> "salvaged"
                 [] task[a].why = "local"             -> "exit"
                 [] OTHER                             -> "idle")
    /\ task' = [task EXCEPT ![a] = NoTask]

(* The merge works on the shards as they are now. *)
Snap(a) ==
    /\ pc[a] = "snap"
    /\ \/ /\ Running(task[a].job) /\ Goto(a, "merge")
          /\ task' = [task EXCEPT ![a].won = HaveWinner]
       \/ ~Running(task[a].job) /\ Return(a)
    /\ UNCHANGED <<fields, clock, workers, applying>>

(* mutant: the shards that held no plan stay *)
NoWinnerKeepsShards(a) ==
    /\ pc[a] = "merge" /\ ~task[a].won /\ Return(a)
    /\ cloudFailed' = (cloudFailed \/ Running(task[a].job))
    /\ UNCHANGED <<state, jobId, kind, cancel, claimed, shards, finalizing, result,
                   clock, workers, applying>>

NoWinner(a) ==
    /\ pc[a] = "merge" /\ ~task[a].won /\ Return(a)
    /\ \/ Running(task[a].job) /\ cloudFailed' = TRUE /\ shards' = NoShards
       \/ ~Running(task[a].job) /\ UNCHANGED <<cloudFailed, shards>>
    /\ UNCHANGED <<state, jobId, kind, cancel, claimed, finalizing, result,
                   clock, workers, applying>>

(* mutant: a cloud result is taken for a plan, whatever was searched *)
ReplayAsPlan(a) ==
    /\ pc[a] = "merge" /\ task[a].won /\ Goto(a, "commit")
    /\ task' = [task EXCEPT ![a].kind = "plan"]
    /\ UNCHANGED <<fields, clock, workers, applying>>

(* The unlocked part of _finalize_optimize reads "kind" and "extra_orders".  *)
Replay(a) ==
    /\ pc[a] = "merge" /\ task[a].won /\ Goto(a, "commit")
    /\ task' = [task EXCEPT ![a].kind = kind]
    /\ UNCHANGED <<fields, clock, workers, applying>>

Store(a) == result' = [job |-> task[a].job, kind |-> task[a].kind]

(* The locked part: it looks at the job id, not at the state. *)
Commit(a) ==
    /\ pc[a] = "commit" /\ Return(a)
    /\ \/ jobId = task[a].job /\ state' = "done" /\ cancel' = FALSE /\ Store(a)
       \/ jobId # task[a].job /\ UNCHANGED <<state, cancel, result>>
    /\ UNCHANGED <<jobId, kind, claimed, cloudFailed, shards, finalizing,
                   clock, workers, applying>>

(* An exception in a job thread is reported whatever job is current; if the  *)
(* store failed after the result was put in place, the result stays.         *)
Crash(j) ==
    /\ "exception" \in Faults
    /\ pc[j] \in {"baseline", "merge", "commit", "local"}
    /\ Fail
    /\ \/ UNCHANGED result
       \/ pc[j] = "commit" /\ jobId = task[j].job /\ Store(j)
    /\ Goto(j, "exit") /\ task' = [task EXCEPT ![j] = NoTask]
    /\ UNCHANGED <<jobId, kind, claimed, cloudFailed, shards, finalizing,
                   clock, workers, applying>>

(* An exception in a handler: the shard collector ends the job it merged.    *)
HandlerCrash(h) ==
    /\ "exception" \in Faults
    /\ pc[h] \in {"merge", "commit"}
    /\ FailIf(task[h].why = "collect" /\ Running(task[h].job))
    /\ cloudFailed' = (cloudFailed /\ ~(task[h].why = "collect" /\ Running(task[h].job)))
    /\ Return(h)
    /\ UNCHANGED <<jobId, kind, claimed, shards, finalizing, result,
                   clock, workers, applying>>

-----------------------------------------------------------------------------
(* The workers and the endpoints they call                                  *)

SetWorker(j, s, st) == worker' = [worker EXCEPT ![j][s] = st]

(* GET /optimize/job of a GitHub runner; a 404 ends it. *)
GitHubFetch(j, s) ==
    /\ worker[j][s] = "boot"
    /\ claimed' = (claimed \/ Running(j))
    /\ SetWorker(j, s, IF Running(j) THEN "run" ELSE "gone")
    /\ UNCHANGED <<state, jobId, kind, cancel, cloudFailed, shards, finalizing, result,
                   threads, clock, oracle, applying>>

(* The slice is computed, to its end or to the Stop heard on a heartbeat.    *)
GitHubFinish(j, s) ==
    /\ worker[j][s] = "run"
    /\ \/ SetWorker(j, s, "win")
       \/ "noWinner" \in Faults /\ SetWorker(j, s, "empty")
       \/ "workerErr" \in Faults /\ SetWorker(j, s, "err")
    /\ UNCHANGED <<fields, threads, clock, oracle, applying>>

GitHubDie(j, s) ==
    \/ /\ "workerDie" \in Faults /\ worker[j][s] \in {"boot", "run"}
       /\ SetWorker(j, s, "gone")
       /\ UNCHANGED <<fields, threads, clock, oracle, applying>>
    \/ (* no attempt of the post was answered: report an error instead *)
       /\ "retry" \in Faults /\ worker[j][s] \in {"win", "empty"}
       /\ SetWorker(j, s, "err")
       /\ UNCHANGED <<fields, threads, clock, oracle, applying>>

(* The reply to a post reaches the worker, or the worker will post again.    *)
Reply(j, s) ==
    \/ SetWorker(j, s, "gone")
    \/ "retry" \in Faults /\ UNCHANGED worker

PostedRows(j, s) ==
    [job |-> j, rows |-> IF worker[j][s] = "win" THEN "win" ELSE "empty"]

(* mutant: shards are recorded while a merge is under way *)
CanRecordDuringMerge(j) == Running(j)

CanRecord(j) == Running(j) /\ ~finalizing
Complete(sh) == \A s \in Shards : sh[s].job # 0

(* POST /optimize/shard-result: a no-op, a shard recorded, or the last shard *)
(* recorded and the merge claimed by this request.                          *)
PostShard(j, s) ==
    /\ worker[j][s] \in {"win", "empty", "err"} /\ Reply(j, s)
    /\ \/ ~CanRecord(j) /\ UNCHANGED <<shards, finalizing, threads>>
       \/ /\ CanRecord(j) /\ shards' = [shards EXCEPT ![s] = PostedRows(j, s)]
          /\ \/ ~Complete(shards') /\ UNCHANGED <<finalizing, threads>>
             \/ /\ Complete(shards')
                /\ \E h \in Handlers :
                     pc[h] = "idle" /\ ClaimMerge(h, j, "collect") /\ Goto(h, "snap")
    /\ UNCHANGED <<state, jobId, kind, cancel, claimed, cloudFailed, result,
                   clock, oracle, applying>>

(* GET /optimize/pending, then (after a git fetch) GET /optimize/job.        *)
OraclePoll ==
    /\ Cloud /\ oracle.st = "idle" /\ state = "running" /\ ~claimed
    /\ oracle' = [st |-> "polled", job |-> jobId]
    /\ UNCHANGED <<fields, threads, clock, worker, applying>>

OracleIdle == oracle' = [st |-> "idle", job |-> 0]

OracleFetch ==
    /\ oracle.st = "polled"
    /\ \/ Running(oracle.job) /\ claimed' = TRUE /\ oracle' = [oracle EXCEPT !.st = "run"]
       \/ ~Running(oracle.job) /\ UNCHANGED claimed /\ OracleIdle
    /\ UNCHANGED <<state, jobId, kind, cancel, cloudFailed, shards, finalizing, result,
                   threads, clock, worker, applying>>

OracleFinish ==
    /\ \/ oracle.st = "run" /\ oracle' = [oracle EXCEPT !.st = "win"]
       \/ /\ oracle.st = "run" /\ {"noWinner", "workerErr"} \cap Faults # {}
          /\ oracle' = [oracle EXCEPT !.st = "err"]
       \/ oracle.st = "win" /\ "retryPlan" \in Faults /\ oracle' = [oracle EXCEPT !.st = "err"]
       \/ oracle.st \in {"polled", "run"} /\ "workerDie" \in Faults /\ OracleIdle
    /\ UNCHANGED <<fields, threads, clock, worker, applying>>

(* POST /optimize/result with a plan: refused (404), or finalized by this    *)
(* request, with no claim that would keep a second one out.                  *)
PostResult ==
    /\ oracle.st = "win"
    /\ \/ ~Running(oracle.job) /\ OracleIdle /\ UNCHANGED threads
       \/ /\ Running(oracle.job)
          /\ OracleIdle \/ ("retryPlan" \in Faults /\ UNCHANGED oracle)
          /\ \E h \in Handlers :
               /\ pc[h] = "idle" /\ Goto(h, "merge")
               /\ task' = [task EXCEPT ![h] = [why |-> "result", job |-> oracle.job,
                                               won |-> TRUE, kind |-> "plan"]]
    /\ UNCHANGED <<fields, clock, worker, applying>>

(* POST /optimize/result without one: the watchdog is to compute locally.    *)
PostError ==
    /\ oracle.st = "err" /\ OracleIdle
    /\ cloudFailed' = (cloudFailed \/ Running(oracle.job))
    /\ UNCHANGED <<state, jobId, kind, cancel, claimed, shards, finalizing, result,
                   threads, clock, worker, applying>>

-----------------------------------------------------------------------------
(* Time and the process                                                     *)

Deadline ==
    /\ ~late /\ jobId \in Jobs
    /\ pc[jobId] \in {"wait", "stop", "stopEnd", "stopCheck"} \/ task[jobId].why = "stop"
    /\ late' = TRUE
    /\ UNCHANGED <<fields, threads, seen, graceOver, workers, applying>>

GraceEnds ==
    /\ seen /\ ~graceOver /\ jobId \in Jobs /\ pc[jobId] = "wait"
    /\ graceOver' = TRUE
    /\ UNCHANGED <<fields, threads, seen, late, workers, applying>>

(* The process and everything in _OPTIMIZE is gone; the workers are not.  A  *)
(* job id is never given twice, so the counter stays.                       *)
Restart ==
    /\ "restart" \in Faults /\ state # "idle"
    /\ state' = "idle" /\ kind' = "plan" /\ result' = NoResult
    /\ cancel' = FALSE /\ claimed' = FALSE /\ cloudFailed' = FALSE
    /\ shards' = NoShards /\ finalizing' = FALSE
    /\ pc' = [a \in Actors |-> IF a \in Handlers THEN "idle"
                               ELSE IF a <= jobId THEN "exit" ELSE "none"]
    /\ task' = [a \in Actors |-> NoTask]
    /\ seen' = FALSE /\ graceOver' = FALSE /\ late' = FALSE
    /\ applying' = "none"
    /\ UNCHANGED <<jobId, workers>>

-----------------------------------------------------------------------------
Finalize(a) == Snap(a) \/ NoWinner(a) \/ Replay(a) \/ Commit(a)

Tick(j) == TickOver(j) \/ TickStop(j) \/ TickSalvage(j) \/ TickGiveUp(j)

Thread(j) ==
    \/ Baseline(j) \/ EndWindow(j) \/ Recheck(j) \/ StopUnclaimed(j)
    \/ Dispatch(j) \/ DispatchFails(j) \/ Tick(j)
    \/ StopClaim(j) \/ StopEnd(j) \/ StopCheck(j)
    \/ Salvaged(j) \/ LocalEnd(j) \/ Finalize(j)

GitHub(j, s) == GitHubFetch(j, s) \/ GitHubFinish(j, s) \/ GitHubDie(j, s) \/ PostShard(j, s)
Oracle == OraclePoll \/ OracleFetch \/ OracleFinish \/ PostResult \/ PostError

Next ==
    \/ \E k \in Kinds : Start(k)
    \/ Cancel \/ AskApply \/ Apply
    \/ \E j \in Jobs : Thread(j) \/ Crash(j)
    \/ Deadline \/ GraceEnds
    \/ \E h \in Handlers : Finalize(h) \/ HandlerCrash(h)
    \/ \E j \in Jobs, s \in Shards : GitHub(j, s)
    \/ Oracle
    \/ Restart

Spec == Init /\ [][Next]_vars

(* The operating system runs every thread and handler, the local sweep ends  *)
(* with its budget, and time passes.  Nothing is assumed of the workers or   *)
(* of the admin.                                                            *)
Fairness ==
    /\ WF_vars(Deadline) /\ WF_vars(GraceEnds)
    /\ \A j \in Jobs : WF_vars(Thread(j))
    /\ \A h \in Handlers : WF_vars(Finalize(h))

FairSpec == Spec /\ Fairness

-----------------------------------------------------------------------------
(* Safety                                                                   *)

(* shards_finalizing keeps the two parties that may merge a job's shards     *)
(* apart (the request that brought the last shard, the watchdog after a     *)
(* timeout or a Stop): never two merges of one job at a time.                *)
OneMerge ==
    \A a, b \in Actors, j \in Jobs : Merging(a, j) /\ Merging(b, j) => a = b

(* _finalize_optimize reads "kind" and "extra_orders" without the lock and   *)
(* long before it stores the result.  A stored result is nevertheless of the *)
(* current search and was computed for that search's kind, so a quote is     *)
(* never offered as a plan.                                                  *)
ResultIsOfThisSearch ==
    result # NoResult => result.job = jobId /\ result.kind = kind

(* What the Apply button relies on: state "done" comes with a result.        *)
DoneHasResult == state = "done" => result # NoResult

(* At-least-once posts and late workers never put rows of an earlier search  *)
(* among the shards of this one.                                            *)
ShardsOfThisSearch == \A s \in Shards : shards[s].job \in {0, jobId}

(* Why these hold, step by step.  Threads and tasks exist only for searches   *)
(* that were started; a finalizer has a task; whoever merges the shards of   *)
(* the current search holds the claim; a result about to be stored for the   *)
(* current search has its kind; a merge that found no plan is right about    *)
(* the shards as they still are.                                            *)
Started    == /\ state = "running" => jobId # 0
              /\ \A j \in Jobs : j > jobId => pc[j] = "none"
TasksKnown == \A a \in Actors :
                /\ task[a].job <= jobId
                /\ pc[a] \in {"snap", "merge", "commit"} => task[a].job # 0
                /\ pc[a] = "snap" \/ (pc[a] = "merge" /\ ~task[a].won)
                     => task[a].why \in MergeReasons
ClaimHeld  == \A a \in Actors : Merging(a, jobId) => finalizing
CommitKind == \A a \in Actors : pc[a] = "commit" /\ task[a].job = jobId => task[a].kind = kind
NoWinnerIsTrue ==
    \A a \in Actors :
        pc[a] = "merge" /\ ~task[a].won /\ Running(task[a].job) => ~HaveWinner

IInv ==
    /\ TypeOK
    /\ Started /\ TasksKnown /\ ClaimHeld /\ CommitKind /\ NoWinnerIsTrue
    /\ OneMerge /\ ResultIsOfThisSearch /\ DoneHasResult /\ ShardsOfThisSearch

(* The no-winner branch throws the shards away after a merge that ran on an  *)
(* older snapshot.  It never throws away a plan: no shard with an eligible   *)
(* plan arrived in between (recording is closed while a merge is claimed).   *)
DiscardsNoPlan ==
    [][shards' = NoShards /\ jobId' = jobId /\ state' = "running" => ~HaveWinner]_vars

-----------------------------------------------------------------------------
(* Liveness                                                                 *)

(* "the button must always work": every search leaves the running state,     *)
(* which is what lets the next one start.                                    *)
SearchEnds == \A j \in Jobs : Running(j) ~> ~Running(j)

(* A Stop ends the search, whatever the workers do.                          *)
StopEnds == \A j \in Jobs : (Running(j) /\ cancel) ~> ~Running(j)

(* Every search answers the contract the other parts rely on.                *)
Contract == INSTANCE OptimizeContract
              WITH state <- state, jobId <- jobId, kind <- kind, result <- result
Implements == Contract!Spec

-----------------------------------------------------------------------------
(* What comments of the code say and the code does not keep (see README)     *)

(* "Clear the in-memory job so a later page refresh doesn't re-show the      *)
(* Apply panel for a plan that's already applied."                           *)
AppliedStaysApplied == [][state = "idle" /\ jobId' = jobId => state' # "done"]_vars

(* "superseded / already finished": the thread of an earlier search has      *)
(* nothing to say about the current one.                                     *)
OnlyOwnThreadFails ==
    [][\A j \in Jobs : Running(jobId) /\ state' = "failed" /\ pc[j] # "exit" /\ pc'[j] = "exit"
                         => j = jobId]_vars

(* "A stale/late/duplicate shard is a 200 no-op": what a recorded shard      *)
(* brought stays until the merge.                                            *)
RecordedShardStays ==
    [][\A s \in Shards : shards[s].rows = "win" /\ jobId' = jobId /\ state' = "running"
                           => shards'[s] = shards[s]]_vars

(* "NEVER falls back to local": no local search starts after a Stop.         *)
NoLocalAfterStop ==
    [][\A j \in Jobs : Running(j) /\ cancel /\ pc[j] # "local" => pc'[j] # "local"]_vars

(* "salvage whatever shards arrived, then end": before the deadline, a Stop  *)
(* does not end a search as failed while an eligible plan is recorded.       *)
StopSalvages ==
    [][Running(jobId) /\ cancel /\ state' = "failed" /\ ~late => ~HaveWinner]_vars
============================================================================
