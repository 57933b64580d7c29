------------------------- MODULE OptimizeJobProofs -------------------------
(* Proofs about OptimizeJob for every number of searches, shards, handlers   *)
(* and every set of faults.                                                 *)
EXTENDS OptimizeJob, TLAPS

(* The constants of the records are of the records' types. *)
LEMMA Constants ==
    /\ NoShard \in Slot /\ NoShards \in [Shards -> Slot]
    /\ NoResult \in Result /\ NoTask \in Task
    /\ 0 \in 0..MaxJobs /\ Jobs \subseteq 0..MaxJobs /\ Jobs \subseteq Actors
    /\ Handlers \subseteq Actors
  BY OptimizeAssumption DEF NoShard, NoShards, NoResult, NoTask, Slot, Result, Task, Kinds,
     Reasons, Jobs, Actors

(* What a step of an actor may do to the fields. *)
LEMMA FinalizeFields ==
  ASSUME TypeOK, NEW a \in Actors, Finalize(a) PROVE FieldsOK'
<1> USE Constants DEF TypeOK
<1>1. CASE Snap(a) \/ Replay(a)
  BY <1>1 DEF Snap, Replay, FieldsOK, fields
<1>2. CASE NoWinner(a)
  BY <1>2 DEF NoWinner, FieldsOK
<1>3. CASE Commit(a)
  <2>1. [job |-> task[a].job, kind |-> task[a].kind] \in Result
    BY DEF ThreadsOK, Task, Result
  <2> QED BY <1>3, <2>1 DEF Commit, Store, FieldsOK
<1> QED BY <1>1, <1>2, <1>3, Finalize(a) DEF Finalize

(* The fields of _OPTIMIZE keep their types, action by action.              *)
LEMMA FieldsCorrect == TypeOK /\ [Next]_vars => FieldsOK'
<1> SUFFICES ASSUME TypeOK, [Next]_vars PROVE FieldsOK'
  OBVIOUS
<1> USE Constants
<1>0. FieldsOK /\ ThreadsOK /\ applying \in {"none"} \cup Kinds
  BY DEF TypeOK
<1>1. ASSUME NEW k \in Kinds, Start(k) PROVE FieldsOK'
  <2>1. jobId' \in 0..MaxJobs
    BY <1>0, <1>1, OptimizeAssumption DEF Start, FieldsOK
  <2> QED BY <1>0, <1>1, <2>1 DEF Start, FieldsOK
<1>2. CASE Cancel
  <2>1. cancel' = (cancel \/ state = "running") /\ cancel' \in BOOLEAN
    BY <1>2, Zenon DEF Cancel
  <2> QED BY <1>0, <1>2, <2>1 DEF Cancel, FieldsOK
<1>3. CASE AskApply \/ Apply
  BY <1>0, <1>3 DEF AskApply, Apply, FieldsOK, fields
<1>4. ASSUME NEW j \in Jobs, Thread(j) PROVE FieldsOK'
  <2>1. CASE Baseline(j) \/ EndWindow(j) \/ Recheck(j) \/ Dispatch(j) \/ DispatchFails(j)
    BY <1>0, <2>1 DEF Baseline, EndWindow, Recheck, Dispatch, DispatchFails, FieldsOK, fields
  <2>2. CASE TickOver(j) \/ TickStop(j) \/ TickGiveUp(j) \/ Salvaged(j) \/ LocalEnd(j)
    BY <1>0, <2>2 DEF TickOver, TickStop, TickGiveUp, Salvaged, LocalEnd, FieldsOK, fields
  <2>3. CASE StopUnclaimed(j) \/ StopEnd(j) \/ StopCheck(j)
    BY <1>0, <2>3 DEF StopUnclaimed, StopEnd, StopCheck, FailIf, Fail, FieldsOK
  <2>4. CASE TickSalvage(j) \/ StopClaim(j)
    BY <1>0, <2>4 DEF TickSalvage, StopClaim, ClaimMerge, FieldsOK
  <2>5. CASE Finalize(j)
    BY <2>5, FinalizeFields
  <2> QED BY <1>4, <2>1, <2>2, <2>3, <2>4, <2>5 DEF Thread, Tick
<1>5. ASSUME NEW j \in Jobs, Crash(j) PROVE FieldsOK'
  <2>1. [job |-> task[j].job, kind |-> task[j].kind] \in Result
    BY <1>0 DEF ThreadsOK, Task, Result
  <2> QED BY <1>0, <1>5, <2>1 DEF Crash, Fail, Store, FieldsOK
<1>6. CASE Deadline \/ GraceEnds
  BY <1>0, <1>6 DEF Deadline, GraceEnds, FieldsOK, fields
<1>7. ASSUME NEW h \in Handlers, Finalize(h) PROVE FieldsOK'
  BY <1>7, FinalizeFields
<1>8. ASSUME NEW h \in Handlers, HandlerCrash(h) PROVE FieldsOK'
  BY <1>0, <1>8 DEF HandlerCrash, FailIf, Fail, FieldsOK
<1>9. ASSUME NEW j \in Jobs, NEW s \in Shards, GitHub(j, s) PROVE FieldsOK'
  <2>1. PostedRows(j, s) \in Slot
    BY DEF PostedRows, Slot
  <2>2. CASE PostShard(j, s)
    BY <1>0, <2>1, <2>2 DEF PostShard, ClaimMerge, FieldsOK
  <2>3. CASE GitHubFetch(j, s) \/ GitHubFinish(j, s) \/ GitHubDie(j, s)
    BY <1>0, <2>3 DEF GitHubFetch, GitHubFinish, GitHubDie, FieldsOK, fields
  <2> QED BY <1>9, <2>2, <2>3 DEF GitHub
<1>10. CASE Oracle
  BY <1>0, <1>10 DEF Oracle, OraclePoll, OracleFetch, OracleFinish, PostResult, PostError,
     FieldsOK, fields
<1>11. CASE Restart
  BY <1>0, <1>11 DEF Restart, FieldsOK, Kinds
<1>12. CASE UNCHANGED vars
  BY <1>0, <1>12 DEF vars, fields, FieldsOK
<1> QED BY <1>1, <1>2, <1>3, <1>4, <1>5, <1>6, <1>7, <1>8, <1>9, <1>10, <1>11, <1>12 DEF Next

(* pc and task: an actor moves to a label and takes a task of its type. *)
LEMMA GotoOK ==
  ASSUME ThreadsOK, NEW a \in Actors, NEW l \in PCs, Goto(a, l)
  PROVE  pc' \in [Actors -> PCs]
  BY DEF ThreadsOK, Goto

(* A finalizer that is done goes back to its caller and drops its task.     *)
LEMMA ReturnOK ==
  ASSUME ThreadsOK, NEW a \in Actors, Return(a) PROVE ThreadsOK'
  BY Constants DEF ThreadsOK, Return, Goto, PCs

(* Claiming a merge gives a thread or handler a well-formed task.           *)
LEMMA ClaimOK ==
  ASSUME ThreadsOK, NEW a \in Actors, NEW j \in Jobs, NEW why \in Reasons,
         ClaimMerge(a, j, why)
  PROVE  task' \in [Actors -> Task]
<1>1. [NoTask EXCEPT !.why = why, !.job = j] \in Task
  BY Constants DEF NoTask, Task
<1> QED BY <1>1 DEF ClaimMerge, ThreadsOK

(* The steps shared by every finalizer keep pc and task well formed.        *)
LEMMA FinalizeThreads ==
  ASSUME TypeOK, NEW a \in Actors, Finalize(a) PROVE ThreadsOK'
<1>0. ThreadsOK /\ kind \in Kinds
  BY DEF TypeOK, FieldsOK
<1>1. CASE Snap(a)
  <2>1. CASE Goto(a, "merge") /\ task' = [task EXCEPT ![a].won = HaveWinner]
    BY <1>0, <2>1, GotoOK, ZenonT(60) DEF ThreadsOK, Task, HaveWinner, PCs
  <2> QED BY <1>0, <1>1, <2>1, ReturnOK DEF Snap
<1>2. CASE NoWinner(a) \/ Commit(a)
  BY <1>0, <1>2, ReturnOK DEF NoWinner, Commit
<1>3. CASE Replay(a)
  BY <1>0, <1>3, GotoOK DEF Replay, ThreadsOK, Task, PCs
<1> QED BY <1>1, <1>2, <1>3, Finalize(a) DEF Finalize

(* So do the steps of all threads and handlers.                             *)
LEMMA ThreadsCorrect == TypeOK /\ [Next]_vars => ThreadsOK'
<1> SUFFICES ASSUME TypeOK, [Next]_vars PROVE ThreadsOK'
  OBVIOUS
<1> USE Constants
<1>0. FieldsOK /\ ThreadsOK /\ oracle \in OracleStates
  BY DEF TypeOK, WorkersOK
<1>1. ASSUME NEW k \in Kinds, Start(k) PROVE ThreadsOK'
  <2>1. jobId + 1 \in Actors
    BY <1>0, <1>1, OptimizeAssumption DEF Start, FieldsOK, Jobs, Actors
  <2> QED BY <1>0, <1>1, <2>1, GotoOK DEF Start, ThreadsOK, PCs
<1>2. CASE Cancel \/ AskApply \/ Apply
  BY <1>0, <1>2 DEF Cancel, AskApply, Apply, ThreadsOK, threads
<1>4. ASSUME NEW j \in Jobs, Thread(j) PROVE ThreadsOK'
  <2>1. CASE Baseline(j) \/ EndWindow(j) \/ Recheck(j) \/ StopUnclaimed(j)
    BY <1>0, <2>1, GotoOK DEF Baseline, EndWindow, Recheck, StopUnclaimed, ThreadsOK, PCs
  <2>2. CASE Dispatch(j) \/ DispatchFails(j)
    BY <1>0, <2>2, GotoOK DEF Dispatch, DispatchFails, ThreadsOK, PCs
  <2>3. CASE TickOver(j) \/ TickStop(j) \/ TickGiveUp(j)
    BY <1>0, <2>3, GotoOK DEF TickOver, TickStop, TickGiveUp, ThreadsOK, PCs
  <2>4. CASE TickSalvage(j)
    BY <1>0, <2>4, GotoOK, ClaimOK DEF TickSalvage, ThreadsOK, PCs, Reasons
  <2>5. CASE StopClaim(j)
    <3>1. "snap" \in PCs /\ "stopCheck" \in PCs /\ "stopEnd" \in PCs /\ "stop" \in Reasons
      BY DEF PCs, Reasons
    <3>2. pc' \in [Actors -> PCs]
      BY <1>0, <2>5, <3>1, GotoOK DEF StopClaim
    <3>3. task' \in [Actors -> Task]
      BY <1>0, <2>5, <3>1, ClaimOK DEF StopClaim, ThreadsOK
    <3> QED BY <3>2, <3>3 DEF ThreadsOK
  <2>6. CASE StopEnd(j) \/ StopCheck(j) \/ Salvaged(j)
    BY <1>0, <2>6, GotoOK DEF StopEnd, StopCheck, Salvaged, ThreadsOK, PCs
  <2>7. CASE LocalEnd(j)
    <3>1. [why |-> "local", job |-> j, won |-> TRUE, kind |-> kind] \in Task
      BY <1>0 DEF Task, Reasons, FieldsOK
    <3> QED BY <1>0, <2>7, <3>1, GotoOK DEF LocalEnd, ThreadsOK, PCs
  <2>8. CASE Finalize(j)
    BY <2>8, FinalizeThreads
  <2> QED BY <1>4, <2>1, <2>2, <2>3, <2>4, <2>5, <2>6, <2>7, <2>8 DEF Thread, Tick
<1>5. ASSUME NEW j \in Jobs, Crash(j) PROVE ThreadsOK'
  BY <1>0, <1>5, GotoOK DEF Crash, ThreadsOK, PCs
<1>6. CASE Deadline \/ GraceEnds
  BY <1>0, <1>6 DEF Deadline, GraceEnds, ThreadsOK, threads
<1>7. ASSUME NEW h \in Handlers, Finalize(h) PROVE ThreadsOK'
  BY <1>7, FinalizeThreads
<1>8. ASSUME NEW h \in Handlers, HandlerCrash(h) PROVE ThreadsOK'
  BY <1>0, <1>8, ReturnOK DEF HandlerCrash
<1>9. ASSUME NEW j \in Jobs, NEW s \in Shards, GitHub(j, s) PROVE ThreadsOK'
  <2>1. ASSUME NEW h \in Handlers, ClaimMerge(h, j, "collect"), Goto(h, "snap")
        PROVE  ThreadsOK'
    BY <1>0, <2>1, GotoOK, ClaimOK DEF ThreadsOK, PCs, Reasons
  <2>2. CASE PostShard(j, s)
    BY <1>0, <2>1, <2>2 DEF PostShard, ThreadsOK, threads
  <2>3. CASE GitHubFetch(j, s) \/ GitHubFinish(j, s) \/ GitHubDie(j, s)
    BY <1>0, <2>3 DEF GitHubFetch, GitHubFinish, GitHubDie, ThreadsOK, threads
  <2> QED BY <1>9, <2>2, <2>3 DEF GitHub
<1>10. CASE Oracle
  <2>1. CASE PostResult
    <3>1. [why |-> "result", job |-> oracle.job, won |-> TRUE, kind |-> "plan"] \in Task
      BY <1>0 DEF Task, Reasons, Kinds, OracleStates
    <3> QED BY <1>0, <2>1, <3>1, GotoOK DEF PostResult, ThreadsOK, PCs, threads
  <2>2. CASE OraclePoll \/ OracleFetch \/ OracleFinish \/ PostError
    BY <1>0, <2>2 DEF OraclePoll, OracleFetch, OracleFinish, PostError, ThreadsOK, threads
  <2> QED BY <1>10, <2>1, <2>2 DEF Oracle
<1>11. CASE Restart
  BY <1>11 DEF Restart, ThreadsOK, PCs
<1>12. CASE UNCHANGED vars
  BY <1>0, <1>12 DEF vars, threads, ThreadsOK
<1> QED BY <1>1, <1>2, <1>4, <1>5, <1>6, <1>7, <1>8, <1>9, <1>10, <1>11, <1>12 DEF Next

(* What the watchdog's clock says stays Boolean.                            *)
LEMMA ClockCorrect == TypeOK /\ [Next]_vars => ClockOK'
<1> SUFFICES ASSUME TypeOK, [Next]_vars PROVE ClockOK'
  OBVIOUS
<1>0. ClockOK
  BY DEF TypeOK
<1> USE <1>0 DEF ClockOK, clock
<1>1. ASSUME NEW j \in Jobs, Thread(j) PROVE ClockOK'
  BY <1>1 DEF Thread, Baseline, EndWindow, Recheck, StopUnclaimed, Dispatch, DispatchFails, Tick,
     TickOver, TickStop, TickSalvage, TickGiveUp, StopClaim, StopEnd, StopCheck, Salvaged,
     LocalEnd, Finalize, Snap, NoWinner, Replay, Commit
<1>2. ASSUME NEW a \in Actors, Finalize(a) PROVE ClockOK'
  BY <1>2 DEF Finalize, Snap, NoWinner, Replay, Commit
<1>3. ASSUME NEW a \in Actors, Crash(a) \/ HandlerCrash(a) PROVE ClockOK'
  BY <1>3 DEF Crash, HandlerCrash
<1>4. ASSUME NEW j \in Jobs, NEW s \in Shards, GitHub(j, s) PROVE ClockOK'
  BY <1>4 DEF GitHub, GitHubFetch, GitHubFinish, GitHubDie, PostShard
<1>5. ASSUME NEW k \in Kinds, Start(k) PROVE ClockOK'
  BY <1>5 DEF Start
<1>6. CASE Cancel \/ AskApply \/ Apply \/ Deadline \/ GraceEnds \/ Oracle \/ Restart
  BY <1>6 DEF Cancel, AskApply, Apply, Deadline, GraceEnds, Oracle, OraclePoll, OracleFetch,
     OracleFinish, PostResult, PostError, Restart
<1>7. CASE UNCHANGED vars
  BY <1>7 DEF vars
<1> QED BY <1>1, <1>2, <1>3, <1>4, <1>5, <1>6, <1>7, Constants DEF Next

(* A worker moves to another of its states.                                 *)
LEMMA SetWorkerOK ==
  ASSUME WorkersOK, NEW j \in Jobs, NEW s \in Shards, NEW st \in WorkerStates, SetWorker(j, s, st)
  PROVE  worker' \in [Jobs -> [Shards -> WorkerStates]]
  BY DEF WorkersOK, SetWorker

(* The GitHub runners and the Oracle poller stay in their states.           *)
LEMMA WorkersCorrect ==
  TypeOK /\ [Next]_vars => WorkersOK' /\ (applying \in {"none"} \cup Kinds)'
<1> SUFFICES ASSUME TypeOK, [Next]_vars
             PROVE  WorkersOK' /\ applying' \in {"none"} \cup Kinds
  OBVIOUS
<1>0. WorkersOK /\ applying \in {"none"} \cup Kinds /\ jobId \in 0..MaxJobs
  BY DEF TypeOK, FieldsOK
<1> DEFINE Goal == WorkersOK' /\ applying' \in {"none"} \cup Kinds
<1>1. ASSUME NEW j \in Jobs, Thread(j) PROVE Goal
  <2>1. CASE Dispatch(j) \/ DispatchFails(j)
    BY <1>0, <2>1 DEF Dispatch, DispatchFails, BootWorkers, WorkersOK, WorkerStates, workers
  <2>2. CASE ~(Dispatch(j) \/ DispatchFails(j))
    BY <1>0, <1>1, <2>2 DEF Thread, Baseline, EndWindow, Recheck, StopUnclaimed, Tick, TickOver,
       TickStop, TickSalvage, TickGiveUp, StopClaim, StopEnd, StopCheck, Salvaged, LocalEnd,
       Finalize, Snap, NoWinner, Replay, Commit, workers, WorkersOK
  <2> QED BY <2>1, <2>2
<1>2. ASSUME NEW a \in Actors, Finalize(a) \/ Crash(a) \/ HandlerCrash(a) PROVE Goal
  BY <1>0, <1>2 DEF Finalize, Snap, NoWinner, Replay, Commit, Crash, HandlerCrash, workers,
     WorkersOK
<1>3. ASSUME NEW j \in Jobs, NEW s \in Shards, GitHub(j, s) PROVE Goal
  <2>1. PICK st \in WorkerStates : SetWorker(j, s, st) \/ UNCHANGED worker
    BY <1>3 DEF GitHub, GitHubFetch, GitHubFinish, GitHubDie, PostShard, Reply, WorkerStates
  <2>2. worker' \in [Jobs -> [Shards -> WorkerStates]]
    BY <1>0, <2>1, SetWorkerOK DEF WorkersOK
  <2>3. UNCHANGED <<oracle, applying>>
    BY <1>3 DEF GitHub, GitHubFetch, GitHubFinish, GitHubDie, PostShard
  <2> QED BY <1>0, <2>2, <2>3 DEF WorkersOK
<1>4. CASE Oracle
  <2>1. oracle' \in OracleStates
    BY <1>0, <1>4, Constants DEF Oracle, OraclePoll, OracleFetch, OracleFinish, PostResult,
       PostError, OracleIdle, WorkersOK, OracleStates
  <2>2. UNCHANGED <<worker, applying>>
    BY <1>4 DEF Oracle, OraclePoll, OracleFetch, OracleFinish, PostResult, PostError
  <2> QED BY <1>0, <2>1, <2>2 DEF WorkersOK
<1>5. ASSUME NEW k \in Kinds, Start(k) PROVE Goal
  BY <1>0, <1>5 DEF Start, workers, WorkersOK
<1>6. CASE Cancel \/ AskApply \/ Apply \/ Deadline \/ GraceEnds \/ Restart
  BY <1>0, <1>6 DEF Cancel, AskApply, Apply, Deadline, GraceEnds, Restart, workers, WorkersOK,
     Kinds
<1>7. CASE UNCHANGED vars
  BY <1>0, <1>7 DEF vars, workers, WorkersOK
<1> QED BY <1>1, <1>2, <1>3, <1>4, <1>5, <1>6, <1>7, Constants DEF Next

(* The state the module is loaded with has the types TypeOK lists.          *)
LEMMA TypeCorrectInit == Init => TypeOK
<1> SUFFICES ASSUME Init PROVE TypeOK
  OBVIOUS
<1>1. FieldsOK
  BY Constants DEF Init, FieldsOK, Kinds
<1>2. ThreadsOK
  BY Constants DEF Init, ThreadsOK, PCs
<1>3. ClockOK
  BY DEF Init, ClockOK
<1>4. WorkersOK
  BY Constants DEF Init, WorkersOK, WorkerStates, OracleStates
<1> QED BY <1>1, <1>2, <1>3, <1>4 DEF Init, TypeOK

(* Every reachable state has the types TypeOK lists. *)
THEOREM TypeCorrect == Spec => []TypeOK
<1>2. TypeOK /\ [Next]_vars => TypeOK'
  BY FieldsCorrect, ThreadsCorrect, ClockCorrect, WorkersCorrect DEF TypeOK
<1> QED BY TypeCorrectInit, <1>2, PTL DEF Spec

-----------------------------------------------------------------------------
(* The inductive invariant                                                  *)

(* A step that starts or ends no finalizer and touches neither the shards    *)
(* nor the result: a label of one actor, the search failing, the flags.      *)
Quiet(a) ==
    /\ UNCHANGED <<jobId, kind, shards, finalizing, result, task>>
    /\ state' \in {state, "failed"}
    /\ \/ UNCHANGED pc
       \/ /\ a \in Jobs => pc[a] # "none"
          /\ \E l \in PCs \ {"none", "snap", "merge", "commit"} : Goto(a, l)

(* A quiet step, one that moves labels only, keeps the inductive invariant. *)
LEMMA QuietStep ==
  ASSUME IInv, TypeOK', NEW a \in Actors, Quiet(a) PROVE IInv'
<1> USE DEF IInv, Quiet, Goto
<1>0. pc \in [Actors -> PCs] /\ Jobs \subseteq Actors
  BY Constants DEF TypeOK, ThreadsOK
<1>1. Started'
  BY <1>0 DEF Started
<1>2. TasksKnown' /\ CommitKind'
  BY <1>0 DEF TasksKnown, CommitKind
<1>3. ClaimHeld' /\ OneMerge'
  BY DEF ClaimHeld, OneMerge, Merging
<1>4. NoWinnerIsTrue'
  BY <1>0 DEF NoWinnerIsTrue, Running, HaveWinner
<1>5. ResultIsOfThisSearch' /\ DoneHasResult' /\ ShardsOfThisSearch'
  BY DEF ResultIsOfThisSearch, DoneHasResult, ShardsOfThisSearch
<1> QED BY <1>1, <1>2, <1>3, <1>4, <1>5

(* A finalizer that leaves: its task is gone; the shards may be gone too, a  *)
(* result of its search may be stored, the search may fail.                  *)
Leave(a) ==
    /\ UNCHANGED <<jobId, kind, finalizing>>
    /\ task' = [task EXCEPT ![a] = NoTask]
    /\ a \in Jobs => pc[a] # "none"
    /\ \E l \in PCs \ {"none", "snap", "merge", "commit"} : Goto(a, l)
    /\ shards' \in {shards, NoShards}
    /\ \/ state' \in {state, "failed"} /\ UNCHANGED result
       \/ /\ pc[a] = "commit" /\ jobId = task[a].job
          /\ Store(a) /\ state' \in {"done", "failed"}

(* A step that leaves the search, with or without a result, keeps it too.   *)
LEMMA LeaveStep ==
  ASSUME IInv, TypeOK', NEW a \in Actors, Leave(a) PROVE IInv'
<1> USE DEF IInv, Leave, Goto
<1>0. /\ pc \in [Actors -> PCs] /\ task \in [Actors -> Task] /\ Jobs \subseteq Actors
      /\ jobId \in 0..MaxJobs /\ shards \in [Shards -> Slot]
  BY Constants DEF TypeOK, ThreadsOK, FieldsOK
<1>1. Started'
  BY <1>0 DEF Started
<1>2. TasksKnown' /\ CommitKind'
  BY <1>0 DEF TasksKnown, CommitKind, NoTask
<1>3. ClaimHeld' /\ OneMerge'
  BY <1>0 DEF ClaimHeld, OneMerge, Merging, NoTask, MergeReasons
<1>4. HaveWinner' => HaveWinner
  BY <1>0 DEF HaveWinner, NoShards, NoShard
<1>5. NoWinnerIsTrue'
  BY <1>0, <1>4 DEF NoWinnerIsTrue, Running
<1>6. ResultIsOfThisSearch' /\ DoneHasResult'
  <2>1. CASE UNCHANGED result /\ state' \in {state, "failed"}
    BY <2>1 DEF ResultIsOfThisSearch, DoneHasResult
  <2>2. CASE pc[a] = "commit" /\ jobId = task[a].job /\ Store(a)
    BY <1>0, <2>2 DEF ResultIsOfThisSearch, DoneHasResult, Store, CommitKind, TasksKnown,
       NoResult
  <2> QED BY <2>1, <2>2
<1>7. ShardsOfThisSearch'
  BY <1>0 DEF ShardsOfThisSearch, NoShards, NoShard
<1> QED BY <1>1, <1>2, <1>3, <1>5, <1>6, <1>7

(* A party claims the merge of the current search, maybe having recorded a   *)
(* shard in the same locked block.                                          *)
LEMMA ClaimStep ==
  ASSUME IInv, TypeOK', NEW a \in Actors, NEW why \in MergeReasons,
         state = "running", ~finalizing, jobId \in Jobs,
         a \in Jobs => pc[a] # "none",
         ClaimMerge(a, jobId, why), Goto(a, "snap"),
         UNCHANGED <<state, jobId, kind, result>>,
         ShardsOfThisSearch'
  PROVE  IInv'
<1> USE DEF IInv, ClaimMerge, Goto
<1>0. /\ pc \in [Actors -> PCs] /\ task \in [Actors -> Task] /\ Jobs \subseteq Actors
      /\ jobId \in Nat /\ jobId # 0
  BY Constants, OptimizeAssumption DEF TypeOK, ThreadsOK, FieldsOK, Jobs
<1>1. task'[a].job = jobId /\ task'[a].why = why
  BY <1>0 DEF NoTask
<1>2. \A b \in Actors : ~Merging(b, jobId)
  BY DEF ClaimHeld
<1>3. Started' /\ ClaimHeld'
  BY <1>0 DEF Started, ClaimHeld
<1>4. TasksKnown'
  BY <1>0, <1>1 DEF TasksKnown
<1>5. CommitKind'
  BY <1>0 DEF CommitKind
<1>6. \A b \in Actors \ {a} : task'[b] = task[b] /\ pc'[b] = pc[b]
  BY <1>0
<1>7. OneMerge'
  BY <1>1, <1>2, <1>6 DEF OneMerge, Merging
<1>8. NoWinnerIsTrue'
  <2> SUFFICES ASSUME NEW b \in Actors, pc'[b] = "merge", ~task'[b].won, Running(task[b].job),
                      b # a
               PROVE  FALSE
    BY <1>0, <1>6 DEF NoWinnerIsTrue, Running
  <2>1. Merging(b, jobId)
    BY <1>6 DEF TasksKnown, Merging, Running
  <2> QED BY <2>1, <1>2
<1>9. ResultIsOfThisSearch' /\ DoneHasResult'
  BY DEF ResultIsOfThisSearch, DoneHasResult
<1> QED BY <1>3, <1>4, <1>5, <1>7, <1>8, <1>9

(* A new search, started over any finished one and its threads, keeps it.   *)
LEMMA StartStep == ASSUME IInv, TypeOK', NEW k \in Kinds, Start(k) PROVE IInv'
<1> USE DEF IInv, Start, Goto
<1>0. /\ pc \in [Actors -> PCs] /\ task \in [Actors -> Task] /\ Jobs \subseteq Actors
      /\ jobId \in Nat /\ jobId + 1 \in Jobs /\ jobId + 1 # 0
      /\ \A a \in Actors : task[a].job \in Nat
  BY Constants, OptimizeAssumption DEF TypeOK, ThreadsOK, FieldsOK, Jobs, Task
<1>1. \A a \in Actors : task[a].job # jobId + 1
  BY <1>0 DEF TasksKnown
<1>2. Started'
  BY <1>0, OptimizeAssumption DEF Started, Jobs
<1>3. TasksKnown'
  BY <1>0 DEF TasksKnown
<1>4. ClaimHeld' /\ CommitKind' /\ OneMerge'
  BY <1>0, <1>1 DEF ClaimHeld, CommitKind, OneMerge, Merging
<1>5. NoWinnerIsTrue'
  BY <1>0, <1>1 DEF NoWinnerIsTrue, Running
<1>6. ResultIsOfThisSearch' /\ DoneHasResult' /\ ShardsOfThisSearch'
  BY DEF ResultIsOfThisSearch, DoneHasResult, ShardsOfThisSearch, NoShards, NoShard
<1> QED BY <1>2, <1>3, <1>4, <1>5, <1>6

(* So does a restart of the process.                                        *)
LEMMA RestartStep == ASSUME IInv, TypeOK', Restart PROVE IInv'
<1> USE DEF IInv, Restart
<1>0. jobId \in Nat /\ Jobs \subseteq Nat /\ \A j \in Jobs : j \notin Handlers
  BY OptimizeAssumption DEF TypeOK, FieldsOK, Jobs
<1>1. Started'
  BY <1>0, Constants DEF Started
<1>2. TasksKnown' /\ ClaimHeld' /\ CommitKind' /\ OneMerge' /\ NoWinnerIsTrue'
  BY <1>0 DEF TasksKnown, ClaimHeld, CommitKind, OneMerge, NoWinnerIsTrue, Merging,
     MergeReasons, NoTask, Running
<1>3. ResultIsOfThisSearch' /\ DoneHasResult' /\ ShardsOfThisSearch'
  BY DEF ResultIsOfThisSearch, DoneHasResult, ShardsOfThisSearch, NoShards, NoShard
<1> QED BY <1>1, <1>2, <1>3

(* A task that is not a merge is taken or filled in; only labels and tasks   *)
(* of one actor change.                                                     *)
LEMMA TaskStep ==
  ASSUME IInv, TypeOK', NEW a \in Actors, NEW t \in Task, NEW l \in {"merge", "commit"},
         UNCHANGED fields, Goto(a, l), task' = [task EXCEPT ![a] = t],
         a \in Jobs => pc[a] # "none",
         t.job # 0, t.job <= jobId,
         t.why \in MergeReasons => task[a].why = t.why /\ task[a].job = t.job,
         l = "commit" /\ t.job = jobId => t.kind = kind,
         l = "merge" /\ ~t.won => t.why \in MergeReasons /\ (Running(t.job) => ~HaveWinner)
  PROVE  IInv'
<1> USE DEF IInv, Goto, fields
<1>0. pc \in [Actors -> PCs] /\ task \in [Actors -> Task] /\ Jobs \subseteq Actors
  BY Constants DEF TypeOK, ThreadsOK
<1>1. Started' /\ TasksKnown'
  BY <1>0 DEF Started, TasksKnown
<1>2. \A b \in Actors, j \in Jobs \cup {jobId} : Merging(b, j)' => Merging(b, j)
  BY <1>0 DEF Merging
<1>3. ClaimHeld' /\ OneMerge'
  BY <1>2 DEF ClaimHeld, OneMerge
<1>4. CommitKind' /\ NoWinnerIsTrue'
  BY <1>0 DEF CommitKind, NoWinnerIsTrue, Running, HaveWinner
<1>5. ResultIsOfThisSearch' /\ DoneHasResult' /\ ShardsOfThisSearch'
  BY DEF ResultIsOfThisSearch, DoneHasResult, ShardsOfThisSearch
<1> QED BY <1>1, <1>3, <1>4, <1>5

(* The steps of a finalizer keep the inductive invariant.                   *)
LEMMA FinalizeStep == ASSUME IInv, TypeOK', NEW a \in Actors, Finalize(a) PROVE IInv'
<1>0. /\ pc \in [Actors -> PCs] /\ task \in [Actors -> Task]
      /\ task[a] \in Task /\ kind \in Kinds /\ jobId \in 0..MaxJobs
      /\ TasksKnown
  BY DEF IInv, TypeOK, ThreadsOK, FieldsOK
<1>1. ASSUME Return(a), pc[a] # "none", UNCHANGED <<jobId, kind, finalizing>>,
             shards' \in {shards, NoShards},
             \/ state' = state /\ UNCHANGED result
             \/ pc[a] = "commit" /\ jobId = task[a].job /\ Store(a) /\ state' = "done"
      PROVE  IInv'
  <2>1. \E l \in PCs \ {"none", "snap", "merge", "commit"} : Goto(a, l)
    BY <1>1 DEF Return, PCs, Goto
  <2>2. Leave(a)
    BY <1>1, <2>1 DEF Leave, Return
  <2> QED BY <2>2, LeaveStep
<1>2. CASE Snap(a)
  <2>1. CASE Running(task[a].job) /\ Goto(a, "merge") /\ task' = [task EXCEPT ![a].won = HaveWinner]
    <3> DEFINE t == [task[a] EXCEPT !.won = HaveWinner]
    <3>1. t \in Task /\ t.why = task[a].why /\ t.job = task[a].job /\ t.won = HaveWinner
      BY <1>0 DEF Task, HaveWinner
    <3>2. task' = [task EXCEPT ![a] = t]
      BY <1>0, <2>1
    <3>3. t.job # 0 /\ t.job <= jobId /\ t.why \in MergeReasons /\ pc[a] # "none"
      BY <1>0, <1>2, <3>1 DEF TasksKnown, Snap
    <3> HIDE DEF t
    <3> QED BY <1>2, <2>1, <3>1, <3>2, <3>3, TaskStep DEF Snap
  <2>2. CASE Return(a)
    BY <1>1, <1>2, <2>2 DEF Snap, fields
  <2> QED BY <1>2, <2>1, <2>2 DEF Snap
<1>3. CASE NoWinner(a)
  BY <1>1, <1>3 DEF NoWinner
<1>4. CASE Replay(a)
  <2> DEFINE t == [task[a] EXCEPT !.kind = kind]
  <2>1. t \in Task /\ t.why = task[a].why /\ t.job = task[a].job /\ t.kind = kind
    BY <1>0 DEF Task
  <2>2. task' = [task EXCEPT ![a] = t]
    BY <1>0, <1>4 DEF Replay
  <2>3. t.job # 0 /\ t.job <= jobId /\ pc[a] # "none"
    BY <1>0, <1>4, <2>1 DEF TasksKnown, Replay
  <2> HIDE DEF t
  <2> QED BY <1>4, <2>1, <2>2, <2>3, TaskStep DEF Replay
<1>5. CASE Commit(a)
  BY <1>1, <1>5 DEF Commit
<1> QED BY <1>2, <1>3, <1>4, <1>5 DEF Finalize

(* A job thread's steps keep the inductive invariant.                       *)
LEMMA ThreadStep == ASSUME IInv, TypeOK', NEW j \in Jobs, Thread(j) PROVE IInv'
<1>0. /\ j \in Actors /\ pc[j] \in PCs /\ kind \in Kinds /\ j # 0 /\ j \in 0..MaxJobs
      /\ jobId \in 0..MaxJobs /\ (pc[j] # "none" => j <= jobId)
  BY Constants, OptimizeAssumption DEF IInv, TypeOK, ThreadsOK, FieldsOK, Started, Jobs
<1>1. ASSUME NEW l \in PCs \ {"none", "snap", "merge", "commit"}, Goto(j, l), pc[j] # "none",
             UNCHANGED <<jobId, kind, shards, finalizing, result, task>>,
             state' \in {state, "failed"}
      PROVE  IInv'
  BY <1>0, <1>1, QuietStep DEF Quiet
<1>2. CASE Baseline(j) \/ EndWindow(j) \/ Recheck(j) \/ Dispatch(j) \/ DispatchFails(j)
  BY <1>1, <1>2 DEF Baseline, EndWindow, Recheck, Dispatch, DispatchFails, fields, PCs
<1>3. CASE TickOver(j) \/ TickStop(j) \/ TickGiveUp(j) \/ Salvaged(j)
  BY <1>1, <1>3 DEF TickOver, TickStop, TickGiveUp, TimedOut, Salvaged, fields, PCs
<1>4. CASE StopUnclaimed(j) \/ StopEnd(j) \/ StopCheck(j)
  BY <1>1, <1>4 DEF StopUnclaimed, StopEnd, StopCheck, FailIf, Fail, PCs
<1>5. CASE TickSalvage(j)
  BY <1>0, <1>5, ClaimStep DEF IInv, ShardsOfThisSearch, TickSalvage, TimedOut, Running,
     MergeReasons
<1>6. CASE StopClaim(j)
  <2>1. CASE Running(j) /\ ~finalizing /\ ClaimMerge(j, j, "stop") /\ Goto(j, "snap")
    BY <1>0, <1>6, <2>1, ClaimStep DEF IInv, ShardsOfThisSearch, StopClaim, Running,
       MergeReasons
  <2>2. CASE UNCHANGED <<finalizing, task>> /\ (Goto(j, "stopCheck") \/ Goto(j, "stopEnd"))
    BY <1>1, <1>6, <2>2 DEF StopClaim, PCs
  <2> QED BY <1>6, <2>1, <2>2 DEF StopClaim
<1>7. CASE LocalEnd(j)
  <2> DEFINE t == [why |-> "local", job |-> j, won |-> TRUE, kind |-> kind]
  <2>1. t \in Task /\ t.why \notin MergeReasons /\ t.job = j /\ t.kind = kind
    BY <1>0 DEF Task, Reasons, MergeReasons
  <2>2. /\ Goto(j, "commit") /\ task' = [task EXCEPT ![j] = t] /\ UNCHANGED fields
        /\ pc[j] # "none"
    BY <1>7 DEF LocalEnd
  <2>3. j # 0 /\ j <= jobId
    BY <1>0, <2>2
  <2> HIDE DEF t
  <2>4. t.job # 0 /\ t.job <= jobId
    BY <2>1, <2>3
  <2> QED BY <1>0, <2>1, <2>2, <2>4, TaskStep
<1>8. CASE Finalize(j)
  BY <1>0, <1>8, FinalizeStep
<1> QED BY <1>2, <1>3, <1>4, <1>5, <1>6, <1>7, <1>8 DEF Thread, Tick

(* A GitHub runner and the posts it makes keep the inductive invariant.     *)
LEMMA WorkerStep ==
  ASSUME IInv, TypeOK', NEW j \in Jobs, NEW s \in Shards, GitHub(j, s) PROVE IInv'
<1>0. j \in Actors /\ j # 0 /\ shards \in [Shards -> Slot]
  BY Constants, OptimizeAssumption DEF IInv, TypeOK, FieldsOK, Jobs
<1>1. CASE UNCHANGED <<state, jobId, kind, shards, finalizing, result, threads>>
  BY <1>0, <1>1, QuietStep DEF Quiet, threads
<1>2. CASE PostShard(j, s) /\ CanRecord(j) /\ shards' = [shards EXCEPT ![s] = PostedRows(j, s)]
  <2>1. ShardsOfThisSearch'
    BY <1>0, <1>2 DEF IInv, ShardsOfThisSearch, PostShard, PostedRows, CanRecord, Running
  <2>2. ASSUME NEW h \in Handlers, pc[h] = "idle", ClaimMerge(h, j, "collect"), Goto(h, "snap")
        PROVE  IInv'
    BY <1>0, <1>2, <2>1, <2>2, Constants, ClaimStep
       DEF PostShard, CanRecord, Running, MergeReasons
  <2>3. CASE UNCHANGED <<finalizing, threads>>
    <3> USE DEF IInv
    <3>1. UNCHANGED <<state, jobId, kind, result, pc, task>> /\ ~finalizing /\ state = "running"
      BY <1>2, <2>3 DEF PostShard, CanRecord, Running, threads
    <3>2. Started' /\ TasksKnown' /\ ClaimHeld' /\ CommitKind' /\ OneMerge'
      BY <2>3, <3>1 DEF Started, TasksKnown, ClaimHeld, CommitKind, OneMerge, Merging
    <3>3. NoWinnerIsTrue'
      BY <3>1 DEF NoWinnerIsTrue, TasksKnown, ClaimHeld, Merging, Running
    <3>4. ResultIsOfThisSearch' /\ DoneHasResult'
      BY <3>1 DEF ResultIsOfThisSearch, DoneHasResult
    <3> QED BY <2>1, <3>2, <3>3, <3>4
  <2> QED BY <1>2, <2>2, <2>3 DEF PostShard
<1>3. CASE GitHubFetch(j, s) \/ GitHubFinish(j, s) \/ GitHubDie(j, s)
  BY <1>1, <1>3 DEF GitHubFetch, GitHubFinish, GitHubDie, fields
<1>4. CASE PostShard(j, s)
  BY <1>1, <1>2, <1>4 DEF PostShard
<1> QED BY <1>3, <1>4 DEF GitHub

(* The Oracle worker and the posts it makes keep the inductive invariant.   *)
LEMMA OracleStep == ASSUME IInv, TypeOK', Oracle PROVE IInv'
<1>0. /\ 1 \in Actors /\ jobId \in 0..MaxJobs /\ oracle \in OracleStates
      /\ \A h \in Handlers : h \in Actors /\ h \notin Jobs
  BY Constants, OptimizeAssumption DEF IInv, TypeOK, FieldsOK, WorkersOK, Jobs
<1>1. CASE UNCHANGED <<state, jobId, kind, shards, finalizing, result, threads>>
  BY <1>0, <1>1, QuietStep DEF Quiet, threads
<1>2. ASSUME NEW h \in Handlers, Running(oracle.job), UNCHANGED fields, Goto(h, "merge"),
             task' = [task EXCEPT ![h] = [why |-> "result", job |-> oracle.job,
                                          won |-> TRUE, kind |-> "plan"]]
      PROVE  IInv'
  <2> DEFINE t == [why |-> "result", job |-> oracle.job, won |-> TRUE, kind |-> "plan"]
  <2>1. t \in Task /\ t.why \notin MergeReasons /\ t.won /\ t.job = oracle.job
    BY <1>0 DEF Task, Reasons, Kinds, OracleStates, MergeReasons
  <2>2. t.job # 0 /\ t.job <= jobId
    BY <1>0, <1>2, <2>1 DEF IInv, Started, Running
  <2>3. task' = [task EXCEPT ![h] = t]
    BY <1>2
  <2> HIDE DEF t
  <2> QED BY <1>0, <1>2, <2>1, <2>2, <2>3, TaskStep
<1>3. CASE PostResult
  <2>1. CASE UNCHANGED threads
    BY <1>1, <1>3, <2>1 DEF PostResult, fields
  <2>2. CASE Running(oracle.job)
    BY <1>2, <1>3, <2>2 DEF PostResult
  <2> QED BY <1>3, <2>1, <2>2 DEF PostResult
<1>4. CASE OraclePoll \/ OracleFetch \/ OracleFinish \/ PostError
  BY <1>1, <1>4 DEF OraclePoll, OracleFetch, OracleFinish, PostError, fields
<1> QED BY <1>3, <1>4 DEF Oracle

(* Every step keeps the inductive invariant.                                *)
LEMMA Inductive == IInv /\ [Next]_vars => IInv'
<1> SUFFICES ASSUME IInv, [Next]_vars PROVE IInv'
  OBVIOUS
<1>0. TypeOK'
  BY FieldsCorrect, ThreadsCorrect, ClockCorrect, WorkersCorrect DEF IInv, TypeOK
<1>q. ASSUME UNCHANGED <<state, jobId, kind, shards, finalizing, result, threads>> PROVE IInv'
  <2>1. 1 \in Actors
    BY Constants, OptimizeAssumption DEF Jobs
  <2> QED BY <1>0, <1>q, <2>1, QuietStep DEF Quiet, threads
<1>l. ASSUME NEW a \in Actors, pc[a] \in {"baseline", "merge", "commit", "local"},
             task' = [task EXCEPT ![a] = NoTask],
             NEW l \in {"exit", "idle", "stopEnd", "salvaged"}, Goto(a, l),
             UNCHANGED <<jobId, kind, finalizing, shards>>, state' \in {state, "failed"},
             \/ UNCHANGED result
             \/ pc[a] = "commit" /\ jobId = task[a].job /\ Store(a) /\ state' = "failed"
      PROVE  IInv'
  <2>1. l \in PCs \ {"none", "snap", "merge", "commit"}
    BY DEF PCs
  <2> QED BY <1>0, <1>l, <2>1, LeaveStep DEF Leave
<1>1. ASSUME NEW k \in Kinds, Start(k) PROVE IInv'
  BY <1>0, <1>1, StartStep
<1>2. CASE Cancel \/ AskApply \/ Deadline \/ GraceEnds
  BY <1>q, <1>2 DEF Cancel, AskApply, Deadline, GraceEnds, fields, threads
<1>3. CASE Apply
  <2>1. CASE UNCHANGED <<state, result>>
    BY <1>q, <1>3, <2>1 DEF Apply
  <2>2. CASE state' = "idle" /\ result' = NoResult
    <3> USE DEF IInv
    <3>1. UNCHANGED <<jobId, kind, shards, finalizing, pc, task>>
      BY <1>3 DEF Apply, threads
    <3>2. Started' /\ TasksKnown' /\ ClaimHeld' /\ CommitKind' /\ OneMerge'
      BY <2>2, <3>1 DEF Started, TasksKnown, ClaimHeld, CommitKind, OneMerge, Merging
    <3>3. NoWinnerIsTrue' /\ ResultIsOfThisSearch' /\ DoneHasResult' /\ ShardsOfThisSearch'
      BY <2>2, <3>1 DEF NoWinnerIsTrue, ResultIsOfThisSearch, DoneHasResult,
         ShardsOfThisSearch, Running
    <3> QED BY <1>0, <3>2, <3>3
  <2> QED BY <1>3, <2>1, <2>2 DEF Apply
<1>4. ASSUME NEW j \in Jobs, Thread(j) PROVE IInv'
  BY <1>0, <1>4, ThreadStep
<1>5. ASSUME NEW j \in Jobs, Crash(j) PROVE IInv'
  BY <1>5, <1>l, Constants DEF Crash, Fail
<1>7. ASSUME NEW h \in Handlers, Finalize(h) PROVE IInv'
  BY <1>0, <1>7, Constants, FinalizeStep
<1>8. ASSUME NEW h \in Handlers, HandlerCrash(h) PROVE IInv'
  <2>1. \E l \in {"exit", "idle", "stopEnd", "salvaged"} : Goto(h, l)
    BY <1>8 DEF HandlerCrash, Return, Goto
  <2> QED BY <1>8, <1>l, <2>1, Constants DEF HandlerCrash, FailIf, Fail, Return
<1>9. ASSUME NEW j \in Jobs, NEW s \in Shards, GitHub(j, s) PROVE IInv'
  BY <1>0, <1>9, WorkerStep
<1>10. CASE Oracle
  BY <1>0, <1>10, OracleStep
<1>11. CASE Restart
  BY <1>0, <1>11, RestartStep
<1>12. CASE UNCHANGED vars
  BY <1>q, <1>12 DEF vars, fields
<1> QED BY <1>1, <1>2, <1>3, <1>4, <1>5, <1>7, <1>8, <1>9, <1>10, <1>11, <1>12 DEF Next

(* The inductive invariant holds, for any constants. *)
THEOREM Invariance == Spec => []IInv
<1>1. Init => IInv
  <2> SUFFICES ASSUME Init PROVE IInv
    OBVIOUS
  <2>1. TypeOK
    BY TypeCorrectInit
  <2>2. \A j \in Jobs : j \in Actors
    BY Constants
  <2>3. Started /\ TasksKnown /\ ClaimHeld /\ CommitKind /\ OneMerge
    BY <2>2 DEF Init, Started, TasksKnown, ClaimHeld, CommitKind, OneMerge, Merging, NoTask,
       MergeReasons
  <2>4. NoWinnerIsTrue /\ ResultIsOfThisSearch /\ DoneHasResult /\ ShardsOfThisSearch
    BY DEF Init, NoWinnerIsTrue, ResultIsOfThisSearch, DoneHasResult, ShardsOfThisSearch,
       NoShards, NoShard, Running
  <2> QED BY <2>1, <2>3, <2>4 DEF IInv
<1> QED BY <1>1, Inductive, PTL DEF Spec

(* shards_finalizing admits one merge of a search's shards at a time.        *)
THEOREM MergeIsExclusive == Spec => []OneMerge
  BY Invariance, PTL DEF IInv

(* A stored result is of the current search and of its kind, "done" always   *)
(* comes with one, and only this search's shards are ever merged.            *)
THEOREM ResultIsRight ==
  Spec => [](ResultIsOfThisSearch /\ DoneHasResult /\ ShardsOfThisSearch)
  BY Invariance, PTL DEF IInv

(* The no-winner branch never throws away an eligible plan.                  *)
THEOREM NothingDiscarded == Spec => DiscardsNoPlan
<1>1. IInv /\ [Next]_vars =>
        [shards' = NoShards /\ jobId' = jobId /\ state' = "running" => ~HaveWinner]_vars
  <2> SUFFICES ASSUME IInv, Next, shards' = NoShards, jobId' = jobId, state' = "running",
                      HaveWinner
               PROVE  FALSE
    OBVIOUS
  <2>0. /\ shards # NoShards /\ jobId # jobId + 1 /\ shards \in [Shards -> Slot]
        /\ \A j \in Jobs : j # 0
    BY OptimizeAssumption DEF HaveWinner, NoShards, NoShard, IInv, TypeOK, FieldsOK, Jobs
  <2>1. ASSUME NEW a \in Actors, NoWinner(a) PROVE FALSE
    BY <2>0, <2>1 DEF NoWinner, IInv, NoWinnerIsTrue
  <2>2. ASSUME NEW j \in Jobs, NEW s \in Shards, PostShard(j, s) PROVE FALSE
    BY <2>0, <2>2 DEF PostShard, PostedRows, NoShards, NoShard
  <2>3. ASSUME NEW k \in Kinds, Start(k) PROVE FALSE
    BY <2>0, <2>3 DEF Start
  <2>4. CASE Restart
    BY <2>4 DEF Restart
  <2>5. ASSUME NEW a \in Actors, Finalize(a) PROVE FALSE
    BY <2>0, <2>1, <2>5 DEF Finalize, Snap, Replay, Commit, fields
  <2>6. ASSUME NEW j \in Jobs, Thread(j) PROVE FALSE
    BY <2>0, <2>5, <2>6, Constants DEF Thread, Baseline, EndWindow, Recheck, StopUnclaimed,
       Dispatch, DispatchFails, Tick, TickOver, TickStop, TickSalvage, TickGiveUp, StopClaim,
       StopEnd, StopCheck, Salvaged, LocalEnd, fields
  <2>7. ASSUME NEW j \in Jobs, NEW s \in Shards, GitHub(j, s) PROVE FALSE
    BY <2>0, <2>2, <2>7 DEF GitHub, GitHubFetch, GitHubFinish, GitHubDie, fields
  <2>8. ASSUME NEW a \in Actors, Crash(a) \/ HandlerCrash(a) PROVE FALSE
    BY <2>0, <2>8 DEF Crash, HandlerCrash
  <2>9. CASE Cancel \/ AskApply \/ Apply \/ Deadline \/ GraceEnds \/ Oracle
    BY <2>0, <2>9 DEF Cancel, AskApply, Apply, Deadline, GraceEnds, Oracle, OraclePoll,
       OracleFetch, OracleFinish, PostResult, PostError, fields
  <2> QED BY <2>3, <2>4, <2>5, <2>6, <2>7, <2>8, <2>9, Constants DEF Next
<1> QED BY <1>1, Invariance, PTL DEF Spec, DiscardsNoPlan

-----------------------------------------------------------------------------
(* Every step of the search is a step of its contract, or invisible to it.   *)

(* A finalizer delivers, or does nothing the contract sees.                 *)
LEMMA FinalizeMaps ==
  ASSUME IInv, NEW a \in Actors, Finalize(a) PROVE [Contract!Next]_Contract!vars
<1>1. CASE Snap(a) \/ NoWinner(a) \/ Replay(a)
  BY <1>1 DEF Snap, NoWinner, Replay, fields, Contract!vars
<1>2. CASE Commit(a)
  <2>1. CASE jobId = task[a].job /\ Store(a) /\ state' = "done"
    <3>1. result' = [job |-> jobId, kind |-> kind] /\ jobId > 0
      BY <1>2, <2>1, OptimizeAssumption DEF IInv, CommitKind, TasksKnown, Commit, Store, TypeOK,
         FieldsOK
    <3> QED BY <1>2, <2>1, <3>1 DEF Commit, Contract!Next, Contract!Deliver
  <2> QED BY <1>2, <2>1 DEF Commit, Contract!vars
<1> QED BY <1>1, <1>2 DEF Finalize

(* Ending a search as failed is a Break of the contract.                    *)
LEMMA FailMaps ==
  ASSUME IInv, jobId # 0, state' \in {state, "failed"}, UNCHANGED <<jobId, kind, result>>
  PROVE  [Contract!Next]_Contract!vars
  BY OptimizeAssumption DEF IInv, TypeOK, FieldsOK, Contract!Next, Contract!Break, Contract!vars

(* The search implements OptimizeContract: the refinement mapping is the     *)
(* identity on state, jobId, kind and result.                                *)
THEOREM Refinement == Spec => Implements
<1>1. Init => Contract!Init
  BY DEF Init, Contract!Init, NoResult, Contract!NoResult
<1>2. IInv /\ [Next]_vars => [Contract!Next]_Contract!vars
  <2> SUFFICES ASSUME IInv, [Next]_vars PROVE [Contract!Next]_Contract!vars
    OBVIOUS
  <2>1. ASSUME NEW k \in Kinds, Start(k) PROVE Contract!Begin
    BY <2>1 DEF Start, Contract!Begin, Kinds, Contract!Kinds, NoResult, Contract!NoResult
  <2>2. CASE Apply
    BY <2>2 DEF Apply, Contract!Next, Contract!Consume, NoResult, Contract!NoResult,
       Contract!vars
  <2>3. CASE Restart
    BY <2>3 DEF Restart, Contract!Next, Contract!Lose, NoResult, Contract!NoResult
  <2>4. ASSUME NEW j \in Jobs, Thread(j) PROVE [Contract!Next]_Contract!vars
    <3>1. CASE StopUnclaimed(j) \/ StopEnd(j) \/ StopCheck(j)
      <4>1. CASE UNCHANGED state
        BY <3>1, <4>1 DEF StopUnclaimed, StopEnd, StopCheck, Contract!vars
      <4>2. CASE Running(j) /\ state' = "failed"
        BY <3>1, <4>2, FailMaps DEF StopUnclaimed, StopEnd, StopCheck, IInv, Started, Running
      <4> QED BY <3>1, <4>1, <4>2 DEF StopUnclaimed, StopEnd, StopCheck, FailIf, Fail
    <3>2. CASE Finalize(j)
      BY <3>2, Constants, FinalizeMaps
    <3>3. CASE ~(StopUnclaimed(j) \/ StopEnd(j) \/ StopCheck(j) \/ Finalize(j))
      BY <2>4, <3>3 DEF Thread, Baseline, EndWindow, Recheck, Dispatch, DispatchFails, Tick,
         TickOver, TickStop, TickSalvage, TickGiveUp, StopClaim, Salvaged, LocalEnd, fields,
         Contract!vars
    <3> QED BY <3>1, <3>2, <3>3
  <2>5. ASSUME NEW j \in Jobs, Crash(j) PROVE [Contract!Next]_Contract!vars
    <3>1. jobId # 0 /\ jobId \in Nat
      BY <2>5, OptimizeAssumption DEF Crash, IInv, Started, TypeOK, FieldsOK, Jobs
    <3>2. CASE UNCHANGED result
      BY <2>5, <3>1, <3>2, FailMaps DEF Crash, Fail
    <3>3. CASE pc[j] = "commit" /\ jobId = task[j].job /\ Store(j)
      <4>1. result' = [job |-> jobId, kind |-> kind]
        BY <3>3, Constants DEF IInv, CommitKind, Store
      <4> QED BY <2>5, <3>1, <4>1 DEF Crash, Fail, Contract!Next, Contract!Break
    <3> QED BY <2>5, <3>2, <3>3 DEF Crash
  <2>6. ASSUME NEW h \in Handlers, Finalize(h) PROVE [Contract!Next]_Contract!vars
    BY <2>6, Constants, FinalizeMaps
  <2>7. ASSUME NEW h \in Handlers, HandlerCrash(h) PROVE [Contract!Next]_Contract!vars
    <3>1. CASE UNCHANGED state
      BY <2>7, <3>1 DEF HandlerCrash, Contract!vars
    <3>2. CASE state = "running" /\ state' = "failed"
      BY <2>7, <3>2, FailMaps DEF HandlerCrash, IInv, Started
    <3> QED BY <2>7, <3>1, <3>2 DEF HandlerCrash, FailIf, Fail, Running
  <2>8. CASE Cancel \/ AskApply \/ Deadline \/ GraceEnds \/ Oracle \/ UNCHANGED vars
    BY <2>8 DEF Cancel, AskApply, Deadline, GraceEnds, Oracle, OraclePoll, OracleFetch,
       OracleFinish, PostResult, PostError, fields, vars, Contract!vars
  <2>9. ASSUME NEW j \in Jobs, NEW s \in Shards, GitHub(j, s)
        PROVE  [Contract!Next]_Contract!vars
    BY <2>9 DEF GitHub, GitHubFetch, GitHubFinish, GitHubDie, PostShard, fields, Contract!vars
  <2>10. Contract!Begin => Contract!Next
    BY DEF Contract!Next
  <2> QED BY <2>1, <2>2, <2>3, <2>4, <2>5, <2>6, <2>7, <2>8, <2>9, <2>10 DEF Next
<1> QED BY <1>1, <1>2, Invariance, PTL DEF Spec, Implements, Contract!Spec
============================================================================
