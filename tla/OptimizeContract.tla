-------------------------- MODULE OptimizeContract --------------------------
(***************************************************************************)
(* What the rest of the server may rely on about the Optimize search, with  *)
(* no thread, shard or worker in sight: searches are numbered and start one *)
(* at a time; a result is of the search that was started last, and of the   *)
(* kind it was started as; only a finished search can be applied, and doing *)
(* so consumes its result.                                                 *)
(*                                                                         *)
(* Weaker than it could be, as the code is: a result may land after its     *)
(* search was already ended (by a Stop, a failure, an earlier copy of the   *)
(* result, or even after it was applied).                                   *)
(***************************************************************************)
EXTENDS Naturals

VARIABLES state, jobId, kind, result

vars == <<state, jobId, kind, result>>

Kinds    == {"plan", "quote"}
NoResult == [job |-> 0, kind |-> "plan"]

Init == state = "idle" /\ jobId = 0 /\ kind = "plan" /\ result = NoResult

(* POST /optimize, /new-orders/prepone *)
Begin ==
    /\ state # "running" /\ state' = "running"
    /\ jobId' = jobId + 1 /\ kind' \in Kinds /\ result' = NoResult

(* The search, or a late copy of it, stores its result. *)
Deliver ==
    /\ jobId > 0 /\ state' = "done"
    /\ result' = [job |-> jobId, kind |-> kind]
    /\ UNCHANGED <<jobId, kind>>

(* A failure leaves a result that is already there. *)
Break ==
    /\ jobId > 0 /\ state' = "failed"
    /\ result' \in {result, [job |-> jobId, kind |-> kind]}
    /\ UNCHANGED <<jobId, kind>>

(* POST /optimize/apply, /new-orders/prepone/accept *)
Consume ==
    /\ state = "done" /\ result # NoResult
    /\ state' = "idle" /\ result' = NoResult
    /\ UNCHANGED <<jobId, kind>>

(* The process restarts; job ids are never reused. *)
Lose ==
    /\ state' = "idle" /\ kind' = "plan" /\ result' = NoResult
    /\ UNCHANGED jobId

Next == Begin \/ Deliver \/ Break \/ Consume \/ Lose

Spec == Init /\ [][Next]_vars
=============================================================================
