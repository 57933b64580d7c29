----------------------------- MODULE MCBatching -----------------------------
(* Small instances of Batching.                                              *)
EXTENDS Batching, TLC

MCItemOf == 1 :> 1 @@ 2 :> 2 @@ 3 :> 1 @@ 4 :> 1 @@ 5 :> 2 @@ 6 :> 1 @@ 7 :> 3
MCQtyOf  == 1 :> 2 @@ 2 :> 1 @@ 3 :> 1 @@ 4 :> 1 @@ 5 :> 2 @@ 6 :> 1 @@ 7 :> 1
MCRoutes ==
    <<<<[machine |-> "A", cycle |-> 1], [machine |-> "B", cycle |-> 2]>>,
      <<[machine |-> "B", cycle |-> 1], [machine |-> "OS", cycle |-> 5], [machine |-> "A", cycle |-> 1]>>,
      <<[machine |-> "C", cycle |-> 1]>>>>
MCReserved == {<<"A", 2, 4>>}
MCDrafts == {<<4, 5>>, <<6>>, <<4, 5, 6>>, <<5, 1>>}
MCNone == -1
MCNoTarget == {-1}
=============================================================================
