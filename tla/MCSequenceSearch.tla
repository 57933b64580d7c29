-------------------------- MODULE MCSequenceSearch --------------------------
(* Three orders, six sequences: one of two the best, the first of them in    *)
(* the middle, the others in the middle or the worst.                       *)
EXTENDS SequenceSearch, TLC

MCDue  == <<2, 1, 3>>
MCWork == <<5, 9, 2>>

(* no date, one date, two dates with the later key's the tighter *)
MCMusts == {<<>>, 3 :> 1, (1 :> 2) @@ (3 :> 1)}

(* no plan; a plan; one whose fourth order is gone; one that lacks an order  *)
MCInForce == {<<>>, <<3, 1, 2>>, <<1, 4, 3, 2>>, <<2, 3>>}

MCLandscapes ==
    {[f EXCEPT ![p] = 0] : f \in {g \in [Perms -> 1..2] : g[<<1, 2, 3>>] = 1},
                           p \in {<<2, 3, 1>>, <<3, 2, 1>>}}
============================================================================
