---------------------------- MODULE MCFlowDecoder ----------------------------
(* Instances of FlowDecoder for TLC: a shop of two lathes and a bench, four  *)
(* people, and short routings that contend for them.  A tick is about two    *)
(* hours; the bench does not run at night.                                  *)
EXTENDS FlowDecoder

Turning(on, cycle) == [kind |-> "machining", on |-> on, cycle |-> cycle]
Deburring(cycle) == [kind |-> "manual", on |-> <<"H">>, cycle |-> cycle]
Plating(days) == [kind |-> "outsourced", on |-> <<>>, cycle |-> days]
Dispatch == [kind |-> "dispatch", on |-> <<>>, cycle |-> 0]

(* Every order of the book but the new ones, or one of them not yet planned. *)
AllOrders == {Jobs \ NewJobs}
AllButOne == {Jobs \ NewJobs, (Jobs \ NewJobs) \ {Max(Jobs \ NewJobs)}}

FourRoutes ==
    {<<Turning(<<"A", "B">>, 1), Deburring(1), Dispatch>>,
     <<Deburring(2), Plating(4), Turning(<<"A">>, 1)>>,
     <<Turning(<<"B">>, 2), Turning(<<"A">>, 1)>>,
     <<Deburring(1), Turning(<<"A", "B">>, 2), Deburring(1)>>}

(* The new orders take the first routing, which meets all the others. *)
Books4 == {r \in [Jobs -> FourRoutes] :
             \A k \in NewJobs : r[k] = <<Turning(<<"A", "B">>, 1), Deburring(1), Dispatch>>}

(* Lunch, and a pause of the night shift just after midnight. *)
Meals == {<<6, 7>>, <<0, 1>>}

(* People 1 to 3 work by day, 4 at night; 3 is away on the first day. *)
UsualShop ==
    [skill |-> <<{"A", "H"}, {"A", "B"}, {"H"}, {"A", "B"}>>, base |-> <<"day", "day", "day", "night">>,
     leave |-> {<<3, 0, 0>>}, down |-> {}]
SickDay == [UsualShop EXCEPT !.leave = {<<1, 1, 1>>}, !.down = {<<"A", 1, 1>>}]
Retrained == [UsualShop EXCEPT !.skill[1] = {"A", "B"}, !.skill[2] = {"B"}]
NobodyAtBench == [UsualShop EXCEPT !.skill[1] = {"A"}, !.skill[3] = {}]
LongLeave == [UsualShop EXCEPT !.leave = {<<1, 0, 9>>, <<3, 9, 0>>}]
AllShops == {UsualShop, SickDay, Retrained, NobodyAtBench, LongLeave}

(* Two people and three benches: the second one is shared. *)
Bench(on, cycle) == [kind |-> "manual", on |-> on, cycle |-> cycle]
SharedBooks ==
    {r \in [Jobs -> {<<Bench(<<"N", "H">>, 1), Bench(<<"H", "N">>, 1)>>,
                     <<Bench(<<"N">>, 10), Bench(<<"A">>, 10), Bench(<<"H">>, 10)>>,
                     <<Bench(<<"H">>, 7)>>}] :
        r[1] # r[2] /\ r[2] # r[3] /\ r[1] # r[3]}
TwoPeople == [skill |-> <<{"H", "N"}, {"A", "H"}>>, base |-> <<"day", "day">>, leave |-> {}, down |-> {}]
SharedShop == {TwoPeople}

(* Five jobs meet on one lathe.  The first is held up where it is fed, the third
   is pushed on by the guard. *)
Lathe(on, cycle) == Turning(<<on>>, cycle)
QueueBooks ==
    {<<<<Lathe("B", 1), Lathe("A", 11)>>, <<Plating(3), Lathe("A", 9)>>, <<Lathe("C", 10), Lathe("A", 1)>>,
       <<Lathe("D", 2), Lathe("A", 1)>>, <<Plating(1), Lathe("A", 1)>>>>}
OneEach == [skill |-> <<{"A"}, {"B"}, {"C"}, {"D"}>>, base |-> [p \in People |-> "day"], leave |-> {}, down |-> {}]
QueueShops == {OneEach, [OneEach EXCEPT !.leave = {<<2, 0, 0>>}]}
=============================================================================
