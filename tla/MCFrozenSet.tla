----------------------------- MODULE MCFrozenSet ----------------------------
(* Small instances of FrozenSet.                                             *)
EXTENDS FrozenSet, TLC

MCRouting == <<"cut", "mill", "wash">>
MCOptions == [cut |-> {"M1"}, mill |-> {"M2", "M3"}, wash |-> {"M1"}]
MCCycle == [cut |-> 2, mill |-> 4, wash |-> 2]
MCBreaks == {<<"M2", 0>>}
=============================================================================
