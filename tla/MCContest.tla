----------------------------- MODULE MCContest -----------------------------
(* Small instances of Contest; the tuner has the parameters of the planner.  *)
EXTENDS Contest, TLC

MCCurrents == {<<80, FALSE>>, <<70, TRUE>>}
MCPeaks    == {p \in Lo..Hi : p % 19 = 3} \cup {Lo, Hi}
MCRough    == (1..8) \X {7, 11}

(* Two committed orders and a draft with the date asked for.                 *)
Line(due, promised, committed, target) ==
    [due |-> due, promised |-> promised, committed |-> committed, target |-> target]
Book    == [A |-> Line(10, 9, TRUE, NoDay), B |-> Line(12, 12, TRUE, NoDay), N |-> Line(11, NoDay, FALSE, 11)]
MCBooks == {Book, [Book EXCEPT !.B.committed = FALSE], [k \in {"A", "N"} |-> Book[k]]}
MCEnds  == {10 * 1440 + 719, 11 * 1440, 12 * 1440 + 1439, 75 * 1440 + 333, 300 * 1440 + 36}
MCCeilings == {NoDay, 20}
============================================================================
