------------------------------- MODULE MCQuery -------------------------------
(***************************************************************************)
(* Query for TLC: three databases of one, two and two seconds.             *)
(***************************************************************************)
EXTENDS Query

MCStarts == <<1, 2, 4>>

MCStored == {{3, 4, 5, 6, 8}, {3, 10, 11}, {4, 5, 6, 7, 9}}

\* The borders of the levels, one entry each.
MCLevelOf == [k \in Keys |-> <<-1, 0, 3, 4, 7, 8, -4, 9, 8, 2>>[k - 1]]

MCLevelSets ==
    {{}, {"error", "warn"}, {"error", "info", "debug"}, {"warn", "debug"},
     {"error", "warn", "info"}}

MCExprs == {<<>>, <<{3, 4, 6, 8, 9}>>, <<{3, 6, 8}, {2, 4, 7}>>}

MCFroms == {2, MaxKey}
=============================================================================
