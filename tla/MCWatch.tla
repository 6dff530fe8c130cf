------------------------------- MODULE MCWatch -------------------------------
(* Watch and E2BList for TLC: a fleet watch over claims under names of their own, and  *)
(* a fleet and a pinned watch over one name deleted and claimed again.     *)
EXTENDS E2BList, TLC

CONSTANTS i1, i2, x, y

MCDistinct == (i1 :> x) @@ (i2 :> y)
MCReused == (i1 :> x) @@ (i2 :> x)

MCScenarios == {[name |-> MCDistinct, pin |-> NoName],
                [name |-> MCReused, pin |-> NoName],
                [name |-> MCReused, pin |-> x]}
\* Two claims of one second.
MCStartedAt == [i \in Ids |-> 0]
MCIdRank == (i1 :> 1) @@ (i2 :> 2)
=============================================================================
