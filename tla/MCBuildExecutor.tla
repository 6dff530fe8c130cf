--------------------------- MODULE MCBuildExecutor ---------------------------
EXTENDS BuildExecutor, TLC

CONSTANTS n1, n2

\* One node's clock is ahead of the other's.
MCNodes == {n1, n2}
MCAhead == n1 :> 0 @@ n2 :> MaxSkew

\* Builds are interchangeable.
MCSymmetry == Permutations(Builds)
=============================================================================
