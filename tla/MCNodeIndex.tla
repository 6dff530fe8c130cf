---------------------------- MODULE MCNodeIndex ----------------------------
(* NodeIndex for TLC: more keys than two full generations hold.            *)
EXTENDS NodeIndex, TLC

MCSymmetry == Permutations(Keys) \cup Permutations(Nodes)
=============================================================================
