---------------------------- MODULE MCE2BLeases ----------------------------
(* Model values for checking E2BLeases.                                    *)
EXTENDS E2BLeases, TLC

MCSymmetry == Permutations(Calls)
=============================================================================
