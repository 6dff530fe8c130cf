----------------------------- MODULE MCReadPath -----------------------------
EXTENDS ReadPath, TLC

\* Claim ids and nodes are interchangeable: no action tells two of them apart.
MCSymmetry == Permutations(Ids) \cup Permutations(Nodes)
=============================================================================
