--------------------------- MODULE MCMeshInventory ---------------------------
EXTENDS MeshInventory, TLC

\* The seeds are interchangeable, and so are the other addresses.
MCSymmetry == Permutations(Seeds) \cup Permutations(Addrs \ Seeds)
=============================================================================
