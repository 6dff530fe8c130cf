--------------------------- MODULE MCTemplateTags ---------------------------
EXTENDS TemplateTags, TLC

\* Nodes, requests and tags are interchangeable.
MCSymmetry == Permutations(Nodes) \cup Permutations(Reqs) \cup Permutations(Tags)
=============================================================================
