----------------------------- MODULE MCWarmPool -----------------------------
EXTENDS WarmPool

\* A pool asking for less than nothing, for one, and one that does not divide evenly.
MCReplicas == {-2, 1, 3}
=============================================================================
