----------------------------- MODULE LossyIndex -----------------------------
(***************************************************************************)
(* What the resolution index promises its readers, and nothing about how   *)
(* it is kept: a map from lookup keys to nodes that may forget any key     *)
(* whenever another one is stored, and that never answers with a node      *)
(* other than the one last remembered for the key.  A forgotten key costs  *)
(* its reader a sweep of the fleet; a wrong node would cost it the answer. *)
(*                                                                         *)
(* NodeIndex implements this module; ReadPath uses it as its index.        *)
(***************************************************************************)
CONSTANTS
    Keys,   \* lookup keys, nameKey(...) or claimKey(...)
    Nodes,  \* the nodes of the fleet
    NoNode  \* "not in the index"

VARIABLE
    known   \* known[k]: the node the index answers for k, or NoNode

TypeOK == known \in [Keys -> Nodes \cup {NoNode}]

Init == known = [k \in Keys |-> NoNode]

\* Storing k may forget other keys, never invent or change one.
ForgetsOnly(k) == \A j \in Keys \ {k} : known'[j] \in {known[j], NoNode}

Remember(k, n) ==
    /\ known' \in [Keys -> Nodes \cup {NoNode}]
    /\ known'[k] = n
    /\ ForgetsOnly(k)

\* A lookup that finds its key may have to store it again.
Lookup(k) ==
    /\ known' \in [Keys -> Nodes \cup {NoNode}]
    /\ known'[k] = known[k]
    /\ ForgetsOnly(k)

Next == \E k \in Keys : Lookup(k) \/ \E n \in Nodes : Remember(k, n)

Spec == Init /\ [][Next]_known
=============================================================================
