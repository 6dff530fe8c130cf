------------------------------ MODULE NodeIndex ------------------------------
(***************************************************************************)
(* The resolution index of the scatter-gather store                        *)
(* (src/pkg/scale/nodeindex.go): two generations of a bounded map from     *)
(* lookup keys to the node last seen holding them.  A full generation is   *)
(* retired as a whole, so a key is forgotten without any bookkeeping per   *)
(* entry.  Every method runs under one mutex, so one method is one step.   *)
(***************************************************************************)
EXTENDS Integers, FiniteSets

CONSTANTS
    Keys,       \* lookup keys, nameKey(...) or claimKey(...)
    Nodes,      \* the nodes of the fleet
    NoNode,     \* the answer of a lookup that misses
    MaxEntries  \* nodeIndexMaxEntries: the size of one generation

ASSUME NoNodeAssumption == NoNode \notin Nodes
ASSUME MaxEntriesAssumption == MaxEntries \in Nat \ {0}

VARIABLES
    cur,   \* the generation being filled
    prev,  \* the retired generation
    last,  \* history: the node last remembered for each key
    age    \* history: stores since each key was last stored, MaxEntries + 1
           \* standing for any larger number and for never

vars == <<cur, prev, last, age>>

\* A Go map from some of the keys to nodes.
Generation == UNION {[K -> Nodes] : K \in SUBSET Keys}

\* The value a map holds after m[k] = n.
Put(m, k, n) == [j \in DOMAIN m \cup {k} |-> IF j = k THEN n ELSE m[j]]

EmptyMap == [j \in {} |-> NoNode]

TypeOK ==
    /\ cur \in Generation
    /\ prev \in Generation
    /\ last \in [Keys -> Nodes \cup {NoNode}]
    /\ age \in [Keys -> 0..MaxEntries + 1]

\* The node lookup answers: the current generation first, then the retired.
Find(k) ==
    IF k \in DOMAIN cur THEN cur[k]
    ELSE IF k \in DOMAIN prev THEN prev[k]
    ELSE NoNode

newNodeIndex ==
    /\ cur = EmptyMap
    /\ prev = EmptyMap

Init ==
    /\ newNodeIndex
    /\ last = [k \in Keys |-> NoNode]
    /\ age = [k \in Keys |-> MaxEntries + 1]

-----------------------------------------------------------------------------
\* Mutated forms of the definitions below, each a slip a maintainer could make.

\* The retired generation is kept when the current one turns over.
storeLockedKeepsPrev(k, n) ==
    LET full == Cardinality(DOMAIN cur) >= MaxEntries
    IN  /\ prev' = IF full /\ DOMAIN prev = {} THEN cur ELSE prev
        /\ cur' = Put(IF full THEN EmptyMap ELSE cur, k, n)

\* The turnover comes one entry late.
storeLockedLate(k, n) ==
    LET full == Cardinality(DOMAIN cur) > MaxEntries
    IN  /\ prev' = IF full THEN cur ELSE prev
        /\ cur' = Put(IF full THEN EmptyMap ELSE cur, k, n)

\* The full generation is dropped instead of retired.
storeLockedDrops(k, n) ==
    LET full == Cardinality(DOMAIN cur) >= MaxEntries
    IN  /\ prev' = prev
        /\ cur' = Put(IF full THEN EmptyMap ELSE cur, k, n)

-----------------------------------------------------------------------------
\* storeLocked retires the whole generation once it is full, even when the
\* key it stores is already in it.
storeLocked(k, n) ==
    LET full == Cardinality(DOMAIN cur) >= MaxEntries
    IN  /\ prev' = IF full THEN cur ELSE prev
        /\ cur' = Put(IF full THEN EmptyMap ELSE cur, k, n)

\* History kept beside a store of k.
Aged(k) ==
    [j \in Keys |-> IF j = k THEN 0
                    ELSE IF age[j] > MaxEntries THEN age[j]
                    ELSE age[j] + 1]

remember(k, n) ==
    /\ storeLocked(k, n)
    /\ last' = [last EXCEPT ![k] = n]
    /\ age' = Aged(k)

\* A hit in the current generation changes nothing, and neither does a miss;
\* a hit in the retired one is stored again.
lookupCurrentOrMiss(k) ==
    /\ k \in DOMAIN cur \/ k \notin DOMAIN prev
    /\ UNCHANGED vars

lookupRetired(k) ==
    /\ k \notin DOMAIN cur
    /\ k \in DOMAIN prev
    /\ storeLocked(k, prev[k])
    /\ age' = Aged(k)
    /\ UNCHANGED last

Next ==
    \E k \in Keys :
        \/ lookupCurrentOrMiss(k)
        \/ lookupRetired(k)
        \/ \E n \in Nodes : remember(k, n)

Spec == Init /\ [][Next]_vars

-----------------------------------------------------------------------------
\* The index never answers with a node other than the one last remembered for
\* the key: a key stored again after its generation was retired must hide the
\* retired copy, and a retired copy must not outlive a newer one.
LookupIsLatest == \A k \in Keys : Find(k) \in {last[k], NoNode}

\* nodeindex.go:43 "bounds the index at 2*max keys": each generation holds at
\* most max entries, however remember and lookup interleave.
Bounded ==
    /\ Cardinality(DOMAIN cur) <= MaxEntries
    /\ Cardinality(DOMAIN prev) <= MaxEntries

\* Retiring a generation is not forgetting it: a key is still found until more
\* than max stores of other keys (promotions by lookup included) have followed
\* its own, so a caller that claims and then reads back is not sent sweeping.
Retained == \A k \in Keys : age[k] <= MaxEntries => Find(k) # NoNode

\* The two generations together behave as the map readers are promised.
knownNow == [k \in Keys |-> Find(k)]

Abstract == INSTANCE LossyIndex WITH known <- knownNow

\* NodeIndex implements LossyIndex: lookups change no answer, a store changes
\* only the answer for its own key, and everything else is forgotten at worst.
ImplementsLossyIndex == Abstract!Spec
=============================================================================
