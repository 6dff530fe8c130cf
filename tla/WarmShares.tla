----------------------------- MODULE WarmShares -----------------------------
(***************************************************************************)
(* The arithmetic of the warm pools (distribute and apportionWarm in       *)
(* src/pkg/scale/warmpool/driver.go): a pool's replicas are spread over    *)
(* the nodes, and the warm microVMs the fleet reports for a key are        *)
(* divided among the pools of that key in proportion to what they ask for. *)
(* Nodes and pools are numbers, in the order the driver takes them in.     *)
(***************************************************************************)
EXTENDS Integers, FiniteSets, FiniteSetsExt

\* poolTarget: a pool of fewer than zero replicas asks for none.
poolTarget(r) == IF r > 0 THEN r ELSE 0

\* Mutated form of distribute: the remainder goes to one node too many.
distributeExtra(r, ns) ==
    [n \in ns |-> poolTarget(r) \div Cardinality(ns)
                  + IF Cardinality({m \in ns : m < n}) <= poolTarget(r) % Cardinality(ns)
                    THEN 1 ELSE 0]

\* distribute: an even spread, the remainder to the first nodes.
distribute(r, ns) ==
    [n \in ns |-> poolTarget(r) \div Cardinality(ns)
                  + IF Cardinality({m \in ns : m < n}) < poolTarget(r) % Cardinality(ns)
                    THEN 1 ELSE 0]

-----------------------------------------------------------------------------
(* Below, keyOf and want give the key and the target of each pool, and     *)
(* fleet the warm microVMs of each key.                                    *)

PoolsOf(k, keyOf) == {p \in DOMAIN keyOf : keyOf[p] = k}
sumTarget(k, keyOf, want) == SumFunctionOnSet(want, PoolsOf(k, keyOf))

\* The proportional share, rounded down.
share(p, keyOf, want, fleet) ==
    LET sum == sumTarget(keyOf[p], keyOf, want)
    IN  IF sum > 0 THEN (fleet[keyOf[p]] * want[p]) \div sum ELSE 0

\* Mutated form of leftover: the microVMs the division leaves over belong to
\* nobody.
leftoverDropped(p, keyOf, want, fleet) == 0

\* What the division leaves over goes one each to the first pools of the key,
\* or all to the very first when none of them asks for anything.
leftover(p, keyOf, want, fleet) ==
    LET k == keyOf[p]
        left == fleet[k] - SumFunction([q \in PoolsOf(k, keyOf) |-> share(q, keyOf, want, fleet)])
        rank == Cardinality({q \in PoolsOf(k, keyOf) : q < p})
    IN  IF sumTarget(k, keyOf, want) > 0 THEN IF rank < left THEN 1 ELSE 0
        ELSE IF rank = 0 THEN left ELSE 0

apportionWarm(keyOf, want, fleet) ==
    [p \in DOMAIN keyOf |-> share(p, keyOf, want, fleet) + leftover(p, keyOf, want, fleet)]
=============================================================================
