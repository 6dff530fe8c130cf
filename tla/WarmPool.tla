------------------------------ MODULE WarmPool ------------------------------
(***************************************************************************)
(* The warm-pool driver (src/pkg/scale/warmpool/driver.go): reconcileOnce  *)
(* lists the SandboxWarmPools and the schedulable nodes, resolves each     *)
(* pool's template to a key, spreads each pool's replicas over the nodes   *)
(* and PUTs every node its whole set of pools; sandboxd drains a pool the  *)
(* set omits.  Then it shares out among the pools of a key the warm        *)
(* microVMs the nodes report (WarmShares.tla) and writes that as their     *)
(* status.  Leader election leaves one driver, which one controller worker *)
(* runs, so reconciles do not overlap; it is rebuilt when it stops.        *)
(*                                                                         *)
(* The API server and the nodes are external.  The driver reads pools and  *)
(* templates from the manager's informer cache, which lags behind the API  *)
(* server: pool, key and replicas are what the cache holds.  They and the  *)
(* nodes change between any two steps of a reconcile, and the warm         *)
(* microVMs of a key are claimed and refilled all the time, so the nodes   *)
(* may report any number.  Nodes are numbered in the order of their names, *)
(* pools in the order they are listed in.                                  *)
(***************************************************************************)
EXTENDS WarmShares

CONSTANTS
    NumNodes,  \* nodes
    NumPools,  \* SandboxWarmPools
    Keys,      \* pool keys: template, net and size
    NoPoolKey, \* a template that is not found, or no template named
    Replicas,  \* the values of spec.replicas
    MaxWarm,   \* bound: the warm microVMs of one key
    MaxChanges \* bound: changes to pools, templates and nodes

ASSUME NumNodesAssumption == NumNodes \in Nat \ {0}
ASSUME NumPoolsAssumption == NumPools \in Nat \ {0}
ASSUME KeysAssumption == NoPoolKey \notin Keys
ASSUME ReplicasAssumption == Replicas \subseteq Int /\ IsFiniteSet(Replicas)  \* int32
ASSUME BoundsAssumption == MaxWarm \in Nat /\ MaxChanges \in Nat

AllNodes == 1..NumNodes
Pools == 1..NumPools
NoPools == [k \in {} |-> 0]  \* the targets of a node without pools

VARIABLES
    pool,      \* the pools that exist
    key,       \* the key each pool's template resolves to, or NoPoolKey
    replicas,  \* each pool's spec.replicas
    listed,    \* the nodes that advertise an address
    target,    \* each node's warm target for each key it has a pool of
    status,    \* each pool's status.readyReplicas
    token,     \* whether the driver has a sandboxd token
    changes,   \* changes made so far
    step,      \* the driver: "idle", "resolve", "apply" or "status"
    nodes,     \* the schedulable nodes it listed
    todo,      \* the pools or, in "apply", the nodes still to handle
    desired,   \* the pools listed: their replicas and, once resolved, their key
    shares,    \* each pool's share of the warm microVMs
    touched,   \* pools whose object has changed since the list
    kept,      \* history: pools that kept existing under one key since the list
    applied,   \* history: the last reconcile reached every node and nothing
               \* has changed since its list
    told,      \* history: the same of its status writes
    seen       \* history: the warm microVMs the statuses told of

apiVars == <<pool, key, replicas>>
driverVars == <<token, step, nodes, todo, desired, shares>>
statusVars == <<status, touched, told, seen>>
warmVars == <<apiVars, listed, target, statusVars, changes, driverVars, kept, applied>>

\* The largest total a node can be asked for.
MaxTarget == NumPools * Max(Replicas \cup {0})

\* No pool, or one without a key.
Unresolved == [key |-> NoPoolKey, replicas |-> 0]

WarmTypeOK ==
    /\ pool \in SUBSET Pools
    /\ key \in [Pools -> Keys \cup {NoPoolKey}]
    /\ replicas \in [Pools -> Replicas \cup {0}]
    /\ listed \in SUBSET AllNodes
    /\ target \in [AllNodes -> UNION {[K -> 0..MaxTarget] : K \in SUBSET Keys}]
    /\ status \in [Pools -> 0..MaxWarm]
    /\ token \in BOOLEAN
    /\ changes \in 0..MaxChanges
    /\ step \in {"idle", "resolve", "apply", "status"}
    /\ nodes \in SUBSET AllNodes
    /\ todo \in SUBSET (AllNodes \cup Pools)
    /\ desired \in [Pools -> [key : Keys \cup {NoPoolKey}, replicas : Replicas \cup {0}]]
    /\ shares \in [Pools -> 0..MaxWarm]
    /\ touched \in SUBSET Pools
    /\ kept \in SUBSET Pools
    /\ applied \in {"no", "sofar", "yes"}
    /\ told \in {"no", "sofar", "yes"}
    /\ seen \in [Keys -> 0..MaxWarm]

\* The driver starts over pools, templates and nodes that are there.
WarmInit ==
    /\ pool \in SUBSET Pools
    /\ key \in [Pools -> Keys \cup {NoPoolKey}]
    /\ replicas \in {f \in [Pools -> Replicas \cup {0}] : \A p \in Pools \ pool : f[p] = 0}
    /\ listed \in SUBSET AllNodes
    /\ status = [p \in Pools |-> 0]
    /\ token \in BOOLEAN
    /\ changes = 0
    /\ shares = [p \in Pools |-> 0]
    /\ touched = {}
    /\ told = "no"
    /\ seen = [k \in Keys |-> 0]
    /\ target = [n \in AllNodes |-> NoPools]
    /\ step = "idle"
    /\ nodes = {}
    /\ todo = {}
    /\ desired = [p \in Pools |-> Unresolved]
    /\ kept = {}
    /\ applied = "no"

-----------------------------------------------------------------------------
(* The API server and the nodes.                                           *)

\* One of the bounded changes, which none of the histories survives.
Change ==
    /\ changes < MaxChanges
    /\ changes' = changes + 1
    /\ applied' = "no"

\* What is told of a pool or template no longer holds once it changes.
Untold == told' = "no" /\ seen' = [k \in Keys |-> 0]

\* A pool is created with any replicas, scaled or deleted.
PoolChanges(p) ==
    /\ Change
    /\ Untold
    /\ \/ /\ p \in pool /\ pool' = pool \ {p}
          /\ replicas' = [replicas EXCEPT ![p] = 0]
          /\ status' = [status EXCEPT ![p] = 0]
       \/ /\ pool' = pool \cup {p}
          /\ \E r \in Replicas : replicas' = [replicas EXCEPT ![p] = r]
          /\ UNCHANGED status
    /\ kept' = IF p \in pool' THEN kept ELSE kept \ {p}
    /\ touched' = IF step = "idle" THEN {} ELSE touched \cup {p}
    /\ UNCHANGED <<key, listed, target, driverVars>>

\* A pool's template is edited, deleted or created, or another one named.
TemplateChanges(p, k) ==
    /\ Change
    /\ Untold
    /\ k # key[p]
    /\ key' = [key EXCEPT ![p] = k]
    /\ kept' = kept \ {p}
    /\ UNCHANGED <<pool, replicas, listed, target, status, touched, driverVars>>

ListingChanges(n) ==
    /\ Change
    /\ listed' = IF n \in listed THEN listed \ {n} ELSE listed \cup {n}
    /\ UNCHANGED <<apiVars, target, statusVars, driverVars, kept>>

\* A node restarts without its pools.
NodeRestarts(n) ==
    /\ Change
    /\ target' = [target EXCEPT ![n] = NoPools]
    /\ UNCHANGED <<apiVars, listed, statusVars, driverVars, kept>>

-----------------------------------------------------------------------------
\* A reconcile has ended: what it listed is forgotten.
Rest ==
    /\ step' = "idle"
    /\ nodes' = {}
    /\ todo' = {}
    /\ desired' = [p \in Pools |-> Unresolved]
    /\ shares' = [p \in Pools |-> 0]
    /\ touched' = {}
    /\ kept' = {}
    /\ UNCHANGED token

\* A reconcile that ends early: nothing is known of its effects.
GivesUp ==
    /\ Rest
    /\ applied' = "no"
    /\ Untold
    /\ UNCHANGED <<apiVars, listed, target, status, changes>>

\* Mutated form of resolveFails: a template that cannot be read is skipped like
\* one that does not exist.
resolveFailsSkipping(p) ==
    /\ step = "resolve"
    /\ p \in todo
    /\ todo' = todo \ {p}
    /\ desired' = [desired EXCEPT ![p] = Unresolved]
    /\ applied' = "no"
    /\ Untold
    /\ UNCHANGED <<apiVars, listed, target, status, touched, changes, token, step, nodes,
                   shares, kept>>

-----------------------------------------------------------------------------
(* The driver.                                                             *)

\* reconcileOnce lists the pools, then schedulableNodes the nodes.
listPools ==
    /\ step = "idle"
    /\ step' = "resolve"
    /\ nodes' = listed
    /\ todo' = pool
    /\ desired' = [p \in Pools |-> [key |-> NoPoolKey,
                                    replicas |-> IF p \in pool THEN replicas[p] ELSE 0]]
    /\ kept' = {p \in pool : key[p] # NoPoolKey}
    /\ applied' = "sofar"
    /\ told' = "sofar"
    /\ UNCHANGED <<apiVars, listed, target, status, touched, seen, changes, token, shares>>

First(p) == p \in todo /\ \A q \in todo : p <= q

\* writeStatus: of a pool that changed since it was listed the write conflicts,
\* any other may fail; either waits for the next reconcile.
writeStatus(p, warm) ==
    \/ /\ p \notin touched
       /\ status' = [status EXCEPT ![p] = warm]
       /\ UNCHANGED told
    \/ /\ status[p] # warm \/ p \in touched
       /\ UNCHANGED status
       /\ told' = "no"

\* poolKey: a pool as it was listed gets the key of its template as it is now;
\* one whose template does not exist is left out and has nothing warm.
poolKey(p) ==
    /\ step = "resolve"
    /\ First(p)
    /\ todo' = todo \ {p}
    /\ desired' = [desired EXCEPT ![p].key = key[p]]
    /\ IF key[p] = NoPoolKey THEN writeStatus(p, 0) ELSE UNCHANGED <<status, told>>
    /\ UNCHANGED <<apiVars, listed, target, touched, seen, changes, token, step, nodes, shares,
                   kept, applied>>

\* Any other error ends the reconcile before a node is touched.
resolveFails(p) ==
    /\ step = "resolve"
    /\ First(p)
    /\ GivesUp

\* Without a token no node is touched.
resolved ==
    /\ step = "resolve"
    /\ todo = {}
    /\ step' = "apply"
    /\ todo' = IF token THEN nodes ELSE {}
    /\ applied' = IF token THEN applied ELSE "no"
    /\ UNCHANGED <<apiVars, listed, target, statusVars, changes, token, nodes, desired, shares,
                   kept>>

\* The pools with a key.
Resolved == {p \in Pools : desired[p].key # NoPoolKey}

\* The set one node is sent: pools of one key added up.
specs(n) ==
    [k \in {desired[p].key : p \in Resolved} |->
        SumFunction([p \in {p \in Resolved : desired[p].key = k} |->
                        distribute(desired[p].replicas, nodes)[n]])]

\* applyToNodes, side by side: a node takes the whole set.
SetPools(n) ==
    /\ step = "apply"
    /\ n \in todo
    /\ todo' = todo \ {n}
    /\ target' = [target EXCEPT ![n] = specs(n)]
    /\ UNCHANGED <<apiVars, listed, statusVars, changes, token, step, nodes, desired, shares,
                   kept, applied>>

\* A PUT that fails, acted on by the node or not, is only logged.
SetPoolsFails(n) ==
    /\ step = "apply"
    /\ n \in todo
    /\ todo' = todo \ {n}
    /\ \/ UNCHANGED target
       \/ target' = [target EXCEPT ![n] = specs(n)]
    /\ applied' = "no"
    /\ UNCHANGED <<apiVars, listed, statusVars, changes, token, step, nodes, desired, shares, kept>>

\* What a pool asks of the nodes there are.
Target(p) == IF nodes = {} THEN 0 ELSE poolTarget(desired[p].replicas)

\* Every PUT has ended: what the nodes report, in their answers or else in their
\* inventories, is shared out.
shareOut ==
    /\ step = "apply"
    /\ todo = {}
    /\ \E fleet \in [Keys -> IF nodes = {} THEN {0} ELSE 0..MaxWarm] :
         LET out == apportionWarm([p \in Resolved |-> desired[p].key],
                                  [p \in Resolved |-> Target(p)], fleet)
         IN  /\ shares' = [p \in Pools |-> IF p \in Resolved THEN out[p] ELSE 0]
             /\ seen' = IF told = "sofar" THEN fleet ELSE seen
    /\ step' = "status"
    /\ todo' = Resolved
    /\ UNCHANGED <<apiVars, listed, target, status, touched, told, changes, token, nodes, desired,
                   kept, applied>>

writeShare(p) ==
    /\ step = "status"
    /\ First(p)
    /\ todo' = todo \ {p}
    /\ writeStatus(p, shares[p])
    /\ seen' = IF told' = "no" THEN [k \in Keys |-> 0] ELSE seen
    /\ UNCHANGED <<apiVars, listed, target, touched, changes, token, step, nodes, desired, shares,
                   kept, applied>>

\* The next reconcile comes with the interval.
reconciled ==
    /\ step = "status"
    /\ todo = {}
    /\ Rest
    /\ applied' = IF applied = "sofar" THEN "yes" ELSE applied
    /\ told' = IF told = "sofar" THEN "yes" ELSE told
    /\ UNCHANGED <<apiVars, listed, target, status, seen, changes>>

\* The manager stops, its lease lost, and is rebuilt.
runRestarting ==
    /\ step # "idle"
    /\ GivesUp

Driver ==
    \/ listPools
    \/ \E p \in Pools : poolKey(p) \/ resolveFails(p) \/ writeShare(p)
    \/ resolved
    \/ \E n \in AllNodes : SetPools(n) \/ SetPoolsFails(n)
    \/ shareOut
    \/ reconciled

Environment ==
    \/ \E p \in Pools : \/ PoolChanges(p)
                        \/ \E k \in Keys \cup {NoPoolKey} : TemplateChanges(p, k)
    \/ \E n \in AllNodes : ListingChanges(n) \/ NodeRestarts(n)

WarmNext == Driver \/ runRestarting \/ Environment

WarmSpec == WarmInit /\ [][WarmNext]_warmVars

-----------------------------------------------------------------------------
\* What the pools ask of the fleet for one key.
Of(k) == {p \in pool : key[p] = k}
Wanted(k) == SumFunction([p \in Of(k) |-> poolTarget(replicas[p])])

Exact(k) ==
    /\ \A n \in listed : k \in DOMAIN target[n] <=> Of(k) # {}
    /\ Of(k) # {} =>
         /\ SumFunction([n \in listed |-> target[n][k]]) = Wanted(k)
         /\ \A m, n \in listed : target[m][k] - target[n][k] <= NumPools

\* A reconcile that reached every node leaves the fleet with exactly the
\* replicas asked for, pools that share a key added up, spread so that no two
\* nodes differ by more than one microVM per pool.
AppliedIsExact ==
    /\ WarmTypeOK
    /\ applied = "yes" /\ listed # {} => \A k \in Keys : Exact(k)

\* The pools of a key are given between them what the nodes reported for it, each
\* within one microVM of its exact proportion.
Shared(given, k) ==
    /\ SumFunctionOnSet(given, Of(k)) = seen[k]
    /\ Wanted(k) > 0 /\ seen[k] > 0 => \A p \in Of(k) :
         LET d == given[p] * Wanted(k) - seen[k] * poolTarget(replicas[p])
         IN  -Wanted(k) <= d /\ d <= Wanted(k)

\* docs/usage.md:134: the status reports "the warm microVMs the fleet actually
\* holds".  A reconcile whose status writes went through leaves the pools of a
\* key reporting between them exactly what the nodes reported for it, none lost
\* to rounding and none counted twice, each within one microVM of its exact
\* proportion, and a pool without a template reporting none.
StatusIsShared ==
    told = "yes" =>
        /\ \A p \in pool : key[p] = NoPoolKey => status[p] = 0
        /\ \A k \in Keys : Of(k) # {} => Shared(status, k)

\* A node loses a pool only when nobody wants it, or by restarting: a pool that
\* existed with one key all through the reconcile is never drained by another
\* pool's missing template, by an API server that fails half way or by a
\* driver that restarts.
KeptWhileWanted ==
    [][\A n \in AllNodes, k \in Keys :
          k \in DOMAIN target[n] \ DOMAIN target'[n] /\ ~NodeRestarts(n) =>
              \A p \in kept : key[p] # k]_warmVars
=============================================================================
