---------------------------- MODULE KubeInventory ----------------------------
(***************************************************************************)
(* The inventory source of a Kubernetes fleet                              *)
(* (src/pkg/scale/kubeinventory/source.go): a snapshot of the NodeInventory *)
(* objects, rebuilt on every informer event, from which a node drops out   *)
(* once its publish stamp trails the newest one in the fleet by more than  *)
(* staleAfter.  A reader loads the snapshot and then reads its own clock.  *)
(*                                                                         *)
(* Stamps come from the nodes' clocks, which run up to Skew ahead of this  *)
(* process's; an event may be delivered long after its stamp, and an older *)
(* publisher stamps nothing, which counts as the epoch, longer ago than    *)
(* any window.                                                             *)
(***************************************************************************)
EXTENDS Integers

CONSTANTS
    Nodes,       \* nodes with a NodeInventory object
    StaleAfter,  \* Options.StaleAfter
    Skew,        \* how far a node's clock may run ahead
    MaxTime      \* bound: the last instant modelled

ASSUME StaleAfterAssumption == StaleAfter \in Nat
ASSUME SkewAssumption == Skew \in Nat
ASSUME MaxTimeAssumption == MaxTime \in Nat /\ MaxTime > StaleAfter

ZeroTime == -1             \* an inventory without publishedAt: Go's zero time
NoStamp == 0               \* the epoch
Start == StaleAfter + 1    \* the first instant any clock shows

VARIABLES
    now,     \* this process's clock
    held,    \* byNode: the nodes the source holds an inventory of
    stamp,   \* the publish stamp of each held inventory
    newest   \* snapshot.newest

kubeVars == <<now, held, stamp, newest>>

KubeTypeOK ==
    /\ now \in Start..MaxTime
    /\ held \in SUBSET Nodes
    /\ stamp \in [Nodes -> 0..MaxTime + Skew]
    /\ newest \in 0..MaxTime + Skew

KubeInit ==
    /\ now = Start
    /\ held = {}
    /\ stamp = [n \in Nodes |-> NoStamp]
    /\ newest = NoStamp

-----------------------------------------------------------------------------
\* Mutated forms of the definitions below.

\* The newest stamp is trusted even when it lies in the future.
currentUnclamped == newest

\* The reader's clock alone decides.
currentIsNow == now

\* The window is one instant too wide.
staleLate(s, ref) == ref - s > StaleAfter + 1

-----------------------------------------------------------------------------
\* publishedAt: the stamp of an inventory.
publishedAt(s) == IF s = ZeroTime THEN NoStamp ELSE s

\* publish: the largest stamp held, NoStamp when there is none.
publish ==
    \E m \in {NoStamp} \cup {stamp'[n] : n \in held'} :
        /\ \A n \in held' : stamp'[n] <= m
        /\ newest' = m

\* current: what stamps are measured against.
current == IF newest < now THEN newest ELSE now

stale(s, ref) == ref - s > StaleAfter

\* The nodes ListNodes, NodeCapacities and get answer for.
Listed == {n \in held : ~stale(stamp[n], current)}

-----------------------------------------------------------------------------
\* An informer event delivers node n's inventory.
put(n, s) ==
    /\ held' = held \cup {n}
    /\ stamp' = [stamp EXCEPT ![n] = publishedAt(s)]
    /\ publish
    /\ UNCHANGED now

\* The object is deleted.
drop(n) ==
    /\ n \in held
    /\ held' = held \ {n}
    /\ stamp' = [stamp EXCEPT ![n] = NoStamp]
    /\ publish
    /\ UNCHANGED now

Tick ==
    /\ now < MaxTime
    /\ now' = now + 1
    /\ UNCHANGED <<held, stamp, newest>>

KubeNext ==
    \/ \E n \in Nodes : \/ drop(n)
                        \/ \E s \in {ZeroTime} \cup Start..now + Skew : put(n, s)
    \/ Tick

KubeSpec == KubeInit /\ [][KubeNext]_kubeVars

-----------------------------------------------------------------------------
\* When every publisher stops, or the API server stops delivering events, the
\* fleet does not empty itself: some node stays listed as long as any
\* inventory is held, whatever the clocks say and whatever is deleted.
FleetNeverEmpties == held # {} => Listed # {}

\* A node that published within the window is listed, although another node's
\* clock runs ahead and stamps the future.
FreshIsListed == \A n \in held : now - stamp[n] <= StaleAfter => n \in Listed

\* A node whose stamp trails another held one by more than the window, both in
\* the past, is not listed: a dead node leaves while the fleet publishes.
TrailingIsStale ==
    \A n, m \in held :
        stamp[m] <= now /\ stamp[m] - stamp[n] > StaleAfter => n \notin Listed

\* docs/configuration.md:178: "an inventory without `publishedAt` is stale once
\* any node stamps one", even when that stamp is old or from the future.
UnstampedIsStale ==
    \A n, m \in held : stamp[n] = NoStamp /\ stamp[m] # NoStamp => n \notin Listed
=============================================================================
