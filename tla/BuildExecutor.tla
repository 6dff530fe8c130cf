---------------------------- MODULE BuildExecutor ----------------------------
(***************************************************************************)
(* Template builds of one name: the executor's records, slots and runs     *)
(* (src/pkg/e2bbuild/executor.go) and the publish that replaces the builds *)
(* before it (publishBuild and liveHolders in src/pkg/e2bcompat/builds.go). *)
(* Each run is a goroutine that claims a microVM, prepares it, promotes it *)
(* as a template, publishes and releases; the executor's methods run under *)
(* one mutex.                                                              *)
(*                                                                         *)
(* The nodes are external.  A node holds one template record of the name,  *)
(* which a promote replaces; its digest is the build it came from.  Each   *)
(* node stamps its record with its own clock: the clocks are up to MaxSkew *)
(* apart, do not go back and may tie.  A publish asks the nodes that the   *)
(* inventory lists, which may be any of them.  A call to a node may fail   *)
(* with or without effect.  Age is left to chance: a record that may be    *)
(* swept may be swept at any sweep.                                        *)
(***************************************************************************)
EXTENDS Integers, FiniteSets

CONSTANTS
    Builds,    \* build ids, never reused
    Nodes,     \* nodes running sandboxd
    NoNode,    \* no node
    NoBuild,   \* no template record
    Parallel,  \* the executor's slots
    MaxSkew,   \* how far apart the nodes' clocks may be
    Ahead,     \* how far each node's clock is ahead of the slowest one's
    MaxClock   \* bound: the instants a promote may happen at

ASSUME NoNodeAssumption == NoNode \notin Nodes
ASSUME NoBuildAssumption == NoBuild \notin Builds
ASSUME ParallelAssumption == Parallel \in Nat \ {0}
ASSUME SkewAssumption == MaxSkew \in Nat /\ Ahead \in [Nodes -> 0..MaxSkew]
ASSUME MaxClockAssumption == MaxClock \in Nat \ {0}

VARIABLES
    status,    \* each build's record: "none" or a Status constant
    pc,        \* each build's run: "none" or the call it makes next
    slots,     \* slots taken
    at,        \* the node of each run's microVM
    vms,       \* the builds with a microVM on each node
    created,   \* the stamp of each build's promote, 0 before
    holder,    \* the build whose template each node holds
    tagged,    \* the nodes whose record carries its own build's tags
    todo,      \* the older holders each publish still has to delete
    ok,        \* whether each run has succeeded so far
    clock,     \* the instant
    claims,    \* history: microVMs delivered to each build
    risk,      \* history: builds whose claim or release was not answered
    missed     \* history: the nodes with an older holder each publish was not shown

recordVars == <<status, slots>>
runVars == <<pc, at, todo, ok>>
nodeVars == <<vms, created, holder, tagged, clock>>
history == <<claims, risk, missed>>
vars == <<recordVars, runVars, nodeVars, history>>

Holders == [node : Nodes, build : Builds]

TypeOK ==
    /\ status \in [Builds -> {"none", "waiting", "building", "ready", "error"}]
    /\ pc \in [Builds -> {"none", "claim", "prepare", "promote", "list", "delete",
                          "label", "release", "finish", "slot"}]
    /\ slots \in 0..Parallel
    /\ at \in [Builds -> Nodes \cup {NoNode}]
    /\ vms \in [Nodes -> SUBSET Builds]
    /\ created \in [Builds -> 0..(MaxClock + MaxSkew)]
    /\ holder \in [Nodes -> Builds \cup {NoBuild}]
    /\ tagged \in SUBSET Nodes
    /\ todo \in [Builds -> SUBSET Holders]
    /\ ok \in [Builds -> BOOLEAN]
    /\ clock \in 1..MaxClock
    /\ claims \in [Builds -> 0..2]
    /\ risk \in SUBSET Builds
    /\ missed \in [Builds -> SUBSET Nodes]

Init ==
    /\ status = [b \in Builds |-> "none"]
    /\ pc = [b \in Builds |-> "none"]
    /\ slots = 0
    /\ at = [b \in Builds |-> NoNode]
    /\ vms = [n \in Nodes |-> {}]
    /\ created = [b \in Builds |-> 0]
    /\ holder = [n \in Nodes |-> NoBuild]
    /\ tagged = {}
    /\ todo = [b \in Builds |-> {}]
    /\ ok = [b \in Builds |-> TRUE]
    /\ clock = 1
    /\ claims = [b \in Builds |-> 0]
    /\ risk = {}
    /\ missed = [b \in Builds |-> {}]

\* The run goes on to its next call.
Goto(b, next) == pc' = [pc EXCEPT ![b] = next]

\* Mutated form of GiveUp: a failed build leaves its microVM to its lease.
GiveUpUnreleased(b) ==
    /\ Goto(b, "finish")
    /\ ok' = [ok EXCEPT ![b] = FALSE]

\* The run fails: the rest is skipped and the microVM released.
GiveUp(b) ==
    /\ Goto(b, "release")
    /\ ok' = [ok EXCEPT ![b] = FALSE]

-----------------------------------------------------------------------------
\* Mutated forms of the definitions below.

\* A failed build keeps its slot.
freeSlotOnSuccess(b) ==
    /\ pc[b] = "slot"
    /\ Goto(b, "none")
    /\ slots' = IF ok[b] THEN slots - 1 ELSE slots
    /\ UNCHANGED <<status, at, todo, ok, nodeVars, history>>

\* A holder is deleted whatever it holds by now.
DeleteTemplateAny(h) == holder[h.node] # NoBuild

\* A delete that fails is only logged.
deleteStaleBestEffort(b, h) ==
    /\ pc[b] = "delete"
    /\ h \in todo[b]
    /\ todo' = [todo EXCEPT ![b] = @ \ {h}]
    /\ \/ /\ holder' = IF holder[h.node] = h.build THEN [holder EXCEPT ![h.node] = NoBuild]
                       ELSE holder
          /\ tagged' = IF holder[h.node] = h.build THEN tagged \ {h.node} ELSE tagged
       \/ UNCHANGED <<holder, tagged>>
    /\ UNCHANGED <<recordVars, pc, at, ok, vms, created, clock, history>>

-----------------------------------------------------------------------------
(* The executor's methods.                                                 *)

\* The records a sweep may remove: finished ones and waiting ones.
sweepable == {b \in Builds : status[b] \in {"waiting", "ready", "error"}}

Swept(gone) == [b \in Builds |-> IF b \in gone THEN "none" ELSE status[b]]

Register(b) ==
    /\ status[b] = "none" /\ pc[b] = "none" /\ claims[b] = 0 /\ ok[b]
    /\ \E gone \in SUBSET sweepable :
          status' = [Swept(gone) EXCEPT ![b] = "waiting"]
    /\ UNCHANGED <<slots, runVars, nodeVars, history>>

\* Status sweeps too.
Status ==
    /\ \E gone \in (SUBSET sweepable) \ {{}} : status' = Swept(gone)
    /\ UNCHANGED <<slots, runVars, nodeVars, history>>

\* A start takes a slot or is refused as busy; a build that is not waiting is
\* left alone.
Start(b) ==
    /\ status[b] = "waiting"
    /\ slots < Parallel
    /\ slots' = slots + 1
    /\ status' = [status EXCEPT ![b] = "building"]
    /\ Goto(b, "claim")
    /\ UNCHANGED <<at, todo, ok, nodeVars, history>>

-----------------------------------------------------------------------------
(* run, one call to a node at a time.                                      *)

\* store.Claim delivers, delivers nothing, or delivers without the run knowing.
claim(b) ==
    /\ pc[b] = "claim"
    /\ \/ \E n \in Nodes :
            /\ at' = [at EXCEPT ![b] = n]
            /\ vms' = [vms EXCEPT ![n] = @ \cup {b}]
            /\ claims' = [claims EXCEPT ![b] = @ + 1]
            /\ Goto(b, "prepare")
            /\ UNCHANGED <<ok, risk>>
       \/ /\ Goto(b, "finish")
          /\ ok' = [ok EXCEPT ![b] = FALSE]
          /\ UNCHANGED <<at, vms, claims, risk>>
       \/ \E n \in Nodes :
            /\ Goto(b, "finish")
            /\ ok' = [ok EXCEPT ![b] = FALSE]
            /\ vms' = [vms EXCEPT ![n] = @ \cup {b}]
            /\ claims' = [claims EXCEPT ![b] = @ + 1]
            /\ risk' = risk \cup {b}
            /\ UNCHANGED at
    /\ UNCHANGED <<recordVars, todo, created, holder, tagged, clock, missed>>

\* The steps, envd's defaults, the start and the ready command; the build's
\* timeout bounds them.
prepare(b) ==
    /\ pc[b] = "prepare"
    /\ \/ Goto(b, "promote") /\ UNCHANGED ok
       \/ GiveUp(b)
    /\ UNCHANGED <<recordVars, at, todo, nodeVars, history>>

\* Promote replaces the node's record, labels and all, stamped with that
\* node's clock; its answer may be lost.
promote(b) ==
    /\ pc[b] = "promote"
    /\ \/ /\ holder' = [holder EXCEPT ![at[b]] = b]
          /\ tagged' = tagged \ {at[b]}
          /\ created' = [created EXCEPT ![b] = clock + Ahead[at[b]]]
          /\ \/ Goto(b, "list") /\ UNCHANGED ok
             \/ GiveUp(b)
       \/ GiveUp(b) /\ UNCHANGED <<holder, tagged, created>>
    /\ UNCHANGED <<recordVars, at, todo, vms, clock, history>>

\* The holders on the listed nodes with a stamp before this build's.
stale(b, listed) ==
    {h \in Holders : /\ h.node \in listed
                     /\ holder[h.node] = h.build
                     /\ created[h.build] < created[b]}

\* publishBuild lists the holders on the nodes that Inventory.ListNodes knows;
\* a silent node, its own node unlisted, or its own record replaced or gone,
\* fails it.
liveHolders(b) ==
    /\ pc[b] = "list"
    /\ \/ \E listed \in SUBSET Nodes :
            /\ at[b] \in listed /\ holder[at[b]] = b
            /\ todo' = [todo EXCEPT ![b] = stale(b, listed)]
            /\ missed' = [missed EXCEPT ![b] = {h.node : h \in stale(b, Nodes \ listed)}]
            /\ Goto(b, "delete")
            /\ UNCHANGED ok
       \/ GiveUp(b) /\ UNCHANGED <<todo, missed>>
    /\ UNCHANGED <<recordVars, at, nodeVars, claims, risk>>

\* DeleteTemplate by digest: a record that is gone or was replaced is kept.
DeleteTemplate(h) == holder[h.node] = h.build

\* The deletes run side by side; one that fails fails the publish once all
\* have ended.
deleteStale(b, h) ==
    /\ pc[b] = "delete"
    /\ h \in todo[b]
    /\ todo' = [todo EXCEPT ![b] = @ \ {h}]
    /\ \/ /\ holder' = IF DeleteTemplate(h) THEN [holder EXCEPT ![h.node] = NoBuild]
                       ELSE holder
          /\ tagged' = IF DeleteTemplate(h) THEN tagged \ {h.node} ELSE tagged
          /\ UNCHANGED ok
       \/ /\ ok' = [ok EXCEPT ![b] = FALSE]
          /\ UNCHANGED <<holder, tagged>>
    /\ UNCHANGED <<recordVars, pc, at, vms, created, clock, history>>

deletesDone(b) ==
    /\ pc[b] = "delete"
    /\ todo[b] = {}
    /\ Goto(b, IF ok[b] THEN "label" ELSE "release")
    /\ UNCHANGED <<recordVars, at, todo, ok, nodeVars, history>>

\* SetTemplateLabels by digest, when tags were asked for.
label(b) ==
    /\ pc[b] = "label"
    /\ \/ Goto(b, "release") /\ UNCHANGED <<ok, tagged>>
       \/ /\ holder[at[b]] = b
          /\ tagged' = tagged \cup {at[b]}
          /\ Goto(b, "release")
          /\ UNCHANGED ok
       \/ GiveUp(b) /\ UNCHANGED tagged
    /\ UNCHANGED <<recordVars, at, todo, vms, created, holder, clock, history>>

\* release outlives the build's timeout; a failed one is only logged.
release(b) ==
    /\ pc[b] = "release"
    /\ Goto(b, "finish")
    /\ \/ vms' = [vms EXCEPT ![at[b]] = @ \ {b}] /\ UNCHANGED risk
       \/ risk' = risk \cup {b} /\ UNCHANGED vms
    /\ UNCHANGED <<recordVars, at, todo, ok, created, holder, tagged, clock, claims, missed>>

\* finish records the outcome, if the record is still there.
finish(b) ==
    /\ pc[b] = "finish"
    /\ Goto(b, "slot")
    /\ status' = IF status[b] = "none" THEN status
                 ELSE [status EXCEPT ![b] = IF ok[b] THEN "ready" ELSE "error"]
    /\ UNCHANGED <<slots, at, todo, ok, nodeVars, history>>

freeSlot(b) ==
    /\ pc[b] = "slot"
    /\ Goto(b, "none")
    /\ slots' = slots - 1
    /\ UNCHANGED <<status, at, todo, ok, nodeVars, history>>

\* The process restarts: its records and runs are gone, the nodes keep what
\* they hold.
Restart ==
    /\ status' = [b \in Builds |-> "none"]
    /\ slots' = 0
    /\ pc' = [b \in Builds |-> "none"]
    /\ at' = [b \in Builds |-> NoNode]
    /\ todo' = [b \in Builds |-> {}]
    /\ ok' = [b \in Builds |-> TRUE]
    /\ risk' = risk \cup {b \in Builds : claims[b] > 0}
    /\ missed' = [b \in Builds |-> {}]
    /\ UNCHANGED <<nodeVars, claims>>

Tick ==
    /\ clock < MaxClock
    /\ clock' = clock + 1
    /\ UNCHANGED <<recordVars, runVars, vms, created, holder, tagged, history>>

run(b) ==
    \/ claim(b) \/ prepare(b) \/ promote(b) \/ liveHolders(b)
    \/ \E h \in todo[b] : deleteStale(b, h)
    \/ deletesDone(b) \/ label(b) \/ release(b) \/ finish(b) \/ freeSlot(b)

\* What the build endpoints call; a request they refuse changes nothing here.
Served == (\E b \in Builds : Register(b) \/ Start(b)) \/ Status

Next ==
    \/ Served
    \/ \E b \in Builds : run(b)
    \/ Tick
    \/ Restart

Spec == Init /\ [][Next]_vars

-----------------------------------------------------------------------------
Running == {b \in Builds : pc[b] # "none"}

\* A slot is taken exactly by each run, whatever fails, so slots neither leak
\* nor let more than Parallel builds run; and the record of a running build is
\* not swept from under it, so a poll never sees a build vanish while it runs
\* and its outcome is recorded.
RunningIsRecorded ==
    /\ TypeOK
    /\ slots = Cardinality(Running) /\ slots <= Parallel
    /\ \A b \in Builds : pc[b] \notin {"none", "slot"} => status[b] = "building"

\* One build costs one microVM, retried starts included, and once over it
\* holds none, however it failed, unless its claim or its release went
\* unanswered.
FinishedHoldsNothing ==
    /\ \A b \in Builds : claims[b] <= 1
    /\ \A b \in Builds \ risk : status[b] \in {"ready", "error"} =>
           \A n \in Nodes : b \notin vms[n]

\* Concurrent publishes never delete the promote with the newest stamp
\* (publishBuild: "so concurrent builds converge on the newest"): once any
\* build is promoted, some node holds one that no stamp is newer than, however
\* the nodes' clocks differ.
NewestSurvives ==
    (\E b \in Builds : created[b] > 0) =>
        \E n \in Nodes : /\ holder[n] # NoBuild
                         /\ \A b \in Builds : created[b] <= created[holder[n]]

\* The instant of a build's promote on a node, by that node's stamp.
PromotedAt(b, n) == created[b] - Ahead[n]

\* docs/e2b-compat.md:219: "a rebuild replaces the previous build".  While a
\* build is ready, no node holds a build promoted more than the clocks' skew
\* before it, whatever other builds do meanwhile, except a node that held an
\* older one and that the inventory did not list to its publish.  Within the
\* skew an older one may stay: its node's clock stamped it later.
ReadyReplacesOlder ==
    \A b \in Builds : status[b] = "ready" =>
        \A n \in Nodes \ missed[b] : holder[n] # NoBuild =>
            PromotedAt(holder[n], n) + MaxSkew >= PromotedAt(b, at[b])
=============================================================================
