------------------------ MODULE BuildExecutorProofs ------------------------
(***************************************************************************)
(* Proofs about BuildExecutor, for any builds, nodes, slots and clocks: a  *)
(* slot per run and a record per running build, one microVM per build, the *)
(* newest stamp survives concurrent publishes and a ready build has        *)
(* replaced the older ones it was shown.                                   *)
(*                                                                         *)
(* Each property needs what it does not say itself: which calls a run has  *)
(* behind it, that a build is promoted once, that what a publish set out   *)
(* to delete is older than itself for good, and that until it has deleted  *)
(* an older holder it was shown it still means to.  With clocks that       *)
(* differ, "older" has two sides: a record that comes later may be stamped *)
(* earlier, so what a publish has cleared away is the records that are     *)
(* older both by stamp and in time.                                        *)
(***************************************************************************)
EXTENDS BuildExecutor, FiniteSetTheorems, TLAPS

\* The calls between a claim that delivered and its release.
Holding == {"prepare", "promote", "list", "delete", "label", "release"}

\* A slot is taken exactly by each run.
SlotsAreRuns == IsFiniteSet(Running) /\ slots = Cardinality(Running)

\* A record and its run agree.
Recorded(b) ==
    /\ pc[b] \notin {"none", "slot"} => status[b] = "building"
    /\ pc[b] = "slot" => status[b] \in {"none", "ready", "error"}
    /\ status[b] = "waiting" => claims[b] = 0

\* A build claims once, and what it claimed is known to be on its node while
\* it runs, unless an answer was lost.
Costs(b) ==
    /\ claims[b] <= 1
    /\ pc[b] = "claim" => claims[b] = 0
    /\ pc[b] \in Holding => claims[b] = 1 /\ at[b] \in Nodes
    /\ \A n \in Nodes : b \in vms[n] =>
           claims[b] = 1 /\ (b \notin risk => pc[b] \in Holding /\ at[b] = n)

\* A build is promoted at most once, at an instant its node's clock has reached.
Fresh(b) == claims[b] = 0 \/ pc[b] \in {"prepare", "promote"} => created[b] = 0

Stamped(b) ==
    /\ at[b] \in Nodes => created[b] <= clock + Ahead[at[b]]
    /\ Fresh(b)

\* Nodes hold promoted builds, stamped at an instant their clock has reached,
\* and a publish deletes older promoted ones.
Promoted ==
    \A n \in Nodes : holder[n] # NoBuild =>
        created[holder[n]] > 0 /\ created[holder[n]] <= clock + Ahead[n]

TodoIsOlder(b) == \A h \in todo[b] : created[h.build] > 0 /\ created[h.build] < created[b]

\* What a node holds is older than a build, by the stamps and in time.
Older(b, n) ==
    /\ holder[n] # NoBuild
    /\ created[holder[n]] < created[b]
    /\ PromotedAt(holder[n], n) < PromotedAt(b, at[b])

NoneOlder(b) == at[b] \in Nodes /\ \A n \in Nodes \ missed[b] : ~Older(b, n)

\* A publish that has not failed is still to delete every older holder it was
\* shown, and once it has gone on, and for good, there is none.
Replaces(b) ==
    /\ pc[b] = "delete" /\ ok[b] =>
           \A n \in Nodes \ missed[b] : Older(b, n) => [node |-> n, build |-> holder[n]] \in todo[b]
    /\ status[b] = "ready" \/ (pc[b] \in {"label", "release", "finish"} /\ ok[b]) => NoneOlder(b)

BuildInv ==
    /\ TypeOK
    /\ SlotsAreRuns
    /\ \A b \in Builds : Recorded(b) /\ Costs(b) /\ Stamped(b) /\ TodoIsOlder(b) /\ Replaces(b)
    /\ Promoted
    /\ NewestSurvives

-----------------------------------------------------------------------------
(* One lemma per part of the invariant, one step per action that can       *)
(* disturb it.                                                             *)

PcAndOkType ==
    /\ pc \in [Builds -> {"none", "claim", "prepare", "promote", "list", "delete",
                          "label", "release", "finish", "slot"}]
    /\ ok \in [Builds -> BOOLEAN]

LEMMA SweptType ==
    ASSUME TypeOK, NEW gone \in SUBSET sweepable
    PROVE  /\ Swept(gone) \in [Builds -> {"none", "waiting", "building", "ready", "error"}]
           /\ \A b \in Builds : /\ Swept(gone)[b] \in {status[b], "none"}
                                /\ status[b] = "building" => Swept(gone)[b] = "building"
BY DEF TypeOK, Swept, sweepable

LEMMA KeepsType ==
    ASSUME BuildInv, [Next]_vars
    PROVE  TypeOK'
<1> USE DEF BuildInv, TypeOK, nodeVars, runVars, recordVars, history
<1>1. ASSUME NEW b \in Builds, Register(b) PROVE TypeOK'
  BY <1>1, SweptType DEF Register
<1>2. CASE Status
  BY <1>2, SweptType DEF Status
<1>3. ASSUME NEW b \in Builds, Start(b) PROVE TypeOK'
  BY <1>3, ParallelAssumption DEF Start, Goto
<1>4. ASSUME NEW b \in Builds, claim(b) PROVE TypeOK'
  <2>1. claims[b] = 0
    BY <1>4 DEF claim, Costs
  <2>2. \/ Goto(b, "prepare") /\ UNCHANGED ok
        \/ Goto(b, "finish") /\ ok' = [ok EXCEPT ![b] = FALSE]
    BY <1>4 DEF claim
  <2>3. PcAndOkType'
    BY <2>2 DEF Goto, PcAndOkType
  <2>4. claims' \in [Builds -> 0..2]
    BY <1>4, <2>1 DEF claim
  <2>5. vms' \in [Nodes -> SUBSET Builds] /\ at' \in [Builds -> Nodes \cup {NoNode}]
        /\ risk' \in SUBSET Builds
    BY <1>4 DEF claim
  <2> QED
    BY <1>4, <2>3, <2>4, <2>5 DEF claim, PcAndOkType
<1>5. ASSUME NEW b \in Builds, prepare(b) PROVE TypeOK'
  <2>1. PcAndOkType'
    BY <1>5 DEF prepare, Goto, GiveUp, PcAndOkType
  <2> QED
    BY <1>5, <2>1 DEF prepare, PcAndOkType
<1>6. ASSUME NEW b \in Builds, promote(b) PROVE TypeOK'
  <2>1. PcAndOkType'
    <3>1. (Goto(b, "list") /\ UNCHANGED ok) \/ GiveUp(b)
      BY <1>6 DEF promote
    <3> QED
      BY <3>1 DEF Goto, GiveUp, PcAndOkType
  <2>2. holder' \in [Nodes -> Builds \cup {NoBuild}] /\ tagged' \in SUBSET Nodes
    BY <1>6 DEF promote
  <2>3. at[b] \in Nodes
    BY <1>6 DEF promote, Costs, Holding
  <2>4. clock + Ahead[at[b]] \in 0..(MaxClock + MaxSkew)
    BY <2>3, MaxClockAssumption, SkewAssumption
  <2>5. created' \in [Builds -> 0..(MaxClock + MaxSkew)]
    BY <1>6, <2>4 DEF promote
  <2> QED
    BY <1>6, <2>1, <2>2, <2>5 DEF promote, PcAndOkType
<1>7. ASSUME NEW b \in Builds, liveHolders(b) PROVE TypeOK'
  <2>1. (Goto(b, "delete") /\ UNCHANGED ok) \/ GiveUp(b)
    BY <1>7 DEF liveHolders
  <2>2. PcAndOkType'
    BY <2>1 DEF Goto, GiveUp, PcAndOkType
  <2>3. todo' \in [Builds -> SUBSET Holders] /\ missed' \in [Builds -> SUBSET Nodes]
    BY <1>7 DEF liveHolders, stale, Holders
  <2> QED
    BY <1>7, <2>2, <2>3 DEF liveHolders, PcAndOkType
<1>8. ASSUME NEW b \in Builds, NEW h \in todo[b], deleteStale(b, h) PROVE TypeOK'
  BY <1>8 DEF deleteStale, DeleteTemplate
<1>9. ASSUME NEW b \in Builds, deletesDone(b) PROVE TypeOK'
  BY <1>9 DEF deletesDone, Goto
<1>10. ASSUME NEW b \in Builds, label(b) PROVE TypeOK'
  <2>1. at[b] \in Nodes
    BY <1>10 DEF label, Costs, Holding
  <2> QED
    BY <1>10, <2>1 DEF label, Goto, GiveUp
<1>11. ASSUME NEW b \in Builds, release(b) PROVE TypeOK'
  BY <1>11 DEF release, Goto
<1>12. ASSUME NEW b \in Builds, finish(b) PROVE TypeOK'
  BY <1>12 DEF finish, Goto
<1>13. ASSUME NEW b \in Builds, freeSlot(b) PROVE TypeOK'
  <2>1. b \in Running
    BY <1>13 DEF freeSlot, Running
  <2>2. slots # 0
    BY <2>1, FS_EmptySet DEF SlotsAreRuns
  <2> QED
    BY <1>13, <2>2, ParallelAssumption DEF freeSlot, Goto
<1>14. CASE Tick
  BY <1>14, MaxClockAssumption DEF Tick
<1>15. CASE Restart
  BY <1>15, ParallelAssumption DEF Restart
<1>16. CASE UNCHANGED vars
  BY <1>16 DEF vars
<1> QED
  BY <1>1, <1>2, <1>3, <1>4, <1>5, <1>6, <1>7, <1>8, <1>9, <1>10, <1>11, <1>12, <1>13, <1>14,
     <1>15, <1>16 DEF Next, Served, run

\* Only Start adds a run, and only freeSlot and a restart end one: the calls in
\* between move a run from one call to the next.
LEMMA KeepsSlots ==
    ASSUME BuildInv, [Next]_vars
    PROVE  SlotsAreRuns'
<1> USE DEF BuildInv, TypeOK
<1>1. ASSUME NEW b \in Builds, Start(b) PROVE SlotsAreRuns'
  <2>1. b \notin Running /\ Running' = Running \cup {b} /\ slots' = slots + 1
    BY <1>1 DEF Start, Goto, Running, Recorded
  <2> QED
    BY <2>1, FS_AddElement DEF SlotsAreRuns
<1>2. ASSUME NEW b \in Builds, freeSlot(b) PROVE SlotsAreRuns'
  <2>1. b \in Running /\ Running' = Running \ {b} /\ slots' = slots - 1
    BY <1>2 DEF freeSlot, Goto, Running
  <2> QED
    BY <2>1, FS_RemoveElement DEF SlotsAreRuns
<1>3. CASE Restart
  <2>1. Running' = {} /\ slots' = 0
    BY <1>3 DEF Restart, Running
  <2> QED
    BY <2>1, FS_EmptySet DEF SlotsAreRuns
<1>4. CASE Running' = Running /\ slots' = slots
  BY <1>4 DEF SlotsAreRuns
<1>5. ASSUME NEW b \in Builds, Register(b) PROVE Running' = Running /\ slots' = slots
  BY <1>5 DEF Register, runVars, Running
<1>6. ASSUME NEW b \in Builds, NEW next, next # "none", pc[b] # "none",
             Goto(b, next), UNCHANGED slots
      PROVE  Running' = Running /\ slots' = slots
  BY <1>6 DEF Goto, Running
<1>7. ASSUME NEW b \in Builds,
             claim(b) \/ prepare(b) \/ promote(b) \/ liveHolders(b) \/ deletesDone(b) \/ label(b)
               \/ release(b) \/ finish(b)
      PROVE  Running' = Running /\ slots' = slots
  <2>1. UNCHANGED slots /\ pc[b] # "none"
    BY <1>7 DEF claim, prepare, promote, liveHolders, deletesDone, label, release, finish,
       recordVars
  <2>2. PICK next \in {"prepare", "finish", "promote", "release", "list", "delete", "label", "slot"} :
            Goto(b, next)
    BY <1>7 DEF claim, prepare, promote, liveHolders, deletesDone, label, release, finish, GiveUp
  <2> QED
    BY <1>6, <2>1, <2>2
<1>8. ASSUME NEW b \in Builds, NEW h \in todo[b], deleteStale(b, h)
      PROVE  Running' = Running /\ slots' = slots
  BY <1>8 DEF deleteStale, recordVars, Running
<1>9. CASE Status \/ Tick \/ UNCHANGED vars
  BY <1>9 DEF Status, Tick, vars, recordVars, runVars, Running, SlotsAreRuns
<1> QED
  BY <1>1, <1>2, <1>3, <1>4, <1>5, <1>7, <1>8, <1>9 DEF Next, Served, run

LEMMA KeepsRecords ==
    ASSUME BuildInv, [Next]_vars, NEW c \in Builds
    PROVE  Recorded(c)'
<1> USE DEF BuildInv, TypeOK, nodeVars, runVars, recordVars, history
<1>0. Recorded(c) /\ Costs(c)
  OBVIOUS
<1>1. ASSUME NEW b \in Builds, Register(b) PROVE Recorded(c)'
  BY <1>0, <1>1, SweptType DEF Register, Recorded
<1>2. CASE Status
  BY <1>0, <1>2, SweptType DEF Status, Recorded
<1>3. ASSUME NEW b \in Builds, Start(b) PROVE Recorded(c)'
  BY <1>0, <1>3 DEF Start, Goto, Recorded
<1>4. ASSUME NEW b \in Builds, claim(b) PROVE Recorded(c)'
  BY <1>0, <1>4 DEF claim, Goto, Recorded
<1>5. ASSUME NEW b \in Builds,
             prepare(b) \/ promote(b) \/ liveHolders(b) \/ deletesDone(b) \/ label(b) \/ release(b)
      PROVE  Recorded(c)'
  <2>1. UNCHANGED <<status, claims>> /\ pc[b] \in Holding
    BY <1>5 DEF prepare, promote, liveHolders, deletesDone, label, release, Holding
  <2>2. PICK next \in {"finish", "promote", "release", "list", "delete", "label"} : Goto(b, next)
    BY <1>5 DEF prepare, promote, liveHolders, deletesDone, label, release, GiveUp
  <2> QED
    BY <1>0, <2>1, <2>2 DEF Goto, Recorded, Holding
<1>6. ASSUME NEW b \in Builds, NEW h \in todo[b], deleteStale(b, h) PROVE Recorded(c)'
  BY <1>0, <1>6 DEF deleteStale, Recorded
<1>7. ASSUME NEW b \in Builds, finish(b) PROVE Recorded(c)'
  BY <1>0, <1>7 DEF finish, Goto, Recorded
<1>8. ASSUME NEW b \in Builds, freeSlot(b) PROVE Recorded(c)'
  BY <1>0, <1>8 DEF freeSlot, Goto, Recorded
<1>9. CASE Restart
  BY <1>9 DEF Restart, Recorded
<1>10. CASE Tick \/ UNCHANGED vars
  BY <1>0, <1>10 DEF Tick, vars, Recorded
<1> QED
  BY <1>1, <1>2, <1>3, <1>4, <1>5, <1>6, <1>7, <1>8, <1>9, <1>10 DEF Next, Served, run

LEMMA KeepsCosts ==
    ASSUME BuildInv, [Next]_vars, NEW c \in Builds
    PROVE  Costs(c)'
<1> USE DEF BuildInv, TypeOK, nodeVars, runVars, recordVars, history
<1>0. Recorded(c) /\ Costs(c)
  OBVIOUS
<1>1. ASSUME NEW b \in Builds, Start(b) PROVE Costs(c)'
  BY <1>0, <1>1 DEF Start, Goto, Recorded, Costs, Holding
<1>2. ASSUME NEW b \in Builds, claim(b) PROVE Costs(c)'
  <2>1. CASE c # b
    <3>1. /\ claims'[c] = claims[c] /\ pc'[c] = pc[c] /\ at'[c] = at[c]
          /\ c \in risk' <=> c \in risk
          /\ \A n \in Nodes : c \in vms'[n] <=> c \in vms[n]
      BY <1>2, <2>1 DEF claim, Goto
    <3> QED
      BY <1>0, <3>1 DEF Costs
  <2>2. CASE c = b
    <3>1. claims[c] = 0 /\ \A n \in Nodes : c \notin vms[n]
      BY <1>0, <1>2, <2>2 DEF Costs, claim
    <3>2. CASE \E n \in Nodes :
                  /\ at' = [at EXCEPT ![b] = n] /\ vms' = [vms EXCEPT ![n] = @ \cup {b}]
                  /\ claims' = [claims EXCEPT ![b] = @ + 1] /\ Goto(b, "prepare")
      BY <2>2, <3>1, <3>2 DEF Goto, Costs, Holding
    <3>3. CASE Goto(b, "finish") /\ UNCHANGED <<at, vms, claims, risk>>
      BY <2>2, <3>1, <3>3 DEF Goto, Costs, Holding
    <3>4. CASE \E n \in Nodes :
                  /\ Goto(b, "finish") /\ vms' = [vms EXCEPT ![n] = @ \cup {b}]
                  /\ claims' = [claims EXCEPT ![b] = @ + 1] /\ risk' = risk \cup {b}
      BY <2>2, <3>1, <3>4 DEF Goto, Costs, Holding
    <3> QED
      BY <1>2, <3>2, <3>3, <3>4 DEF claim
  <2> QED
    BY <2>1, <2>2
<1>3. ASSUME NEW b \in Builds,
             prepare(b) \/ promote(b) \/ liveHolders(b) \/ deletesDone(b) \/ label(b)
      PROVE  Costs(c)'
  <2>1. UNCHANGED <<claims, at, vms, risk>> /\ pc[b] \in Holding
    BY <1>3 DEF prepare, promote, liveHolders, deletesDone, label, Holding
  <2>2. PICK next \in {"promote", "release", "list", "delete", "label"} : Goto(b, next)
    BY <1>3 DEF prepare, promote, liveHolders, deletesDone, label, GiveUp
  <2> QED
    BY <1>0, <2>1, <2>2 DEF Goto, Costs, Holding
<1>4. ASSUME NEW b \in Builds, release(b) PROVE Costs(c)'
  <2>1. pc[b] = "release" /\ pc' = [pc EXCEPT ![b] = "finish"] /\ UNCHANGED <<at, claims>>
    BY <1>4 DEF release, Goto
  <2>2. CASE vms' = [vms EXCEPT ![at[b]] = @ \ {b}] /\ UNCHANGED risk
    BY <1>0, <2>1, <2>2 DEF Costs, Holding
  <2>3. CASE risk' = risk \cup {b} /\ UNCHANGED vms
    BY <1>0, <2>1, <2>3 DEF Costs, Holding
  <2> QED
    BY <1>4, <2>2, <2>3 DEF release
<1>5. ASSUME NEW b \in Builds, finish(b) \/ freeSlot(b) PROVE Costs(c)'
  BY <1>0, <1>5 DEF finish, freeSlot, Goto, Costs, Holding
<1>6. CASE Restart
  BY <1>0, <1>6 DEF Restart, Costs, Holding
<1>7. ASSUME NEW b \in Builds, NEW h \in todo[b], deleteStale(b, h) PROVE Costs(c)'
  BY <1>0, <1>7 DEF deleteStale, Costs
<1>8. ASSUME NEW b \in Builds, Register(b) PROVE Costs(c)'
  BY <1>0, <1>8 DEF Register, Costs
<1>9. CASE Status \/ Tick \/ UNCHANGED vars
  BY <1>0, <1>9 DEF Status, Tick, vars, Costs
<1> QED
  BY <1>1, <1>2, <1>3, <1>4, <1>5, <1>6, <1>7, <1>8, <1>9 DEF Next, Served, run

\* A stamp is set by the build's one promote, to what its node's clock shows,
\* and never changes again.
LEMMA StampsGrow ==
    ASSUME BuildInv, [Next]_vars
    PROVE  /\ clock <= clock'
           /\ \A c \in Builds :
                \/ created'[c] = created[c]
                \/ created[c] = 0 /\ at[c] \in Nodes /\ at' = at /\ created'[c] = clock + Ahead[at[c]]
<1> USE DEF BuildInv, TypeOK, nodeVars, runVars, recordVars, history
<1>1. ASSUME NEW b \in Builds, promote(b)
      PROVE  /\ UNCHANGED clock
             /\ \A c \in Builds :
                  \/ created'[c] = created[c]
                  \/ created[c] = 0 /\ at[c] \in Nodes /\ at' = at /\ created'[c] = clock + Ahead[at[c]]
  <2>1. created[b] = 0 /\ at[b] \in Nodes
    BY <1>1 DEF promote, Stamped, Fresh, Costs, Holding
  <2> QED
    BY <1>1, <2>1 DEF promote
<1>2. CASE Tick
  BY <1>2 DEF Tick
<1>3. ASSUME NEW b \in Builds,
             \/ Register(b) \/ Start(b) \/ claim(b) \/ prepare(b) \/ liveHolders(b)
             \/ \E h \in todo[b] : deleteStale(b, h)
             \/ deletesDone(b) \/ label(b) \/ release(b) \/ finish(b) \/ freeSlot(b)
      PROVE  UNCHANGED <<clock, created>>
  BY <1>3 DEF Register, Start, claim, prepare, liveHolders, deleteStale, deletesDone, label,
     release, finish, freeSlot
<1>4. CASE Status \/ Restart \/ UNCHANGED vars
  BY <1>4 DEF Status, Restart, vars
<1> QED
  BY <1>1, <1>2, <1>3, <1>4 DEF Next, Served, run

\* A run stays on the node that delivered its microVM, until the process ends.
LEMMA StaysPut ==
    ASSUME BuildInv, [Next]_vars, NEW c \in Builds
    PROVE  at'[c] = at[c] \/ at'[c] = NoNode \/ (claim(c) /\ created[c] = 0 /\ UNCHANGED created)
<1> USE DEF BuildInv, TypeOK, nodeVars, runVars, recordVars, history
<1>1. ASSUME NEW b \in Builds, claim(b)
      PROVE  at'[c] = at[c] \/ (claim(c) /\ created[c] = 0 /\ UNCHANGED created)
  BY <1>1 DEF claim, Costs, Stamped, Fresh
<1>2. ASSUME NEW b \in Builds,
             \/ Register(b) \/ Start(b) \/ prepare(b) \/ promote(b) \/ liveHolders(b)
             \/ \E h \in todo[b] : deleteStale(b, h)
             \/ deletesDone(b) \/ label(b) \/ release(b) \/ finish(b) \/ freeSlot(b)
      PROVE  UNCHANGED at
  BY <1>2 DEF Register, Start, prepare, promote, liveHolders, deleteStale, deletesDone, label,
     release, finish, freeSlot
<1>3. CASE Status \/ Tick \/ UNCHANGED vars
  BY <1>3 DEF Status, Tick, vars
<1>4. CASE Restart
  BY <1>4 DEF Restart
<1> QED
  BY <1>1, <1>2, <1>3, <1>4 DEF Next, Served, run

LEMMA KeepsStamps ==
    ASSUME BuildInv, [Next]_vars, NEW c \in Builds
    PROVE  Stamped(c)'
<1> USE DEF BuildInv, TypeOK, nodeVars, runVars, recordVars, history
<1>0. Recorded(c) /\ Costs(c) /\ Stamped(c)
  OBVIOUS
<1>1. at'[c] \in Nodes => created'[c] <= clock' + Ahead[at'[c]]
  <2> SUFFICES ASSUME at'[c] \in Nodes PROVE created'[c] <= clock' + Ahead[at'[c]]
    OBVIOUS
  <2>1. Ahead[at'[c]] \in Nat /\ clock \in Nat /\ clock' \in Nat /\ clock <= clock'
    BY StampsGrow, KeepsType, SkewAssumption
  <2>2. CASE created'[c] = created[c] /\ at'[c] = at[c]
    BY <1>0, <2>1, <2>2 DEF Stamped
  <2>3. CASE created'[c] = 0
    BY <2>1, <2>3
  <2>4. CASE at' = at /\ created'[c] = clock + Ahead[at[c]]
    BY <2>1, <2>4
  <2> QED
    BY <2>2, <2>3, <2>4, StampsGrow, StaysPut, NoNodeAssumption
<1> SUFFICES Fresh(c)'
  BY <1>1 DEF Stamped
<1>2. ASSUME NEW b \in Builds, Start(b) PROVE Fresh(c)'
  BY <1>0, <1>2 DEF Start, Goto, Stamped, Fresh
<1>3. ASSUME NEW b \in Builds, claim(b) PROVE Fresh(c)'
  BY <1>0, <1>3 DEF claim, Goto, Stamped, Fresh, Costs
<1>4. ASSUME NEW b \in Builds, prepare(b) PROVE Fresh(c)'
  BY <1>0, <1>4 DEF prepare, Goto, GiveUp, Stamped, Fresh
<1>5. ASSUME NEW b \in Builds, promote(b) PROVE Fresh(c)'
  <2>1. claims[b] = 1 /\ UNCHANGED claims
    BY <1>5 DEF promote, Costs, Holding
  <2>2. pc'[b] \notin {"prepare", "promote"} /\ \A d \in Builds : d # b => pc'[d] = pc[d] /\ created'[d] = created[d]
    BY <1>5 DEF promote, Goto, GiveUp
  <2> QED
    BY <1>0, <1>1, <2>1, <2>2 DEF Stamped, Fresh
<1>6. ASSUME NEW b \in Builds,
             liveHolders(b) \/ deletesDone(b) \/ label(b) \/ release(b) \/ finish(b) \/ freeSlot(b)
      PROVE  Fresh(c)'
  <2>1. UNCHANGED <<claims, clock, created>>
    BY <1>6 DEF liveHolders, deletesDone, label, release, finish, freeSlot
  <2>2. PICK next \in {"delete", "label", "release", "finish", "slot", "none"} : Goto(b, next)
    BY <1>6 DEF liveHolders, deletesDone, label, release, finish, freeSlot, GiveUp
  <2> QED
    BY <1>0, <2>1, <2>2 DEF Goto, Stamped, Fresh
<1>7. CASE Restart
  BY <1>0, <1>7 DEF Restart, Stamped, Fresh
<1>8. ASSUME NEW b \in Builds, NEW h \in todo[b], deleteStale(b, h) PROVE Fresh(c)'
  BY <1>0, <1>8 DEF deleteStale, Stamped, Fresh
<1>9. ASSUME NEW b \in Builds, Register(b) PROVE Fresh(c)'
  BY <1>0, <1>9 DEF Register, Stamped, Fresh
<1>10. CASE Status \/ Tick \/ UNCHANGED vars
  BY <1>0, <1>10 DEF Status, Tick, vars, Stamped, Fresh
<1> QED
  BY <1>2, <1>3, <1>4, <1>5, <1>6, <1>7, <1>8, <1>9, <1>10 DEF Next, Served, run

\* What a step does to the nodes' records: one is replaced by a promote, or
\* some that a publish set out to delete are gone.
Promotes(b) ==
    /\ at[b] \in Nodes
    /\ created[b] = 0
    /\ holder' = [holder EXCEPT ![at[b]] = b]
    /\ created' = [created EXCEPT ![b] = clock + Ahead[at[b]]]
    /\ UNCHANGED <<at, clock, missed>>

OnlyDeletes ==
    /\ UNCHANGED created
    /\ clock' \in Nat /\ clock <= clock'
    /\ \A n \in Nodes :
           \/ holder'[n] = holder[n]
           \/ holder'[n] = NoBuild /\ \E c \in Builds : [node |-> n, build |-> holder[n]] \in todo[c]

LEMMA HoldersMove ==
    ASSUME BuildInv, [Next]_vars
    PROVE  OnlyDeletes \/ \E b \in Builds : Promotes(b) /\ promote(b)
<1> USE DEF BuildInv, TypeOK, nodeVars, runVars, recordVars, history
<1>0. clock' \in Nat /\ clock <= clock'
  BY StampsGrow, KeepsType
<1>1. ASSUME NEW b \in Builds, promote(b)
      PROVE  OnlyDeletes \/ Promotes(b)
  <2>1. at[b] \in Nodes /\ created[b] = 0
    BY <1>1 DEF promote, Costs, Holding, Stamped, Fresh
  <2> QED
    BY <1>0, <1>1, <2>1 DEF promote, Promotes, OnlyDeletes
<1>2. ASSUME NEW b \in Builds, NEW h \in todo[b], deleteStale(b, h) PROVE OnlyDeletes
  <2>1. h \in Holders /\ h = [node |-> h.node, build |-> h.build] /\ h.node \in Nodes
    BY DEF Holders
  <2>2. UNCHANGED created
    BY <1>2 DEF deleteStale
  <2>3. holder' = holder \/ (holder[h.node] = h.build /\ holder' = [holder EXCEPT ![h.node] = NoBuild])
    BY <1>2 DEF deleteStale, DeleteTemplate
  <2> QED
    BY <1>0, <2>1, <2>2, <2>3 DEF OnlyDeletes
<1>3. ASSUME NEW b \in Builds,
             \/ Register(b) \/ Start(b) \/ claim(b) \/ prepare(b) \/ liveHolders(b)
             \/ deletesDone(b) \/ label(b) \/ release(b) \/ finish(b) \/ freeSlot(b)
      PROVE  UNCHANGED <<holder, created>>
  BY <1>3 DEF Register, Start, claim, prepare, liveHolders, deletesDone, label, release, finish,
     freeSlot
<1>4. CASE Status \/ Restart \/ Tick \/ UNCHANGED vars
  BY <1>0, <1>4 DEF Status, Restart, Tick, vars, OnlyDeletes
<1>5. UNCHANGED <<holder, created>> => OnlyDeletes
  BY <1>0 DEF OnlyDeletes
<1> QED
  BY <1>1, <1>2, <1>3, <1>4, <1>5 DEF Next, Served, run

LEMMA KeepsPromoted ==
    ASSUME BuildInv, [Next]_vars
    PROVE  Promoted'
<1> USE DEF BuildInv, TypeOK
<1>0. \A n \in Nodes : Ahead[n] \in Nat
  BY SkewAssumption
<1>1. CASE OnlyDeletes
  <2> SUFFICES ASSUME NEW n \in Nodes, holder'[n] # NoBuild
               PROVE  created'[holder'[n]] > 0 /\ created'[holder'[n]] <= clock' + Ahead[n]
    BY DEF Promoted
  <2>1. holder'[n] = holder[n] /\ UNCHANGED created /\ clock' \in Nat /\ clock <= clock'
    BY <1>1 DEF OnlyDeletes
  <2>2. created[holder[n]] > 0 /\ created[holder[n]] <= clock + Ahead[n] /\ created[holder[n]] \in Nat
    BY <2>1 DEF Promoted
  <2> QED
    BY <1>0, <2>1, <2>2
<1>2. ASSUME NEW b \in Builds, Promotes(b) PROVE Promoted'
  <2>1. /\ at[b] \in Nodes /\ UNCHANGED clock
        /\ created'[b] = clock + Ahead[at[b]] /\ created'[b] > 0
        /\ \A d \in Builds : d # b => created'[d] = created[d]
    BY <1>0, <1>2, MaxClockAssumption DEF Promotes
  <2>2. ASSUME NEW n \in Nodes, holder'[n] # NoBuild
        PROVE  created'[holder'[n]] > 0 /\ created'[holder'[n]] <= clock' + Ahead[n]
    <3>1. CASE n = at[b]
      BY <1>0, <1>2, <2>1, <3>1 DEF Promotes
    <3>2. CASE n # at[b]
      <4>1. holder'[n] = holder[n]
        BY <1>2, <3>2 DEF Promotes
      <4>2. holder[n] # b
        BY <1>2, <2>2, <4>1 DEF Promoted, Promotes
      <4> QED
        BY <2>1, <2>2, <4>1, <4>2 DEF Promoted
    <3> QED
      BY <3>1, <3>2
  <2> QED
    BY <2>2 DEF Promoted
<1> QED
  BY <1>1, <1>2, HoldersMove

LEMMA KeepsTodo ==
    ASSUME BuildInv, [Next]_vars, NEW c \in Builds
    PROVE  TodoIsOlder(c)'
<1> USE DEF BuildInv, TypeOK, nodeVars, runVars, recordVars, history
<1>0. /\ TodoIsOlder(c) /\ todo[c] \subseteq Holders
      /\ \A d \in Builds : created[d] > 0 => created'[d] = created[d]
      /\ \A d \in Builds : created[d] \in Nat
  BY StampsGrow
<1>1. CASE todo'[c] \subseteq todo[c]
  BY <1>0, <1>1 DEF TodoIsOlder, Holders
<1>2. ASSUME NEW b \in Builds, liveHolders(b) PROVE TodoIsOlder(c)'
  <2>1. ASSUME c = b, NEW listed \in SUBSET Nodes, todo' = [todo EXCEPT ![b] = stale(b, listed)]
        PROVE  TodoIsOlder(c)'
    <3>1. todo'[c] = stale(b, listed) /\ UNCHANGED created
      BY <1>2, <2>1 DEF liveHolders
    <3>2. \A h \in stale(b, listed) : created[h.build] > 0 /\ created[h.build] < created[c]
      BY <2>1, NoBuildAssumption DEF stale, Holders, Promoted
    <3> QED
      BY <3>1, <3>2 DEF TodoIsOlder
  <2>2. CASE todo'[c] = todo[c]
    BY <1>1, <2>2
  <2> QED
    BY <1>2, <2>1, <2>2 DEF liveHolders
<1>3. ASSUME NEW b \in Builds, NEW h \in todo[b], deleteStale(b, h) PROVE todo'[c] \subseteq todo[c]
  BY <1>3 DEF deleteStale
<1>4. ASSUME NEW b \in Builds,
             \/ Register(b) \/ Start(b) \/ claim(b) \/ prepare(b) \/ promote(b)
             \/ deletesDone(b) \/ label(b) \/ release(b) \/ finish(b) \/ freeSlot(b)
      PROVE  todo'[c] = todo[c]
  BY <1>4 DEF Register, Start, claim, prepare, promote, deletesDone, label, release, finish,
     freeSlot
<1>5. CASE Status \/ Tick \/ UNCHANGED vars
  BY <1>1, <1>5 DEF Status, Tick, vars
<1>6. CASE Restart
  BY <1>6 DEF Restart, TodoIsOlder
<1> QED
  BY <1>1, <1>2, <1>3, <1>4, <1>5, <1>6 DEF Next, Served, run

\* A promote replaces only what its node stamped before it; a delete takes a
\* record older than its own build's, which is not the newest.
LEMMA KeepsNewest ==
    ASSUME BuildInv, [Next]_vars
    PROVE  NewestSurvives'
<1> USE DEF BuildInv, TypeOK
<1>1. CASE OnlyDeletes
  <2> SUFFICES ASSUME NEW d \in Builds, created'[d] > 0
               PROVE  \E n \in Nodes : /\ holder'[n] # NoBuild
                                       /\ \A b \in Builds : created'[b] <= created'[holder'[n]]
    BY DEF NewestSurvives
  <2>1. UNCHANGED created
    BY <1>1 DEF OnlyDeletes
  <2>2. PICK n \in Nodes : /\ holder[n] # NoBuild
                           /\ \A b \in Builds : created[b] <= created[holder[n]]
    BY <2>1 DEF NewestSurvives
  <2>3. ASSUME NEW c \in Builds, [node |-> n, build |-> holder[n]] \in todo[c] PROVE FALSE
    BY <2>2, <2>3 DEF TodoIsOlder
  <2>4. holder'[n] = holder[n]
    BY <1>1, <2>3 DEF OnlyDeletes
  <2> QED
    BY <2>1, <2>2, <2>4
<1>2. ASSUME NEW b \in Builds, Promotes(b) PROVE NewestSurvives'
  <2>1. /\ holder'[at[b]] = b /\ created'[b] = clock + Ahead[at[b]] /\ at[b] \in Nodes
        /\ created'[b] \in Nat
        /\ \A d \in Builds : d # b => created'[d] = created[d]
        /\ \A n \in Nodes : n # at[b] => holder'[n] = holder[n]
    <3>1. at[b] \in Nodes
      BY <1>2 DEF Promotes
    <3>2. Ahead[at[b]] \in Nat
      BY <3>1, SkewAssumption
    <3>3. clock \in Nat
      BY MaxClockAssumption
    <3> QED
      BY <1>2, <3>1, <3>2, <3>3 DEF Promotes
  <2>2. CASE \A d \in Builds : created[d] <= created'[b]
    <3>1. \A d \in Builds : created'[d] <= created'[b]
      BY <2>1, <2>2
    <3> QED
      BY <2>1, <3>1, NoBuildAssumption DEF NewestSurvives
  <2>3. ASSUME NEW d \in Builds, created[d] > created'[b] PROVE NewestSurvives'
    <3>1. PICK n \in Nodes : /\ holder[n] # NoBuild
                             /\ \A e \in Builds : created[e] <= created[holder[n]]
      BY <2>1, <2>3 DEF NewestSurvives
    <3>2. created[holder[n]] > created'[b] /\ holder[n] \in Builds
      BY <2>1, <2>3, <3>1
    <3>3. n # at[b]
      <4> SUFFICES ASSUME n = at[b] PROVE FALSE
        OBVIOUS
      <4>1. created[holder[n]] <= clock + Ahead[n]
        BY <3>1 DEF Promoted
      <4> QED
        BY <2>1, <3>2, <4>1
    <3>4. holder[n] # b
      BY <1>2, <2>1, <3>2 DEF Promotes
    <3>5. holder'[n] = holder[n] /\ created'[holder[n]] = created[holder[n]]
      BY <2>1, <3>2, <3>3, <3>4
    <3>6. \A e \in Builds : created'[e] <= created'[holder'[n]]
      BY <2>1, <3>1, <3>2, <3>5
    <3> QED
      BY <3>1, <3>5, <3>6 DEF NewestSurvives
  <2> QED
    BY <2>1, <2>2, <2>3
<1> QED
  BY <1>1, <1>2, HoldersMove

\* A record that comes is the latest, whatever its stamp, so where none is
\* older none will be; and an older one that is left is one that was there.
LEMMA OlderIsOld ==
    ASSUME BuildInv, [Next]_vars, NEW c \in Builds, created'[c] = created[c],
           at[c] \in Nodes, at'[c] = at[c], NEW n \in Nodes, Older(c, n)'
    PROVE  holder'[n] = holder[n] /\ Older(c, n)
<1> USE DEF BuildInv, TypeOK, Older, PromotedAt
<1>0. Ahead[n] \in Nat /\ Ahead[at[c]] \in Nat
  BY SkewAssumption
<1>1. CASE OnlyDeletes
  BY <1>1 DEF OnlyDeletes
<1>2. ASSUME NEW b \in Builds, Promotes(b)
      PROVE  holder'[n] = holder[n] /\ Older(c, n)
  <2>1. created'[b] = clock + Ahead[at[b]] /\ \A d \in Builds : d # b => created'[d] = created[d]
    BY <1>2 DEF Promotes
  <2>2. created[c] - Ahead[at[c]] <= clock
    BY <1>0 DEF Stamped
  <2>3. n # at[b]
    BY <1>0, <1>2, <2>1, <2>2 DEF Promotes
  <2>4. holder'[n] = holder[n]
    BY <1>2, <2>3 DEF Promotes
  <2>5. holder[n] # b
    BY <1>2, <2>4 DEF Promotes, Promoted
  <2> QED
    BY <2>1, <2>4, <2>5
<1> QED
  BY <1>1, <1>2, HoldersMove

\* A build whose run is where it was keeps what it promises.
LEMMA NoneOlderStays ==
    ASSUME BuildInv, [Next]_vars, NEW c \in Builds, created'[c] = created[c], at'[c] = at[c],
           missed'[c] = missed[c], NoneOlder(c)
    PROVE  NoneOlder(c)'
BY OlderIsOld DEF NoneOlder

LEMMA BystanderReplaces ==
    ASSUME BuildInv, [Next]_vars, NEW c \in Builds,
           pc'[c] = pc[c], ok'[c] = ok[c], todo'[c] = todo[c], created'[c] = created[c],
           at'[c] = at[c], missed'[c] = missed[c],
           status'[c] = "ready" => status[c] = "ready"
    PROVE  Replaces(c)'
<1>1. Replaces(c) /\ Costs(c)
  BY DEF BuildInv
<1>2. ASSUME pc[c] = "delete", ok[c], NEW n \in Nodes \ missed[c], Older(c, n)'
      PROVE  [node |-> n, build |-> holder'[n]] \in todo[c]
  <2>1. at[c] \in Nodes
    BY <1>1, <1>2 DEF Costs, Holding
  <2>2. holder'[n] = holder[n] /\ Older(c, n)
    BY <1>2, <2>1, OlderIsOld
  <2> QED
    BY <1>1, <1>2, <2>2 DEF Replaces
<1>3. status'[c] = "ready" \/ (pc[c] \in {"label", "release", "finish"} /\ ok[c]) => NoneOlder(c)'
  BY <1>1, NoneOlderStays DEF Replaces
<1> QED
  BY <1>2, <1>3 DEF Replaces

LEMMA KeepsReplaces ==
    ASSUME BuildInv, [Next]_vars, NEW c \in Builds
    PROVE  Replaces(c)'
<1> USE DEF BuildInv, TypeOK, nodeVars, runVars, recordVars, history
<1>0. Recorded(c) /\ Replaces(c) /\ Costs(c)
  OBVIOUS
<1>1. ASSUME NEW b \in Builds, Register(b) PROVE Replaces(c)'
  <2>1. UNCHANGED <<pc, ok, todo, created, at, missed>> /\ (status'[c] = "ready" => status[c] = "ready")
    BY <1>1, SweptType DEF Register
  <2> QED
    BY <2>1, BystanderReplaces
<1>2. CASE Status
  <2>1. UNCHANGED <<pc, ok, todo, created, at, missed>> /\ (status'[c] = "ready" => status[c] = "ready")
    BY <1>2, SweptType DEF Status
  <2> QED
    BY <2>1, BystanderReplaces
\* The steps of another run.
<1>3. ASSUME NEW b \in Builds, b # c, Start(b) \/ run(b) PROVE Replaces(c)'
  <2>1. /\ pc'[c] = pc[c] /\ ok'[c] = ok[c] /\ todo'[c] = todo[c] /\ created'[c] = created[c]
        /\ status'[c] = status[c] /\ at'[c] = at[c] /\ missed'[c] = missed[c]
    <3>1. CASE Start(b)
      BY <1>3, <3>1 DEF Start, Goto
    <3>2. CASE claim(b) \/ prepare(b)
      BY <1>3, <3>2 DEF claim, prepare, Goto, GiveUp
    <3>3. CASE promote(b) \/ liveHolders(b)
      BY <1>3, <3>3 DEF promote, liveHolders, Goto, GiveUp
    <3>4. CASE \E h \in todo[b] : deleteStale(b, h)
      BY <1>3, <3>4 DEF deleteStale
    <3>5. CASE deletesDone(b) \/ label(b) \/ release(b) \/ finish(b) \/ freeSlot(b)
      BY <1>3, <3>5 DEF deletesDone, label, release, finish, freeSlot, Goto, GiveUp
    <3> QED
      BY <1>3, <3>1, <3>2, <3>3, <3>4, <3>5 DEF run
  <2> QED
    BY <2>1, BystanderReplaces
<1>4. CASE Start(c) \/ claim(c) \/ prepare(c) \/ promote(c)
  <2>1. status'[c] # "ready"
    BY <1>0, <1>4 DEF Start, claim, prepare, promote, Recorded
  <2>2. pc'[c] \in {"claim", "prepare", "promote", "list"} \/ (pc'[c] \in {"finish", "release"} /\ ~ok'[c])
    <3>1. CASE Start(c)
      BY <3>1 DEF Start, Goto
    <3>2. CASE claim(c)
      BY <3>2 DEF claim, Goto
    <3>3. CASE prepare(c)
      BY <3>3 DEF prepare, Goto, GiveUp
    <3>4. CASE promote(c)
      BY <3>4 DEF promote, Goto, GiveUp
    <3> QED
      BY <1>4, <3>1, <3>2, <3>3, <3>4
  <2> QED
    BY <2>1, <2>2 DEF Replaces
<1>5. CASE liveHolders(c)
  <2>1. status'[c] # "ready" /\ UNCHANGED <<holder, created, at>>
    BY <1>0, <1>5 DEF liveHolders, Recorded
  <2>2. ASSUME NEW listed \in SUBSET Nodes, todo' = [todo EXCEPT ![c] = stale(c, listed)],
               missed' = [missed EXCEPT ![c] = {h.node : h \in stale(c, Nodes \ listed)}],
               Goto(c, "delete")
        PROVE  Replaces(c)'
    <3>1. ASSUME NEW n \in Nodes, Older(c, n), n \notin missed'[c]
          PROVE  [node |-> n, build |-> holder[n]] \in todo'[c]
      <4> DEFINE h == [node |-> n, build |-> holder[n]]
      <4>1. h \in Holders /\ created[h.build] < created[c] /\ holder[h.node] = h.build
        BY <3>1 DEF Older, Holders
      <4>2. n \notin listed => h \in stale(c, Nodes \ listed)
        BY <4>1 DEF stale
      <4>3. missed'[c] = {g.node : g \in stale(c, Nodes \ listed)}
        BY <2>2
      <4>4. h.node = n
        OBVIOUS
      <4>5. n \in listed
        BY <3>1, <4>2, <4>3, <4>4
      <4> QED
        BY <2>2, <4>1, <4>5 DEF stale
    <3>2. pc'[c] = "delete"
      BY <2>2 DEF Goto
    <3> QED
      BY <2>1, <3>1, <3>2 DEF Replaces, Older, PromotedAt
  <2>3. CASE GiveUp(c)
    BY <2>1, <2>3 DEF GiveUp, Goto, Replaces
  <2> QED
    BY <1>5, <2>2, <2>3 DEF liveHolders
\* Its own delete takes what it crosses off, or what it crosses off was gone.
<1>6. ASSUME NEW h \in todo[c], deleteStale(c, h) PROVE Replaces(c)'
  <2>1. /\ pc[c] = "delete" /\ UNCHANGED <<pc, status, created, at, missed>> /\ status[c] = "building"
        /\ todo'[c] = todo[c] \ {h}
    BY <1>0, <1>6 DEF deleteStale, Recorded
  <2>2. h \in Holders
    OBVIOUS
  <2>3. CASE ~ok'[c]
    BY <2>1, <2>3 DEF Replaces
  <2>4. CASE ok'[c]
    <3>1. /\ ok[c]
          /\ holder' = IF DeleteTemplate(h) THEN [holder EXCEPT ![h.node] = NoBuild] ELSE holder
      BY <1>6, <2>4 DEF deleteStale
    <3>2. ASSUME NEW n \in Nodes \ missed[c], Older(c, n)'
          PROVE  [node |-> n, build |-> holder'[n]] \in todo[c] \ {h}
      <4>1. holder'[n] = holder[n] /\ (n = h.node => holder[n] # h.build)
        BY <2>2, <3>1, <3>2 DEF DeleteTemplate, Holders, Older
      <4>2. Older(c, n)
        BY <2>1, <3>2, <4>1 DEF Older, PromotedAt
      <4>3. [node |-> n, build |-> holder[n]] \in todo[c]
        BY <1>0, <2>1, <3>1, <3>2, <4>2 DEF Replaces
      <4>4. [node |-> n, build |-> holder[n]] # h
        BY <4>1
      <4> QED
        BY <4>1, <4>3, <4>4
    <3> QED
      BY <2>1, <3>2 DEF Replaces
  <2> QED
    BY <2>3, <2>4
<1>7. CASE deletesDone(c)
  <2>1. /\ pc[c] = "delete" /\ todo[c] = {} /\ UNCHANGED <<status, created, holder, ok, at, missed>>
        /\ pc'[c] = IF ok[c] THEN "label" ELSE "release"
    BY <1>7 DEF deletesDone, Goto
  <2>2. ok[c] => NoneOlder(c)
    BY <1>0, <2>1 DEF Replaces, NoneOlder, Costs, Holding
  <2>3. ok[c] => NoneOlder(c)'
    BY <2>1, <2>2 DEF NoneOlder, Older, PromotedAt
  <2>4. status'[c] # "ready"
    BY <1>0, <2>1 DEF Recorded
  <2> QED
    BY <2>1, <2>3, <2>4 DEF Replaces
<1>8. CASE label(c) \/ release(c) \/ finish(c) \/ freeSlot(c)
  <2>1. /\ UNCHANGED <<created, holder, at, missed>>
        /\ pc'[c] \in {"release", "finish", "slot", "none"} /\ (ok'[c] => ok[c])
    BY <1>8 DEF label, release, finish, freeSlot, Goto, GiveUp
  <2>2. status'[c] = "ready" \/ (pc'[c] \in {"release", "finish"} /\ ok'[c]) => NoneOlder(c)
    <3>1. CASE label(c) \/ release(c)
      BY <1>0, <2>1, <3>1 DEF label, release, Recorded, Replaces
    <3>2. CASE finish(c)
      BY <1>0, <3>2 DEF finish, Goto, Recorded, Replaces
    <3>3. CASE freeSlot(c)
      BY <1>0, <3>3 DEF freeSlot, Goto, Replaces
    <3> QED
      BY <1>8, <3>1, <3>2, <3>3
  <2>3. NoneOlder(c) => NoneOlder(c)'
    BY <2>1 DEF NoneOlder, Older, PromotedAt
  <2> QED
    BY <2>1, <2>2, <2>3 DEF Replaces
<1>9. CASE Restart
  BY <1>9 DEF Restart, Replaces
<1>10. CASE Tick \/ UNCHANGED vars
  BY <1>10, BystanderReplaces DEF Tick, vars
<1> QED
  BY <1>1, <1>2, <1>3, <1>4, <1>5, <1>6, <1>7, <1>8, <1>9, <1>10 DEF Next, Served, run

-----------------------------------------------------------------------------
\* The invariant of the executor and the nodes' records is inductive.
THEOREM BuildInvariant == Spec => []BuildInv
<1>1. Init => BuildInv
  <2> SUFFICES ASSUME Init PROVE BuildInv
    OBVIOUS
  <2>1. TypeOK
    BY ParallelAssumption, MaxClockAssumption, SkewAssumption DEF Init, TypeOK
  <2>2. SlotsAreRuns
    <3>1. Running = {} /\ slots = 0
      BY DEF Init, Running
    <3> QED
      BY <3>1, FS_EmptySet DEF SlotsAreRuns
  <2>3. \A b \in Builds : Recorded(b) /\ Costs(b) /\ Stamped(b) /\ TodoIsOlder(b) /\ Replaces(b)
    BY NoNodeAssumption DEF Init, Recorded, Costs, Stamped, Fresh, TodoIsOlder, Replaces, Holding
  <2>4. Promoted /\ NewestSurvives
    BY DEF Init, Promoted, NewestSurvives
  <2> QED
    BY <2>1, <2>2, <2>3, <2>4 DEF BuildInv
<1>2. BuildInv /\ [Next]_vars => BuildInv'
  <2> SUFFICES ASSUME BuildInv, [Next]_vars PROVE BuildInv'
    OBVIOUS
  <2>1. \A b \in Builds : Recorded(b)' /\ Costs(b)' /\ Stamped(b)' /\ TodoIsOlder(b)' /\ Replaces(b)'
    BY KeepsRecords, KeepsCosts, KeepsStamps, KeepsTodo, KeepsReplaces
  <2> QED
    BY <2>1, KeepsType, KeepsSlots, KeepsPromoted, KeepsNewest DEF BuildInv
<1> QED
  BY <1>1, <1>2, PTL DEF Spec

\* Executor (src/pkg/e2bbuild/executor.go): for any number of builds and slots,
\* a slot is taken exactly by each run, so slots never leak and bound the runs,
\* and a build that runs keeps its record.
THEOREM SlotsAndRecords == Spec => []RunningIsRecorded
<1>1. BuildInv => RunningIsRecorded
  BY ParallelAssumption DEF BuildInv, RunningIsRecorded, TypeOK, SlotsAreRuns, Recorded
<1> QED
  BY <1>1, BuildInvariant, PTL

\* run (src/pkg/e2bbuild/executor.go): a build costs one microVM and leaves
\* none behind, wherever it fails, unless a claim or a release went unanswered.
THEOREM BuildsCleanUp == Spec => []FinishedHoldsNothing
<1>1. BuildInv => FinishedHoldsNothing
  BY DEF BuildInv, FinishedHoldsNothing, Recorded, Costs, Holding
<1> QED
  BY <1>1, BuildInvariant, PTL

\* publishBuild (src/pkg/e2bcompat/builds.go): however many publishes run at
\* once and however the nodes' clocks differ or tie, the newest stamp is on
\* some node.
THEOREM NewestIsKept == Spec => []NewestSurvives
<1>1. BuildInv => NewestSurvives
  BY DEF BuildInv
<1> QED
  BY <1>1, BuildInvariant, PTL

\* publishBuild: a build that is ready has replaced every build promoted more
\* than the clocks' skew before it, on every node but those that held an older
\* one unlisted by the inventory, whatever the other builds do.
THEOREM ReadyReplacedTheOlder == Spec => []ReadyReplacesOlder
<1>1. BuildInv => ReadyReplacesOlder
  <2> SUFFICES ASSUME BuildInv, NEW b \in Builds, status[b] = "ready",
                      NEW n \in Nodes \ missed[b], holder[n] # NoBuild
               PROVE  PromotedAt(holder[n], n) + MaxSkew >= PromotedAt(b, at[b])
    BY DEF ReadyReplacesOlder
  <2>1. at[b] \in Nodes /\ ~Older(b, n)
    BY DEF BuildInv, Replaces, NoneOlder
  <2>2. created[holder[n]] \in Nat /\ created[b] \in Nat
    BY DEF BuildInv, TypeOK
  <2>3. MaxSkew \in Nat /\ Ahead[n] \in 0..MaxSkew /\ Ahead[at[b]] \in 0..MaxSkew
    BY <2>1, SkewAssumption
  <2> QED
    BY <2>1, <2>2, <2>3 DEF Older, PromotedAt
<1> QED
  BY <1>1, BuildInvariant, PTL
=============================================================================
