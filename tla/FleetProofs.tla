----------------------------- MODULE FleetProofs -----------------------------
(***************************************************************************)
(* The sources that say which nodes there are and the driver that sets     *)
(* their warm pools, for every fleet, every window and every set of pools. *)
(*                                                                         *)
(* KubeInventory: the inductive invariant says that the snapshot's newest  *)
(* stamp is the largest one held, and that no stamp lies between the epoch *)
(* and the first instant of the clocks.                                    *)
(*                                                                         *)
(* MeshInventory: the inductive invariant ties what the source keeps to    *)
(* the histories: no member's count of failed ticks is behind the silence  *)
(* of the node it stands for, a node heard in the last tick has a member   *)
(* that answered with it, whichever members the fold left, and a tick that *)
(* found a node settled left it a member.                                  *)
(*                                                                         *)
(* WarmPool: the inductive invariant says that a pool which has kept its   *)
(* key since the list is still to be resolved or is resolved to that key,  *)
(* and that while nothing has changed since the lists, what the reconcile  *)
(* has sent and written so far is what the pools there are call for.  What *)
(* these sets and statuses add up to rests on a theory of sums, proved by  *)
(* induction over finite sets from the definition of the fold.             *)
(***************************************************************************)
EXTENDS KubeInventory, MeshInventory, WarmPool, FiniteSetTheorems,
        WellFoundedInduction, TLAPS

-----------------------------------------------------------------------------
(* The Kubernetes source.                                                  *)

NewestIsLargest ==
    /\ newest \in {NoStamp} \cup {stamp[n] : n \in held}
    /\ \A n \in held : stamp[n] <= newest

StampsAreLate == \A n \in Nodes : stamp[n] # NoStamp => stamp[n] >= Start

KubeInv == KubeTypeOK /\ NewestIsLargest /\ StampsAreLate

LEMMA InitKube == KubeInit => KubeInv
BY MaxTimeAssumption, SkewAssumption, StaleAfterAssumption
   DEF KubeInit, KubeInv, KubeTypeOK, NewestIsLargest, StampsAreLate, NoStamp, Start

\* A publish over stamps of the right type keeps the newest one right.
LEMMA PublishInv ==
    ASSUME held' \in SUBSET Nodes,
           stamp' \in [Nodes -> 0..MaxTime + Skew],
           publish
    PROVE  newest' \in 0..MaxTime + Skew /\ NewestIsLargest'
BY MaxTimeAssumption, SkewAssumption DEF publish, NewestIsLargest, NoStamp

LEMMA StepKube == KubeInv /\ [KubeNext]_kubeVars => KubeInv'
<1> SUFFICES ASSUME KubeInv, [KubeNext]_kubeVars PROVE KubeInv'
    OBVIOUS
<1> USE DEF KubeInv, KubeTypeOK
<1>1. ASSUME NEW n \in Nodes, NEW s \in {ZeroTime} \cup Start..now + Skew, put(n, s)
      PROVE  KubeInv'
  <2>1. /\ publishedAt(s) \in 0..MaxTime + Skew
        /\ publishedAt(s) # NoStamp => publishedAt(s) >= Start
    BY MaxTimeAssumption, SkewAssumption, StaleAfterAssumption
       DEF publishedAt, ZeroTime, NoStamp, Start
  <2>2. held' \in SUBSET Nodes /\ stamp' \in [Nodes -> 0..MaxTime + Skew] /\ publish
    BY <1>1, <2>1 DEF put
  <2>3. newest' \in 0..MaxTime + Skew /\ NewestIsLargest'
    BY <2>2, PublishInv
  <2>4. StampsAreLate'
    BY <1>1, <2>1 DEF put, StampsAreLate
  <2> QED
    BY <1>1, <2>2, <2>3, <2>4 DEF put
<1>2. ASSUME NEW n \in Nodes, drop(n)
      PROVE  KubeInv'
  <2>1. held' \in SUBSET Nodes /\ stamp' \in [Nodes -> 0..MaxTime + Skew] /\ publish
    BY <1>2, MaxTimeAssumption, SkewAssumption DEF drop, NoStamp
  <2>2. newest' \in 0..MaxTime + Skew /\ NewestIsLargest'
    BY <2>1, PublishInv
  <2>3. StampsAreLate'
    BY <1>2 DEF drop, StampsAreLate
  <2> QED
    BY <1>2, <2>1, <2>2, <2>3 DEF drop
<1>3. CASE Tick
  BY <1>3, MaxTimeAssumption, StaleAfterAssumption
     DEF Tick, NewestIsLargest, StampsAreLate, Start
<1>4. CASE UNCHANGED kubeVars
  BY <1>4 DEF kubeVars, NewestIsLargest, StampsAreLate
<1> QED
  BY <1>1, <1>2, <1>3, <1>4 DEF KubeNext

\* The snapshot's newest stamp is the largest one held, and every variable
\* keeps its type, whatever order events arrive in.
THEOREM KubeInvariant == KubeSpec => []KubeInv
BY InitKube, StepKube, PTL DEF KubeSpec

\* Every variable of the source keeps its type.
THEOREM KubeTypes == KubeSpec => []KubeTypeOK
<1>1. KubeInv => KubeTypeOK
  BY DEF KubeInv
<1> QED
  BY <1>1, KubeInvariant, PTL

\* A source that holds any inventory lists some node: a fleet-wide publishing
\* outage, a future-dated stamp or a deletion cannot empty it.
THEOREM KubeFleetNeverEmpties == KubeSpec => []FleetNeverEmpties
<1>1. ASSUME KubeInv, held # {} PROVE Listed # {}
  <2> USE <1>1 DEF KubeInv, KubeTypeOK
  <2>1. \E n \in held : stamp[n] = newest
    BY DEF NewestIsLargest, NoStamp
  <2>2. PICK n \in held : stamp[n] = newest
    BY <2>1
  <2>3. newest \in Int /\ now \in Int /\ current \in Int /\ current <= newest
    BY MaxTimeAssumption, SkewAssumption, StaleAfterAssumption DEF current, Start
  <2>4. ~stale(stamp[n], current)
    BY <2>2, <2>3, StaleAfterAssumption DEF stale
  <2> QED
    BY <2>2, <2>4 DEF Listed
<1>2. KubeInv => FleetNeverEmpties
  BY <1>1 DEF FleetNeverEmpties
<1> QED
  BY <1>2, KubeInvariant, PTL

\* A node that published within the window is listed, whatever the other
\* nodes' clocks stamp.
THEOREM KubeFreshIsListed == KubeSpec => []FreshIsListed
<1>1. ASSUME KubeInv, NEW n \in held, now - stamp[n] <= StaleAfter
      PROVE  n \in Listed
  <2> USE <1>1 DEF KubeInv, KubeTypeOK
  <2>1. stamp[n] \in Int /\ newest \in Int /\ now \in Int
    BY MaxTimeAssumption, SkewAssumption, StaleAfterAssumption DEF Start
  <2>2. current \in Int /\ current <= now
    BY <2>1 DEF current
  <2>3. ~stale(stamp[n], current)
    BY <2>1, <2>2, StaleAfterAssumption DEF stale
  <2> QED
    BY <2>3 DEF Listed
<1>2. KubeInv => FreshIsListed
  BY <1>1 DEF FreshIsListed
<1> QED
  BY <1>2, KubeInvariant, PTL

\* A node that trails a held stamp of the past by more than the window is not
\* listed: a dead node leaves once the others publish on.
THEOREM KubeTrailingIsStale == KubeSpec => []TrailingIsStale
<1>1. ASSUME KubeInv, NEW n \in held, NEW m \in held,
             stamp[m] <= now, stamp[m] - stamp[n] > StaleAfter
      PROVE  n \notin Listed
  <2> USE <1>1 DEF KubeInv, KubeTypeOK
  <2>1. stamp[n] \in Int /\ stamp[m] \in Int /\ newest \in Int /\ now \in Int
    BY MaxTimeAssumption, SkewAssumption, StaleAfterAssumption DEF Start
  <2>2. stamp[m] <= current
    BY <2>1 DEF current, NewestIsLargest
  <2>3. stale(stamp[n], current)
    BY <2>1, <2>2, StaleAfterAssumption DEF stale, current
  <2> QED
    BY <2>3 DEF Listed
<1>2. KubeInv => TrailingIsStale
  BY <1>1 DEF TrailingIsStale
<1> QED
  BY <1>2, KubeInvariant, PTL

\* An inventory without a stamp is not listed beside one that has one.
THEOREM KubeUnstampedIsStale == KubeSpec => []UnstampedIsStale
<1>1. ASSUME KubeInv, NEW n \in held, NEW m \in held,
             stamp[n] = NoStamp, stamp[m] # NoStamp
      PROVE  n \notin Listed
  <2> USE <1>1 DEF KubeInv, KubeTypeOK
  <2>1. stamp[m] \in Int /\ newest \in Int /\ now \in Int /\ now >= Start
    BY MaxTimeAssumption, SkewAssumption, StaleAfterAssumption DEF Start
  <2>2. newest >= stamp[m] /\ stamp[m] >= Start
    BY DEF NewestIsLargest, StampsAreLate
  <2>3. current \in Int /\ current >= Start
    BY <2>1, <2>2, StaleAfterAssumption DEF current, Start
  <2>4. stale(stamp[n], current)
    BY <2>3, StaleAfterAssumption DEF stale, NoStamp, Start
  <2> QED
    BY <2>4 DEF Listed
<1>2. KubeInv => UnstampedIsStale
  BY <1>1 DEF UnstampedIsStale
<1> QED
  BY <1>2, KubeInvariant, PTL

-----------------------------------------------------------------------------
(* The mesh source.                                                        *)

\* An address that is not polled has left nothing behind.
StrangersAreBlank ==
    \A a \in Addrs \ members : inv[a] = NoKey /\ fails[a] = 0

SnapIsBest == snap = [k \in Addrs |-> best(members, fails, inv, k)]

FailsCoverSilence ==
    \A a \in members : \A k \in Addrs : inv[a] = k => silent[k] <= fails[a]

HeardHasMember ==
    \A k \in Addrs : silent[k] = 0 => \E a \in members : inv[a] = k /\ fails[a] = 0

SettledIsMember == \A k \in Addrs : steady[k] # 0 => k \in members

SettledIsRead ==
    \A k \in Addrs : steady[k] = 2 => \E a \in members : inv[a] = k /\ fails[a] = 0

DeadAreCounted ==
    \A a \in members : dead[a] <= fails[a] /\ dead[a] <= MaxStale

MeshInv ==
    /\ TypeOK
    /\ Seeds \subseteq members
    /\ StrangersAreBlank
    /\ SnapIsBest
    /\ FailsCoverSilence
    /\ HeardHasMember
    /\ SettledIsMember
    /\ SettledIsRead
    /\ DeadAreCounted

-----------------------------------------------------------------------------
\* A nonempty set of naturals has a smallest member.
LEMMA SmallestOf ==
    ASSUME NEW T, T \subseteq Nat, T # {}
    PROVE  \E x \in T : \A y \in T : x <= y
<1> DEFINE R == {ss \in Nat \X Nat : ss[1] < ss[2]}
<1>1. IsWellFoundedOn(R, Nat)
  BY NatLessThanWellFounded DEF OpToRel
<1>2. PICK x \in T : \A y \in T : ~(<<y, x>> \in R)
  <2> HIDE DEF R
  <2> QED
    BY <1>1, WFMin
<1>3. \A y \in T : y < x => <<y, x>> \in R
  OBVIOUS
<1>4. \A y \in T : ~(y < x)
  <2> HIDE DEF R
  <2> QED
    BY <1>2, <1>3
<1> QED
  BY <1>4

\* best is the count of some member that can stand for the node, and none of
\* the others failed less often; without such a member it is -1.
LEMMA BestIsLeast ==
    ASSUME NEW ms \in SUBSET Addrs, NEW fs \in [Addrs -> 0..MaxStale + 1], NEW is,
           NEW k \in Addrs
    PROVE  LET P == publishable(ms, fs, is, k)
           IN  /\ P = {} => best(ms, fs, is, k) = -1
               /\ P # {} => \E a \in P : /\ best(ms, fs, is, k) = fs[a]
                                         /\ \A b \in P : fs[a] <= fs[b]
<1> DEFINE P == publishable(ms, fs, is, k)
<1>1. P \subseteq Addrs
  BY DEF publishable
<1> SUFFICES ASSUME P # {}
             PROVE  \E a \in P : /\ best(ms, fs, is, k) = fs[a]
                                 /\ \A b \in P : fs[a] <= fs[b]
  BY DEF best
<1> DEFINE T == {fs[a] : a \in P}
<1>2. T \subseteq Nat /\ T # {}
  BY <1>1, MaxStaleAssumption
<1>3. PICK x \in T : \A y \in T : x <= y
  <2> HIDE DEF T
  <2> QED
    BY <1>2, SmallestOf
<1>4. \E a \in P : \A b \in P : fs[a] <= fs[b]
  BY <1>3
<1> DEFINE c == CHOOSE a \in P : \A b \in P : fs[a] <= fs[b]
<1>5. c \in P /\ \A b \in P : fs[c] <= fs[b]
  BY <1>4
<1>6. best(ms, fs, is, k) = fs[c]
  BY DEF best
<1> QED
  BY <1>5, <1>6

LEMMA BestType ==
    ASSUME NEW ms \in SUBSET Addrs, NEW fs \in [Addrs -> 0..MaxStale + 1], NEW is,
           NEW k \in Addrs
    PROVE  best(ms, fs, is, k) \in -1..MaxStale
<1> DEFINE P == publishable(ms, fs, is, k)
<1>1. CASE P = {}
  BY <1>1, BestIsLeast, MaxStaleAssumption
<1>2. CASE P # {}
  <2>1. PICK a \in P : best(ms, fs, is, k) = fs[a]
    BY <1>2, BestIsLeast
  <2>2. fs[a] \in 0..MaxStale + 1 /\ fs[a] <= MaxStale
    BY DEF publishable
  <2> QED
    BY <2>1, <2>2, MaxStaleAssumption
<1> QED
  BY <1>1, <1>2

\* A node with a member that did not fail is listed with fresh rows.
LEMMA BestIsFresh ==
    ASSUME NEW ms \in SUBSET Addrs, NEW fs \in [Addrs -> 0..MaxStale + 1], NEW is,
           NEW k \in Addrs, NEW a \in ms, is[a] = k, fs[a] = 0
    PROVE  best(ms, fs, is, k) = 0
<1> DEFINE P == publishable(ms, fs, is, k)
<1>1. a \in P
  BY MaxStaleAssumption DEF publishable
<1>2. PICK b \in P : best(ms, fs, is, k) = fs[b] /\ \A c \in P : fs[b] <= fs[c]
  BY <1>1, BestIsLeast
<1>3. fs[b] \in 0..MaxStale + 1
  BY DEF publishable
<1> QED
  BY <1>1, <1>2, <1>3, MaxStaleAssumption

-----------------------------------------------------------------------------
\* What the fold of one tick leaves: every silent member that is not forgotten,
\* of each node that answered some member that answered with it, and the seeds.
Folds(F) ==
    /\ F \subseteq members
    /\ \A a \in members \ poll : a \in F <=> a \notin forgotten(poll)
    /\ \A b \in poll : \E a \in F \cap poll : keyOf[a] = keyOf[b]
    /\ poll \cap Seeds \subseteq F

Ticks(F) ==
    /\ members' = F \cup learnt(poll, F)
    /\ fails' = [a \in Addrs |-> IF a \in F THEN failsAfter(poll)[a] ELSE 0]
    /\ inv' = [a \in Addrs |-> IF a \notin F THEN NoKey
                               ELSE IF a \in poll THEN keyOf[a] ELSE inv[a]]
    /\ snap' = [k \in Addrs |-> best(members', fails', inv', k)]
    /\ silent' = [k \in Addrs |-> IF \E a \in poll : keyOf[a] = k THEN 0
                                  ELSE IF silent[k] > MaxStale THEN silent[k]
                                  ELSE silent[k] + 1]
    /\ steady' = [k \in Addrs |-> IF ~Settled(k) THEN 0
                                  ELSE IF steady[k] = 2 THEN 2 ELSE steady[k] + 1]
    /\ dead' = [a \in Addrs |-> IF ~Dead(a) THEN 0
                                ELSE IF dead[a] > MaxStale THEN dead[a]
                                ELSE dead[a] + 1]

LEMMA TickFolds ==
    ASSUME TypeOK, tick(poll)
    PROVE  \E F : Folds(F) /\ Ticks(F)
<1> DEFINE keys == {keyOf[a] : a \in poll}
           remain(keep) == UNION {keep[k] : k \in keys}
           folded(keep) == (members \ (poll \cup forgotten(poll))) \cup remain(keep)
<1>1. PICK keep \in [keys -> SUBSET poll] :
         /\ \A k \in keys : keep[k] \in survivors(poll, k)
         /\ members' = folded(keep) \cup learnt(poll, folded(keep))
         /\ fails' = [a \in Addrs |-> IF a \in folded(keep) THEN failsAfter(poll)[a] ELSE 0]
         /\ inv' = [a \in Addrs |-> IF a \notin folded(keep) THEN NoKey
                                    ELSE IF a \in poll THEN keyOf[a] ELSE inv[a]]
  BY DEF tick
<1>2. /\ snap' = [k \in Addrs |-> best(members', fails', inv', k)]
      /\ silent' = [k \in Addrs |-> IF k \in keys THEN 0
                                    ELSE IF silent[k] > MaxStale THEN silent[k]
                                    ELSE silent[k] + 1]
      /\ steady' = [k \in Addrs |-> IF ~Settled(k) THEN 0
                                    ELSE IF steady[k] = 2 THEN 2 ELSE steady[k] + 1]
      /\ dead' = [a \in Addrs |-> IF ~Dead(a) THEN 0
                                  ELSE IF dead[a] > MaxStale THEN dead[a]
                                  ELSE dead[a] + 1]
  BY DEF tick
<1> DEFINE F == folded(keep)
<1>3. remain(keep) \subseteq poll /\ poll \subseteq members
  BY DEF poll
<1>4. \A b \in poll : \E a \in keep[keyOf[b]] : keyOf[a] = keyOf[b]
  BY <1>1 DEF survivors
<1>5. \A s \in poll \cap Seeds : s \in keep[keyOf[s]]
  BY <1>1 DEF survivors
<1>6. \A b \in poll : keep[keyOf[b]] \subseteq remain(keep)
  OBVIOUS
<1>7. Folds(F)
  <2> HIDE DEF remain, keys
  <2> QED
    BY <1>3, <1>4, <1>5, <1>6 DEF Folds, forgotten
<1>8. \A k : k \in keys <=> \E a \in poll : keyOf[a] = k
  OBVIOUS
<1>9. Ticks(F)
  <2> HIDE DEF keys, folded
  <2> QED
    BY <1>1, <1>2, <1>8 DEF Ticks
<1> QED
  BY <1>7, <1>9

-----------------------------------------------------------------------------
\* The pieces of the invariant over one tick.

LEMMA TickTypes ==
    ASSUME MeshInv, NEW F, Folds(F), Ticks(F)
    PROVE  /\ members' \in SUBSET Addrs
           /\ fails' \in [Addrs -> 0..MaxStale + 1]
           /\ inv' \in [Addrs -> Addrs \cup {NoKey}]
           /\ snap' \in [Addrs -> -1..MaxStale]
           /\ silent' \in [Addrs -> 0..MaxStale + 1]
           /\ steady' \in [Addrs -> 0..2]
           /\ dead' \in [Addrs -> 0..MaxStale + 1]
<1> USE MaxStaleAssumption DEF MeshInv, TypeOK
<1>1. F \subseteq Addrs /\ members' \in SUBSET Addrs
  BY DEF Folds, Ticks, learnt, named
<1>2. failsAfter(poll) \in [Addrs -> 0..MaxStale + 1]
  BY DEF failsAfter
<1>3. fails' \in [Addrs -> 0..MaxStale + 1]
  BY <1>2 DEF Ticks
<1>4. inv' \in [Addrs -> Addrs \cup {NoKey}]
  BY DEF Ticks
<1>5. snap' \in [Addrs -> -1..MaxStale]
  BY <1>1, <1>3, BestType DEF Ticks
<1>6. silent' \in [Addrs -> 0..MaxStale + 1]
  BY DEF Ticks
<1>7. steady' \in [Addrs -> 0..2]
  BY DEF Ticks
<1>8. dead' \in [Addrs -> 0..MaxStale + 1]
  BY DEF Ticks
<1> QED
  BY <1>1, <1>3, <1>4, <1>5, <1>6, <1>7, <1>8

LEMMA TickKeepsSeeds ==
    ASSUME MeshInv, NEW F, Folds(F), Ticks(F)
    PROVE  Seeds \subseteq F /\ Seeds \subseteq members'
BY DEF MeshInv, Folds, Ticks, forgotten

LEMMA TickBlanks ==
    ASSUME MeshInv, NEW F, Folds(F), Ticks(F)
    PROVE  StrangersAreBlank' /\ SnapIsBest'
BY DEF StrangersAreBlank, SnapIsBest, Ticks

\* A member that answered stands for a node just heard; any other's count grows
\* with its node's silence, and a member just learnt stands for none.
LEMMA TickCoversSilence ==
    ASSUME MeshInv, NEW F, Folds(F), Ticks(F)
    PROVE  FailsCoverSilence'
<1> USE MaxStaleAssumption DEF MeshInv, TypeOK
<1> SUFFICES ASSUME NEW a \in members', inv'[a] \in Addrs
             PROVE  silent'[inv'[a]] <= fails'[a]
  BY DEF FailsCoverSilence
<1>1. F \subseteq Addrs /\ a \in Addrs
  BY DEF Folds, Ticks, learnt, named
<1>2. a \in F
  BY <1>1, NoKeyAssumption DEF Ticks
<1>3. CASE a \in poll
  <2>1. inv'[a] = keyOf[a] /\ fails'[a] = 0
    BY <1>1, <1>2, <1>3 DEF Ticks, failsAfter
  <2>2. silent'[keyOf[a]] = 0
    BY <1>1, <1>3 DEF Ticks
  <2> QED
    BY <2>1, <2>2
<1>4. CASE a \notin poll
  <2>1. a \in members
    BY <1>2 DEF Folds
  <2>2. inv'[a] = inv[a] /\ inv[a] \in Addrs
    BY <1>1, <1>2, <1>4 DEF Ticks
  <2>3. fails'[a] = IF fails[a] > MaxStale THEN fails[a] ELSE fails[a] + 1
    BY <1>1, <1>2, <1>4, <2>1 DEF Ticks, failsAfter
  <2>4. silent[inv[a]] <= fails[a]
    BY <2>1, <2>2 DEF FailsCoverSilence
  <2>5. \/ silent'[inv[a]] = 0
        \/ silent'[inv[a]] = IF silent[inv[a]] > MaxStale THEN silent[inv[a]]
                             ELSE silent[inv[a]] + 1
    BY <2>2 DEF Ticks
  <2>6. silent[inv[a]] \in 0..MaxStale + 1 /\ fails[a] \in 0..MaxStale + 1
    BY <1>1, <2>2
  <2> QED
    BY <2>2, <2>3, <2>4, <2>5, <2>6
<1> QED
  BY <1>3, <1>4

\* Of the members that are one node the fold leaves one that answered.
LEMMA TickHears ==
    ASSUME MeshInv, NEW F, Folds(F), Ticks(F), NEW b \in poll
    PROVE  \E a \in members' : inv'[a] = keyOf[b] /\ fails'[a] = 0
<1>1. PICK a \in F \cap poll : keyOf[a] = keyOf[b]
  BY DEF Folds
<1>2. a \in Addrs /\ a \in members'
  BY DEF MeshInv, TypeOK, Folds, Ticks
<1>3. inv'[a] = keyOf[a] /\ fails'[a] = 0
  BY <1>2 DEF Ticks, failsAfter
<1> QED
  BY <1>1, <1>2, <1>3

LEMMA TickHeard ==
    ASSUME MeshInv, NEW F, Folds(F), Ticks(F)
    PROVE  HeardHasMember'
<1> SUFFICES ASSUME NEW k \in Addrs, silent'[k] = 0
             PROVE  \E a \in members' : inv'[a] = k /\ fails'[a] = 0
  BY DEF HeardHasMember
<1>1. silent[k] \in 0..MaxStale + 1
  BY DEF MeshInv, TypeOK
<1>2. silent'[k] = IF \E a \in poll : keyOf[a] = k THEN 0
                   ELSE IF silent[k] > MaxStale THEN silent[k] ELSE silent[k] + 1
  BY DEF Ticks
<1>3. PICK b \in poll : keyOf[b] = k
  BY <1>1, <1>2, MaxStaleAssumption
<1> QED
  BY <1>3, TickHears

\* A seed that is up names a settled node, which is then read, or learnt.
LEMMA TickSettles ==
    ASSUME MeshInv, NEW F, Folds(F), Ticks(F), NEW k \in Addrs, Settled(k)
    PROVE  /\ k \in members'
           /\ k \in members => k \in poll /\ keyOf[k] = k
<1> USE DEF MeshInv, TypeOK
<1>1. poll \subseteq Addrs
  BY DEF poll
<1>2. \A a \in poll : keyOf[a] = k <=> a = k
  BY <1>1 DEF Settled, poll
<1>3. PICK s \in Seeds : host[s] = "up"
  BY DEF Settled
<1>4. s \in poll /\ keyOf[s] # k
  BY <1>2, <1>3 DEF poll, Settled
<1>5. k \in named(poll)
  BY <1>4 DEF named, Settled
<1>6. k \in members => k \in poll /\ keyOf[k] = k
  BY <1>2 DEF poll, Settled
<1>7. CASE k \in members
  <2>1. \E a \in F \cap poll : keyOf[a] = keyOf[k]
    BY <1>6, <1>7 DEF Folds
  <2>2. k \in F
    BY <1>2, <1>6, <1>7, <2>1
  <2> QED
    BY <1>6, <2>2 DEF Ticks
<1>8. CASE k \notin members
  <2>1. k \notin F
    BY <1>8 DEF Folds
  <2>2. k \notin poll
    BY <1>8 DEF poll
  <2>3. k \in learnt(poll, F)
    BY <1>2, <1>5, <2>1, <2>2 DEF learnt
  <2> QED
    BY <1>6, <2>3 DEF Ticks
<1> QED
  BY <1>7, <1>8

LEMMA TickSettled ==
    ASSUME MeshInv, NEW F, Folds(F), Ticks(F)
    PROVE  SettledIsMember' /\ SettledIsRead'
<1>1. SettledIsMember'
  <2> SUFFICES ASSUME NEW k \in Addrs, steady'[k] # 0 PROVE k \in members'
    BY DEF SettledIsMember
  <2>1. Settled(k)
    BY DEF Ticks
  <2> QED
    BY <2>1, TickSettles
<1>2. SettledIsRead'
  <2> SUFFICES ASSUME NEW k \in Addrs, steady'[k] = 2
               PROVE  \E a \in members' : inv'[a] = k /\ fails'[a] = 0
    BY DEF SettledIsRead
  <2>1. steady[k] \in 0..2
    BY DEF MeshInv, TypeOK
  <2>2. Settled(k) /\ steady[k] # 0
    BY <2>1 DEF Ticks
  <2>3. k \in members
    BY <2>2 DEF MeshInv, SettledIsMember
  <2>4. k \in poll /\ keyOf[k] = k
    BY <2>2, <2>3, TickSettles
  <2> QED
    BY <2>4, TickHears
<1> QED
  BY <1>1, <1>2

\* A dead member fails every tick and is named by nobody, so that its count runs
\* with the history until it is forgotten; a dead stranger is not learnt.
LEMMA TickCountsDead ==
    ASSUME MeshInv, NEW F, Folds(F), Ticks(F)
    PROVE  DeadAreCounted'
<1> USE MaxStaleAssumption DEF MeshInv, TypeOK
<1> SUFFICES ASSUME NEW a \in members'
             PROVE  dead'[a] <= fails'[a] /\ dead'[a] <= MaxStale
  BY DEF DeadAreCounted
<1>1. a \in Addrs /\ fails'[a] \in 0..MaxStale + 1
  BY TickTypes
<1>2. CASE ~Dead(a)
  BY <1>1, <1>2 DEF Ticks
<1>3. CASE Dead(a)
  <2>1. a \notin gossip /\ host[a] = "down" /\ a \notin Seeds
    BY <1>3 DEF Dead
  <2>2. PICK s \in Seeds : host[s] = "up"
    BY <1>3 DEF Dead
  <2>3. s \in poll
    BY <2>2 DEF poll
  <2>4. a \notin poll /\ a \notin named(poll)
    BY <2>1 DEF poll, named
  <2>5. a \in F
    BY <2>4 DEF Ticks, learnt
  <2>6. a \in members /\ a \notin forgotten(poll)
    BY <2>4, <2>5 DEF Folds
  <2>7. failsAfter(poll)[a] <= MaxStale
    <3>1. ~(failsAfter(poll)[a] > MaxStale)
      BY <2>1, <2>3, <2>4, <2>6 DEF forgotten
    <3>2. failsAfter(poll)[a] \in 0..MaxStale + 1
      BY <1>1 DEF failsAfter
    <3> QED
      BY <3>1, <3>2
  <2>8. failsAfter(poll)[a] = IF fails[a] > MaxStale THEN fails[a] ELSE fails[a] + 1
    BY <1>1, <2>4, <2>6 DEF failsAfter
  <2>9. fails'[a] = failsAfter(poll)[a]
    BY <1>1, <2>5 DEF Ticks
  <2>10. dead[a] <= fails[a] /\ dead[a] <= MaxStale
    BY <2>6 DEF DeadAreCounted
  <2>11. dead'[a] = dead[a] + 1
    <3>1. dead[a] \in 0..MaxStale + 1
      BY <1>1
    <3> QED
      BY <1>1, <1>3, <2>10, <3>1 DEF Ticks
  <2>12. dead[a] \in 0..MaxStale + 1 /\ fails[a] \in 0..MaxStale + 1
    BY <1>1
  <2> QED
    BY <2>7, <2>8, <2>9, <2>10, <2>11, <2>12
<1> QED
  BY <1>2, <1>3

LEMMA TickInv ==
    ASSUME MeshInv, tick(poll), UNCHANGED meshVars,
           pc' \in {"new", "again", "running", "failed"}
    PROVE  MeshInv'
<1>1. PICK F : Folds(F) /\ Ticks(F)
  BY TickFolds DEF MeshInv
<1>2. TypeOK'
  BY <1>1, TickTypes DEF MeshInv, TypeOK, meshVars
<1>3. Seeds \subseteq members'
  BY <1>1, TickKeepsSeeds
<1>4. StrangersAreBlank' /\ SnapIsBest'
  BY <1>1, TickBlanks
<1>5. FailsCoverSilence'
  BY <1>1, TickCoversSilence
<1>6. HeardHasMember'
  BY <1>1, TickHeard
<1>7. SettledIsMember' /\ SettledIsRead'
  BY <1>1, TickSettled
<1>8. DeadAreCounted'
  BY <1>1, TickCountsDead
<1> QED
  BY <1>2, <1>3, <1>4, <1>5, <1>6, <1>7, <1>8 DEF MeshInv

-----------------------------------------------------------------------------
LEMMA InitMesh == Init => MeshInv
<1> SUFFICES ASSUME Init PROVE MeshInv
  OBVIOUS
<1> USE SeedsAssumption, NoKeyAssumption, MaxStaleAssumption DEF Init
<1>1. TypeOK
  BY DEF TypeOK
<1>2. \A k \in Addrs : publishable(members, fails, inv, k) = {}
  BY DEF publishable
<1>3. SnapIsBest
  BY <1>2 DEF SnapIsBest, best
<1>4. StrangersAreBlank /\ FailsCoverSilence /\ HeardHasMember
  BY DEF StrangersAreBlank, FailsCoverSilence, HeardHasMember
<1>5. SettledIsMember /\ SettledIsRead /\ DeadAreCounted
  BY DEF SettledIsMember, SettledIsRead, DeadAreCounted
<1> QED
  BY <1>1, <1>3, <1>4, <1>5 DEF MeshInv

\* What the mesh does between ticks touches nothing the source keeps.
LEMMA MeshMoves ==
    ASSUME MeshInv, UNCHANGED sourceVars,
           host' \in [Addrs -> {"up", "down"}], keyOf' \in [Addrs -> Addrs],
           gossip' \in SUBSET Addrs
    PROVE  MeshInv'
<1> USE DEF sourceVars, history
<1>1. TypeOK'
  BY DEF MeshInv, TypeOK
<1>2. Seeds \subseteq members' /\ StrangersAreBlank'
  BY DEF MeshInv, StrangersAreBlank
<1>3. SnapIsBest'
  BY DEF MeshInv, SnapIsBest, best, publishable
<1>4. FailsCoverSilence' /\ HeardHasMember'
  BY DEF MeshInv, FailsCoverSilence, HeardHasMember
<1>5. SettledIsMember' /\ SettledIsRead' /\ DeadAreCounted'
  BY DEF MeshInv, SettledIsMember, SettledIsRead, DeadAreCounted
<1> QED
  BY <1>1, <1>2, <1>3, <1>4, <1>5 DEF MeshInv

LEMMA StepMesh == MeshInv /\ [Next]_vars => MeshInv'
<1> SUFFICES ASSUME MeshInv, [Next]_vars PROVE MeshInv'
  OBVIOUS
<1>1. CASE New
  <2>1. PICK refused \in BOOLEAN :
          pc' = IF (refused /\ poll # Seeds) \/ poll = {} THEN "failed"
                ELSE IF Cardinality(members') > Cardinality(Seeds) THEN "again"
                ELSE "running"
    BY <1>1 DEF New
  <2>2. pc' \in {"new", "again", "running", "failed"}
    BY <2>1
  <2> QED
    BY <1>1, <2>2, TickInv DEF New
<1>2. CASE NewAgain
  BY <1>2, TickInv DEF NewAgain
<1>3. CASE run
  BY <1>3, TickInv DEF run
<1>4. CASE Mesh
  <2> USE DEF MeshInv, TypeOK
  <2>1. ASSUME NEW a \in Addrs, GoesDown(a) PROVE MeshInv'
    BY <2>1, MeshMoves DEF GoesDown
  <2>2. ASSUME NEW a \in Addrs, NEW k \in Addrs, ComesUp(a, k) PROVE MeshInv'
    BY <2>2, MeshMoves DEF ComesUp
  <2>3. ASSUME NEW k \in Addrs, GossipChanges(k) PROVE MeshInv'
    BY <2>3, MeshMoves DEF GossipChanges
  <2> QED
    BY <1>4, <2>1, <2>2, <2>3 DEF Mesh
<1>5. CASE UNCHANGED vars
  BY <1>5, MeshMoves DEF vars, meshVars, MeshInv, TypeOK
<1> QED
  BY <1>1, <1>2, <1>3, <1>4, <1>5 DEF Next

-----------------------------------------------------------------------------
\* The members' counts cover the silence of the nodes they stand for, a node
\* just heard has a member, and every variable keeps its type, in whatever order
\* ticks, restarts under other keys and changes of the gossip come.
THEOREM MeshInvariant == Spec => []MeshInv
BY InitMesh, StepMesh, PTL DEF Spec

\* A node that answered in the last tick is listed with what it answered, and
\* one silent for more than MaxStale ticks is not listed, however its members
\* were folded, forgotten and learnt again.
THEOREM MeshListing == Spec => []ListingFollowsAnswers
<1>1. MeshInv => ListingFollowsAnswers
  <2> SUFFICES ASSUME MeshInv PROVE ListingFollowsAnswers
    OBVIOUS
  <2> USE DEF MeshInv, TypeOK
  <2>1. ASSUME NEW k \in Addrs, silent[k] = 0 PROVE snap[k] = 0
    <3>1. PICK a \in members : inv[a] = k /\ fails[a] = 0
      BY <2>1 DEF HeardHasMember
    <3>2. best(members, fails, inv, k) = 0
      BY <3>1, BestIsFresh
    <3> QED
      BY <3>2 DEF SnapIsBest
  <2>2. ASSUME NEW k \in Addrs, silent[k] > MaxStale PROVE snap[k] = -1
    <3>1. \A a \in members : inv[a] = k => ~(fails[a] <= MaxStale)
      <4> SUFFICES ASSUME NEW a \in members, inv[a] = k PROVE ~(fails[a] <= MaxStale)
        OBVIOUS
      <4>1. silent[k] <= fails[a]
        BY DEF FailsCoverSilence
      <4>2. silent[k] \in 0..MaxStale + 1 /\ fails[a] \in 0..MaxStale + 1
        OBVIOUS
      <4> QED
        BY <2>2, <4>1, <4>2, MaxStaleAssumption
    <3>2. publishable(members, fails, inv, k) = {}
      BY <3>1 DEF publishable
    <3>3. best(members, fails, inv, k) = -1
      BY <3>2, BestIsLeast
    <3> QED
      BY <3>3 DEF SnapIsBest
  <2> QED
    BY <2>1, <2>2 DEF ListingFollowsAnswers
<1> QED
  BY <1>1, MeshInvariant, PTL

\* A node that two ticks in a row found up under its own key and named is listed
\* with the rows of the second: from one reachable seed the mesh is learnt.
THEOREM MeshIsLearnt == Spec => []NamedIsFound
<1>1. MeshInv => NamedIsFound
  <2> SUFFICES ASSUME MeshInv, NEW k \in Addrs, steady[k] = 2 PROVE snap[k] = 0
    BY DEF NamedIsFound
  <2> USE DEF MeshInv, TypeOK
  <2>1. PICK a \in members : inv[a] = k /\ fails[a] = 0
    BY DEF SettledIsRead
  <2>2. best(members, fails, inv, k) = 0
    BY <2>1, BestIsFresh
  <2> QED
    BY <2>2 DEF SnapIsBest
<1> QED
  BY <1>1, MeshInvariant, PTL

\* The seeds are polled for ever, and any other address that stays down and
\* unnamed for more than MaxStale ticks is not.
THEOREM MeshMembers == Spec => []MembersFollowMesh
<1>1. MeshInv => MembersFollowMesh
  <2> SUFFICES ASSUME MeshInv, NEW a \in Addrs, dead[a] > MaxStale PROVE a \notin members
    BY DEF MembersFollowMesh, MeshInv
  <2>1. dead[a] \in 0..MaxStale + 1
    BY DEF MeshInv, TypeOK
  <2> QED
    BY <2>1, MaxStaleAssumption DEF MeshInv, DeadAreCounted
<1> QED
  BY <1>1, MeshInvariant, PTL

-----------------------------------------------------------------------------
(* Sums over finite sets.                                                  *)

\* Induction over a finite set: T are the subsets of S that something is true of.
LEMMA ShrinkFinite ==
    ASSUME NEW S, IsFiniteSet(S), NEW T,
           \A A \in SUBSET S : (\A x \in A : A \ {x} \in T) => A \in T
    PROVE  S \in T
<1> SUFFICES ASSUME S \notin T
             PROVE  FALSE
    OBVIOUS
<1> DEFINE Bad == {A \in SUBSET S : A \notin T}
           Sizes == {Cardinality(A) : A \in Bad}
<1>1. \A A \in SUBSET S : IsFiniteSet(A) /\ Cardinality(A) \in Nat
  BY FS_Subset, FS_CardinalityType
<1>2. PICK n \in Sizes : \A m \in Sizes : n <= m
  <2>1. Sizes \subseteq Nat /\ Sizes # {}
    BY <1>1
  <2> HIDE DEF Sizes
  <2> QED
    BY <2>1, SmallestOf
<1>3. PICK A \in Bad : n = Cardinality(A)
  OBVIOUS
<1>4. PICK x \in A : A \ {x} \notin T
  OBVIOUS
<1>5. Cardinality(A \ {x}) = n - 1 /\ n \in Nat
  BY <1>1, <1>3, FS_RemoveElement
<1> QED
  BY <1>2, <1>4, <1>5

\* FiniteSetsExt defines a sum as the solution g of an equation over the subsets.
Pick(s) == CHOOSE x \in s : TRUE
SumFrom(f, g, s) == IF s = {} THEN 0 ELSE f[Pick(s)] + g[s \ {Pick(s)}]
Sums(f, S, g) == g = [s \in SUBSET S |-> SumFrom(f, g, s)]

LEMMA SumIsChosen ==
    ASSUME NEW f, NEW S
    PROVE  SumFunctionOnSet(f, S) = (CHOOSE g : Sums(f, S, g))[S]
BY DEF SumFunctionOnSet, FoldFunctionOnSet, MapThenFoldSet, Sums, SumFrom, Pick

LEMMA PickIn == \A s : s # {} => Pick(s) \in s
BY DEF Pick

\* The equation that defines a sum has a solution.
LEMMA SumsExist ==
    ASSUME NEW f, NEW S, IsFiniteSet(S)
    PROVE  \E g : Sums(f, S, g)
<1> DEFINE Upto(n) == {s \in SUBSET S : Cardinality(s) <= n}
           Solved(n) == \E g : g = [s \in Upto(n) |-> SumFrom(f, g, s)]
           Bad == {n \in Nat : ~Solved(n)}
<1>1. \A s \in SUBSET S : IsFiniteSet(s) /\ Cardinality(s) \in Nat
  BY FS_Subset, FS_CardinalityType
<1>2. Solved(0)
  <2>1. [s \in Upto(0) |-> 0] = [s \in Upto(0) |-> SumFrom(f, [r \in Upto(0) |-> 0], s)]
    BY <1>1, FS_EmptySet DEF SumFrom
  <2> QED
    BY <2>1
<1>3. ASSUME NEW n \in Nat, Solved(n)
      PROVE  Solved(n + 1)
  <2>1. PICK g : g = [s \in Upto(n) |-> SumFrom(f, g, s)]
    BY <1>3
  <2> DEFINE h == [s \in Upto(n + 1) |-> SumFrom(f, g, s)]
  <2>2. ASSUME NEW s \in Upto(n + 1)
        PROVE  SumFrom(f, g, s) = SumFrom(f, h, s)
    <3>1. CASE s = {}
      BY <3>1 DEF SumFrom
    <3>2. CASE s # {}
      <4> DEFINE r == s \ {Pick(s)}
      <4>1. Pick(s) \in s
        BY <3>2, PickIn
      <4>2. r \in Upto(n) /\ r \in Upto(n + 1)
        BY <1>1, <4>1, FS_RemoveElement
      <4>3. g[r] = h[r]
        BY <2>1, <4>2
      <4> QED
        BY <4>3 DEF SumFrom
    <3> QED
      BY <3>1, <3>2
  <2>3. h = [s \in Upto(n + 1) |-> SumFrom(f, h, s)]
    <3> HIDE DEF Upto
    <3> QED
      BY <2>2
  <2> QED
    BY <2>3
<1>4. Bad = {}
  <2> SUFFICES ASSUME Bad # {}
               PROVE  FALSE
    OBVIOUS
  <2> HIDE DEF Solved
  <2>1. Bad \subseteq Nat
    OBVIOUS
  <2>2. PICK n \in Bad : \A m \in Bad : n <= m
    <3> HIDE DEF Bad
    <3> QED
      BY <2>1, SmallestOf
  <2>3. n \in Nat /\ n # 0 /\ n - 1 \in Nat
    BY <1>2
  <2>4. Solved(n - 1)
    BY <2>2, <2>3
  <2> QED
    BY <1>3, <2>3, <2>4
<1>5. Upto(Cardinality(S)) = SUBSET S
  BY FS_Subset
<1>6. Solved(Cardinality(S))
  <2> HIDE DEF Solved
  <2> QED
    BY <1>1, <1>4
<1> QED
  BY <1>5, <1>6 DEF Sums

\* It has one solution on the subsets of both of two sets.
LEMMA SumsAgree ==
    ASSUME NEW f, NEW S, NEW U, IsFiniteSet(S), S \subseteq U,
           NEW g, Sums(f, S, g), NEW h, Sums(f, U, h)
    PROVE  g[S] = h[S]
<1> DEFINE Bad == {s \in SUBSET S : g[s] # h[s]}
           Sizes == {Cardinality(s) : s \in Bad}
<1> SUFFICES ASSUME Bad # {}
             PROVE  FALSE
    OBVIOUS
<1>1. \A s \in SUBSET S : IsFiniteSet(s) /\ Cardinality(s) \in Nat
  BY FS_Subset, FS_CardinalityType
<1>2. PICK n \in Sizes : \A m \in Sizes : n <= m
  <2>1. Sizes \subseteq Nat /\ Sizes # {}
    BY <1>1
  <2> HIDE DEF Sizes
  <2> QED
    BY <2>1, SmallestOf
<1>3. PICK s \in Bad : n = Cardinality(s)
  OBVIOUS
<1>4. g[s] = SumFrom(f, g, s) /\ h[s] = SumFrom(f, h, s)
  BY DEF Sums
<1>5. s # {}
  BY <1>4 DEF SumFrom
<1> DEFINE r == s \ {Pick(s)}
<1>6. Cardinality(r) = n - 1 /\ n \in Nat /\ r \in SUBSET S
  BY <1>1, <1>3, <1>5, PickIn, FS_RemoveElement
<1>7. g[r] = h[r]
  BY <1>2, <1>6
<1> QED
  BY <1>4, <1>7 DEF SumFrom

\* The equations of a sum over a finite set.
LEMMA SumEquation ==
    ASSUME NEW f, NEW S, IsFiniteSet(S)
    PROVE  SumFunctionOnSet(f, S) =
               IF S = {} THEN 0
               ELSE f[Pick(S)] + SumFunctionOnSet(f, S \ {Pick(S)})
<1> DEFINE g == CHOOSE x : Sums(f, S, x)
           R == S \ {Pick(S)}
           h == CHOOSE x : Sums(f, R, x)
<1>1. Sums(f, S, g)
  BY SumsExist
<1>2. Sums(f, R, h) /\ IsFiniteSet(R)
  BY SumsExist, FS_RemoveElement
<1>3. SumFunctionOnSet(f, S) = g[S] /\ SumFunctionOnSet(f, R) = h[R]
  BY SumIsChosen
<1>4. g[S] = SumFrom(f, g, S)
  BY <1>1 DEF Sums
<1>5. g[R] = h[R]
  <2> HIDE DEF g, h, R
  <2>1. R \subseteq S
    BY DEF R
  <2> QED
    BY <1>1, <1>2, <2>1, SumsAgree
<1> QED
  BY <1>3, <1>4, <1>5 DEF SumFrom

\* The sum of f over S.
Total(f, S) == SumFunctionOnSet(f, S)

\* No term.
LEMMA SumEmpty == ASSUME NEW f PROVE Total(f, {}) = 0
BY SumEquation, FS_EmptySet DEF Total

\* A sum of integers is one.
LEMMA SumInt ==
    ASSUME NEW f, NEW S, IsFiniteSet(S), \A x \in S : f[x] \in Int
    PROVE  Total(f, S) \in Int
<1> DEFINE T == {A \in SUBSET S : Total(f, A) \in Int}
<1>1. ASSUME NEW A \in SUBSET S, \A x \in A : A \ {x} \in T
      PROVE  A \in T
  <2>1. IsFiniteSet(A)
    BY FS_Subset
  <2>2. CASE A = {}
    BY <2>2, SumEmpty
  <2>3. CASE A # {}
    <3>1. Pick(A) \in A /\ Total(f, A \ {Pick(A)}) \in Int
      BY <1>1, <2>3, PickIn
    <3>2. Total(f, A) = f[Pick(A)] + Total(f, A \ {Pick(A)})
      BY <2>1, <2>3, SumEquation DEF Total
    <3> QED
      BY <3>1, <3>2
  <2> QED
    BY <2>2, <2>3
<1>2. S \in T
  <2> HIDE DEF T
  <2> QED
    BY <1>1, ShrinkFinite
<1> QED
  BY <1>2

\* Any term of a sum of integers can be taken first.
LEMMA SumRemove ==
    ASSUME NEW f, NEW S, IsFiniteSet(S), \A x \in S : f[x] \in Int
    PROVE  \A x \in S : Total(f, S) = f[x] + Total(f, S \ {x})
<1> DEFINE Good(A) == \A x \in A : Total(f, A) = f[x] + Total(f, A \ {x})
           T == {A \in SUBSET S : Good(A)}
<1>1. ASSUME NEW A \in SUBSET S, \A x \in A : A \ {x} \in T, NEW x \in A
      PROVE  Total(f, A) = f[x] + Total(f, A \ {x})
  <2> DEFINE p == Pick(A)
  <2>1. p \in A
    BY PickIn
  <2>2. Total(f, A) = f[p] + Total(f, A \ {p})
    BY FS_Subset, SumEquation DEF Total
  <2> HIDE DEF p
  <2>3. CASE x = p
    BY <2>2, <2>3
  <2>4. CASE x # p
    <3> DEFINE B == (A \ {p}) \ {x}
    <3>1. B = (A \ {x}) \ {p} /\ p \in A \ {x} /\ x \in A \ {p} /\ B \in SUBSET S
      BY <2>1, <2>4
    <3>2. Total(f, A \ {x}) = f[p] + Total(f, B) /\ Total(f, A \ {p}) = f[x] + Total(f, B)
      BY <1>1, <2>1, <3>1
    <3>3. Total(f, B) \in Int
      BY <3>1, FS_Subset, SumInt
    <3> HIDE DEF B
    <3> QED
      BY <2>1, <2>2, <3>2, <3>3
  <2> QED
    BY <2>3, <2>4
<1>2. S \in T
  <2>1. \A A \in SUBSET S : (\A x \in A : A \ {x} \in T) => A \in T
    BY <1>1
  <2> HIDE DEF T
  <2> QED
    BY <2>1, ShrinkFinite
<1> QED
  BY <1>2

\* Terms that are a multiple of one sum's and another's add up to that.
LEMMA SumLinear ==
    ASSUME NEW S, IsFiniteSet(S), NEW c \in Int, NEW f, NEW g, NEW h,
           \A x \in S : f[x] \in Int /\ g[x] \in Int /\ h[x] = c * f[x] + g[x]
    PROVE  Total(h, S) = c * Total(f, S) + Total(g, S)
<1> DEFINE T == {A \in SUBSET S : Total(h, A) = c * Total(f, A) + Total(g, A)}
<1>1. ASSUME NEW A \in SUBSET S, \A x \in A : A \ {x} \in T
      PROVE  A \in T
  <2>1. CASE A = {}
    BY <2>1, SumEmpty
  <2>2. CASE A # {}
    <3>1. PICK x \in A : TRUE
      BY <2>2
    <3>2. IsFiniteSet(A) /\ IsFiniteSet(A \ {x}) /\ A \ {x} \in T
      BY <1>1, FS_Subset, FS_RemoveElement
    <3>3. \A y \in A : h[y] \in Int
      OBVIOUS
    <3>4. /\ Total(f, A) = f[x] + Total(f, A \ {x})
          /\ Total(g, A) = g[x] + Total(g, A \ {x})
          /\ Total(h, A) = h[x] + Total(h, A \ {x})
      BY <3>2, <3>3, SumRemove
    <3>5. PICK a \in Int, b \in Int, d \in Int, e \in Int :
              /\ a = f[x] /\ b = g[x] /\ d = Total(f, A \ {x}) /\ e = Total(g, A \ {x})
      BY <3>2, SumInt
    <3>6. c * (a + d) + (b + e) = (c * a + b) + (c * d + e)
      OBVIOUS
    <3> QED
      BY <3>2, <3>4, <3>5, <3>6
  <2> QED
    BY <2>1, <2>2
<1>2. S \in T
  <2> HIDE DEF T
  <2> QED
    BY <1>1, ShrinkFinite
<1> QED
  BY <1>2

\* Two sums added term by term.
LEMMA SumPlus ==
    ASSUME NEW S, IsFiniteSet(S), NEW f, NEW g, NEW h,
           \A x \in S : f[x] \in Int /\ g[x] \in Int /\ h[x] = f[x] + g[x]
    PROVE  Total(h, S) = Total(f, S) + Total(g, S)
<1>1. PICK c \in Int : c = 1
  OBVIOUS
<1>2. \A x \in S : f[x] \in Int /\ g[x] \in Int /\ h[x] = c * f[x] + g[x]
  BY <1>1
<1>3. Total(h, S) = c * Total(f, S) + Total(g, S)
  BY <1>2, SumLinear
<1>4. Total(f, S) \in Int
  BY SumInt
<1> QED
  BY <1>1, <1>3, <1>4

\* Sums compare as their terms do.
LEMMA SumMonotonic ==
    ASSUME NEW S, IsFiniteSet(S), NEW f, NEW g,
           \A x \in S : f[x] \in Int /\ g[x] \in Int /\ f[x] <= g[x]
    PROVE  Total(f, S) <= Total(g, S)
<1> DEFINE T == {A \in SUBSET S : Total(f, A) <= Total(g, A)}
<1>1. ASSUME NEW A \in SUBSET S, \A x \in A : A \ {x} \in T
      PROVE  A \in T
  <2>1. CASE A = {}
    BY <2>1, SumEmpty
  <2>2. CASE A # {}
    <3>1. PICK x \in A : TRUE
      BY <2>2
    <3>2. IsFiniteSet(A) /\ IsFiniteSet(A \ {x}) /\ A \ {x} \in T
      BY <1>1, FS_Subset, FS_RemoveElement
    <3>3. /\ Total(f, A) = f[x] + Total(f, A \ {x})
          /\ Total(g, A) = g[x] + Total(g, A \ {x})
      BY <3>2, SumRemove
    <3>4. Total(f, A \ {x}) \in Int /\ Total(g, A \ {x}) \in Int
      BY <3>2, SumInt
    <3> QED
      BY <3>2, <3>3, <3>4
  <2> QED
    BY <2>1, <2>2
<1>2. S \in T
  <2> HIDE DEF T
  <2> QED
    BY <1>1, ShrinkFinite
<1> QED
  BY <1>2

\* A sum depends on nothing but its terms.
LEMMA SumSame ==
    ASSUME NEW S, IsFiniteSet(S), NEW f, NEW g,
           \A x \in S : f[x] \in Int /\ f[x] = g[x]
    PROVE  Total(f, S) = Total(g, S)
<1>1. Total(f, S) <= Total(g, S) /\ Total(g, S) <= Total(f, S)
  BY SumMonotonic
<1>2. Total(f, S) \in Int /\ Total(g, S) \in Int
  BY SumInt
<1> QED
  BY <1>1, <1>2

\* A sum that counts the members of R.
LEMMA SumCounts ==
    ASSUME NEW S, IsFiniteSet(S), NEW R, NEW f,
           \A x \in S : f[x] = IF x \in R THEN 1 ELSE 0
    PROVE  Total(f, S) = Cardinality(S \cap R)
<1> DEFINE T == {A \in SUBSET S : Total(f, A) = Cardinality(A \cap R)}
<1>1. ASSUME NEW A \in SUBSET S, \A x \in A : A \ {x} \in T
      PROVE  A \in T
  <2>1. CASE A = {}
    BY <2>1, SumEmpty, FS_EmptySet, {} \cap R = {}
  <2>2. CASE A # {}
    <3>1. PICK x \in A : TRUE
      BY <2>2
    <3>2. IsFiniteSet(A) /\ A \ {x} \in T
      BY <1>1, FS_Subset
    <3>3. Total(f, A) = f[x] + Cardinality((A \ {x}) \cap R)
      BY <3>2, SumRemove
    <3>4. IsFiniteSet(A \cap R) /\ Cardinality(A \cap R) \in Nat
      BY <3>2, FS_Intersection, FS_CardinalityType
    <3>5. (A \ {x}) \cap R = (A \cap R) \ {x}
      OBVIOUS
    <3>6. Cardinality((A \cap R) \ {x}) =
              IF x \in A \cap R THEN Cardinality(A \cap R) - 1 ELSE Cardinality(A \cap R)
      BY <3>4, FS_RemoveElement
    <3>7. f[x] = IF x \in A \cap R THEN 1 ELSE 0
      OBVIOUS
    <3>8. Total(f, A) = Cardinality(A \cap R)
      <4> DEFINE m == Cardinality(A \cap R)
      <4> HIDE DEF m
      <4> QED
        BY <3>3, <3>4, <3>5, <3>6, <3>7 DEF m
    <3> QED
      BY <3>8
  <2> QED
    BY <2>1, <2>2
<1>2. S \in T
  <2> HIDE DEF T
  <2> QED
    BY <1>1, ShrinkFinite
<1> QED
  BY <1>2

\* Terms that are all the same.
LEMMA SumConstant ==
    ASSUME NEW S, IsFiniteSet(S), NEW c \in Int, NEW f, \A x \in S : f[x] = c
    PROVE  Total(f, S) = c * Cardinality(S)
<1> DEFINE one == [x \in S |-> 1]
           nil == [x \in S |-> 0]
<1>1. Total(one, S) = Cardinality(S) /\ Total(nil, S) = 0
  <2>1. Total(one, S) = Cardinality(S \cap S)
    BY SumCounts
  <2>2. Total(nil, S) = Cardinality(S \cap {})
    BY SumCounts
  <2> QED
    BY <2>1, <2>2, FS_EmptySet, S \cap S = S, S \cap {} = {}
<1>2. Total(f, S) = c * Total(one, S) + Total(nil, S)
  BY SumLinear
<1>3. Cardinality(S) \in Nat
  BY FS_CardinalityType
<1> QED
  BY <1>1, <1>2, <1>3

\* Terms that are all zero.
LEMMA SumZero ==
    ASSUME NEW S, IsFiniteSet(S), NEW f, \A x \in S : f[x] = 0
    PROVE  Total(f, S) = 0
<1>1. PICK c \in Int : c = 0
  OBVIOUS
<1>2. Total(f, S) = c * Cardinality(S)
  BY <1>1, SumConstant
<1>3. Cardinality(S) \in Nat
  BY FS_CardinalityType
<1> QED
  BY <1>1, <1>2, <1>3

\* Every term of a sum of naturals is within it.
LEMMA SumNat ==
    ASSUME NEW S, IsFiniteSet(S), NEW f, \A x \in S : f[x] \in Nat
    PROVE  Total(f, S) \in Nat /\ \A x \in S : f[x] <= Total(f, S)
<1> DEFINE nil == [x \in S |-> 0]
<1>1. ASSUME NEW A \in SUBSET S
      PROVE  Total(f, A) \in Nat
  <2>1. IsFiniteSet(A)
    BY FS_Subset
  <2>2. Total(nil, A) = 0 * Cardinality(A) /\ Cardinality(A) \in Nat
    BY <2>1, SumConstant, FS_CardinalityType
  <2>3. Total(nil, A) <= Total(f, A) /\ Total(f, A) \in Int
    BY <2>1, SumMonotonic, SumInt
  <2> QED
    BY <2>2, <2>3
<1>2. \A x \in S : Total(f, S) = f[x] + Total(f, S \ {x})
  BY SumRemove
<1>3. \A x \in S : Total(f, S \ {x}) \in Nat
  BY <1>1
<1>4. ASSUME NEW x \in S
      PROVE  f[x] <= Total(f, S)
  <2>1. PICK a \in Nat, b \in Nat : a = f[x] /\ b = Total(f, S \ {x})
    BY <1>3
  <2> QED
    BY <1>2, <2>1
<1> QED
  BY <1>1, <1>4

\* A table adds up to the same by rows and by columns.
LEMMA SumSwap ==
    ASSUME NEW S, IsFiniteSet(S), NEW U, IsFiniteSet(U), NEW d,
           \A x \in S, y \in U : d[x][y] \in Int
    PROVE  Total([x \in S |-> Total(d[x], U)], S)
             = Total([y \in U |-> Total([x \in S |-> d[x][y]], S)], U)
<1> DEFINE row == [x \in S |-> Total(d[x], U)]
           column(y) == [x \in S |-> d[x][y]]
           columns(A) == [y \in U |-> Total(column(y), A)]
           T == {A \in SUBSET S : Total(row, A) = Total(columns(A), U)}
<1>1. ASSUME NEW A \in SUBSET S, \A x \in A : A \ {x} \in T
      PROVE  A \in T
  <2>1. CASE A = {}
    <3>1. \A y \in U : columns(A)[y] = 0
      BY <2>1, SumEmpty
    <3>2. Total(columns(A), U) = 0 * Cardinality(U) /\ Cardinality(U) \in Nat
      <4> HIDE DEF columns
      <4> QED
        BY <3>1, SumConstant, FS_CardinalityType
    <3>3. Total(row, A) = 0
      BY <2>1, SumEmpty
    <3> QED
      BY <3>2, <3>3
  <2>2. CASE A # {}
    <3>1. PICK x \in A : TRUE
      BY <2>2
    <3> DEFINE B == A \ {x}
    <3>2. IsFiniteSet(A) /\ IsFiniteSet(B) /\ B \in T
      BY <1>1, FS_Subset, FS_RemoveElement
    <3>3. \A z \in S : row[z] \in Int
      BY SumInt
    <3>4. Total(row, A) = Total(d[x], U) + Total(row, B)
      <4> HIDE DEF row, B
      <4>1. Total(row, A) = row[x] + Total(row, A \ {x})
        BY <3>2, <3>3, SumRemove
      <4> QED
        BY <4>1 DEF row, B
    <3>5. ASSUME NEW y \in U
          PROVE  /\ columns(B)[y] \in Int
                 /\ columns(A)[y] = d[x][y] + columns(B)[y]
      <4>1. \A z \in A : column(y)[z] \in Int
        OBVIOUS
      <4>2. Total(column(y), A) = column(y)[x] + Total(column(y), B)
        <5> HIDE DEF column
        <5> QED
          BY <3>2, <4>1, SumRemove
      <4>3. Total(column(y), B) \in Int
        <5> HIDE DEF column
        <5> QED
          BY <3>2, <4>1, SumInt
      <4> QED
        BY <4>2, <4>3
    <3>6. Total(columns(A), U) = Total(d[x], U) + Total(columns(B), U)
      <4>1. PICK f, g, h : f = d[x] /\ g = columns(B) /\ h = columns(A)
        OBVIOUS
      <4>2. \A y \in U : f[y] \in Int /\ g[y] \in Int /\ h[y] = f[y] + g[y]
        <5> HIDE DEF columns, B
        <5> QED
          BY <3>5, <4>1
      <4>3. Total(h, U) = Total(f, U) + Total(g, U)
        BY <4>2, SumPlus
      <4> QED
        BY <4>1, <4>3
    <3>7. Total(d[x], U) \in Int
      BY SumInt
    <3> QED
      BY <3>2, <3>4, <3>6, <3>7
  <2> QED
    BY <2>1, <2>2
<1>2. S \in T
  <2> HIDE DEF T
  <2> QED
    BY <1>1, ShrinkFinite
<1> QED
  BY <1>2

\* How many members of S come before x.
Rank(S, x) == Cardinality({y \in S : y < x})

\* A bounded set of numbers has a largest member.
LEMMA LargestOf ==
    ASSUME NEW n \in Nat, NEW S \in SUBSET (0..n), S # {}
    PROVE  \E x \in S : \A y \in S : y <= x
<1> DEFINE Above == {u \in Nat : \A y \in S : y <= u}
<1>0. \A y \in S : y \in Nat /\ y <= n
  OBVIOUS
<1>1. n \in Above
  BY <1>0
<1>2. PICK u \in Above : \A v \in Above : u <= v
  <2> HIDE DEF Above
  <2>1. Above \subseteq Nat
    BY DEF Above
  <2> QED
    BY <1>1, <2>1, SmallestOf
<1>3. CASE u \in S
  BY <1>3
<1>4. CASE u \notin S
  <2>1. u \in Nat /\ \A y \in S : y <= u /\ y # u
    BY <1>4
  <2>2. \A y \in S : y <= u - 1
    BY <1>0, <2>1
  <2>3. PICK z \in S : z \in Nat /\ z <= u - 1
    BY <1>0, <2>2
  <2>4. u - 1 \in Above
    BY <2>1, <2>2, <2>3
  <2> QED
    BY <1>2, <2>1, <2>4
<1> QED
  BY <1>3, <1>4

\* The first m members of a set of numbers are m.
LEMMA FirstAreSo ==
    ASSUME NEW n \in Nat, NEW S \in SUBSET (0..n), NEW m \in 0..Cardinality(S)
    PROVE  Cardinality({x \in S : Rank(S, x) < m}) = m
<1> DEFINE T == {x \in S : Rank(S, x) < m}
           Before(x) == {y \in S : y < x}
<1>0. \A x \in S : x \in Nat
  OBVIOUS
<1>1. IsFiniteSet(S) /\ IsFiniteSet(T) /\ Cardinality(T) \in Nat /\ Cardinality(S) \in Nat
  <2>1. IsFiniteSet(S)
    <3>1. IsFiniteSet(0..n)
      BY 0 \in Int, n \in Int, FS_Interval
    <3> QED
      BY <3>1, FS_Subset
  <2>2. T \in SUBSET S
    OBVIOUS
  <2> HIDE DEF T
  <2> QED
    BY <2>1, <2>2, FS_Subset, FS_CardinalityType
<1>2. \A x \in S : IsFiniteSet(Before(x)) /\ Rank(S, x) = Cardinality(Before(x))
                   /\ Rank(S, x) \in Nat
  BY <1>1, FS_Subset, FS_CardinalityType DEF Rank
<1>3. \A x \in S, y \in S : y < x => Rank(S, y) <= Rank(S, x)
  <2> SUFFICES ASSUME NEW x \in S, NEW y \in S, y < x
               PROVE  Rank(S, y) <= Rank(S, x)
    OBVIOUS
  <2>1. Before(y) \in SUBSET Before(x)
    <3> SUFFICES ASSUME NEW z \in S, z < y
                 PROVE  z < x
      OBVIOUS
    <3>1. x \in Nat /\ y \in Nat /\ z \in Nat
      BY <1>0
    <3> QED
      BY <3>1
  <2>2. Cardinality(Before(y)) <= Cardinality(Before(x))
    <3> HIDE DEF Before
    <3> QED
      BY <1>2, <2>1, FS_Subset
  <2> QED
    BY <1>2, <2>2
<1>4. m <= Cardinality(T)
  <2>1. CASE T = S
    BY <2>1, <1>1
  <2>2. CASE T # S
    <3>1. PICK x \in S \ T : \A y \in S \ T : x <= y
      <4> HIDE DEF T
      <4>1. S \ T \subseteq Nat /\ S \ T # {}
        BY <1>0, <2>2 DEF T
      <4> QED
        BY <4>1, SmallestOf
    <3>2. Before(x) \subseteq T
      <4> SUFFICES ASSUME NEW y \in S, y < x, y \notin T
                   PROVE  FALSE
        OBVIOUS
      <4>1. x <= y
        BY <3>1
      <4> QED
        BY <1>0, <4>1
    <3>3. Cardinality(Before(x)) <= Cardinality(T)
      <4> HIDE DEF T, Before
      <4> QED
        BY <1>1, <3>2, FS_Subset
    <3>4. m <= Rank(S, x)
      <4>1. Rank(S, x) \in Nat /\ m \in Nat /\ ~(Rank(S, x) < m)
        <5>1. x \in S /\ x \notin T
          BY <3>1
        <5>2. Rank(S, x) \in Nat
          BY <1>2, <5>1
        <5> QED
          BY <1>1, <5>1, <5>2
      <4> QED
        BY <4>1
    <3> QED
      BY <1>1, <1>2, <3>3, <3>4
  <2> QED
    BY <2>1, <2>2
<1>5. Cardinality(T) <= m
  <2>1. CASE T = {}
    BY <2>1, FS_EmptySet
  <2>2. CASE T # {}
    <3>1. PICK x \in T : \A y \in T : y <= x
      <4> HIDE DEF T
      <4>1. T \in SUBSET (0..n)
        BY DEF T
      <4> QED
        BY <2>2, <4>1, LargestOf
    <3>2. T \ {x} \subseteq Before(x)
      <4> SUFFICES ASSUME NEW y \in T, y # x
                   PROVE  y \in S /\ y < x
        OBVIOUS
      <4>1. x \in Nat /\ y \in Nat /\ y \in S
        BY <1>0
      <4> QED
        BY <3>1, <4>1
    <3>3. Cardinality(T \ {x}) <= Cardinality(Before(x))
      <4> HIDE DEF T, Before
      <4>1. x \in S
        BY DEF T
      <4> QED
        BY <1>2, <3>2, <4>1, FS_Subset
    <3>4. Cardinality(T \ {x}) = Cardinality(T) - 1
      <4> HIDE DEF T
      <4> QED
        BY <1>1, <3>1, FS_RemoveElement
    <3> QED
      BY <1>1, <1>2, <3>3, <3>4
  <2> QED
    BY <2>1, <2>2
<1> QED
  BY <1>1, <1>4, <1>5

-----------------------------------------------------------------------------
(* The arithmetic of the warm pools.                                       *)

LEMMA DivMod ==
    ASSUME NEW a \in Nat, NEW b \in Nat \ {0}
    PROVE  /\ a \div b \in Nat
           /\ a % b \in 0..b - 1
           /\ a = b * (a \div b) + (a % b)
OBVIOUS

\* The remainder a division by W leaves over c shares is fewer than c.
LEMMA LeftoverBound ==
    ASSUME NEW W \in Nat \ {0}, NEW c \in Nat, NEW left \in Int, NEW e \in Int,
           0 <= e, e <= (W - 1) * c, W * left = e
    PROVE  0 <= left /\ left <= c
<1>1. 0 <= left
  <2> SUFFICES ASSUME left <= -1
               PROVE  FALSE
    OBVIOUS
  <2>1. W * left <= W * (-1)
    OBVIOUS
  <2> QED
    BY <2>1
<1>2. left <= c
  <2> SUFFICES ASSUME left >= c + 1
               PROVE  FALSE
    OBVIOUS
  <2>1. W * left >= W * (c + 1)
    OBVIOUS
  <2>2. W * (c + 1) = (W - 1) * c + c + W
    OBVIOUS
  <2> QED
    BY <2>1, <2>2
<1> QED
  BY <1>1, <1>2

\* distribute, for any replicas and any nodes: the nodes are given between them
\* exactly the pool's replicas, none for fewer than zero, no two of them apart by
\* more than one.
THEOREM DistributeIsEven ==
    ASSUME NEW N \in Nat, NEW ns \in SUBSET (0..N), ns # {}, NEW r \in Int
    PROVE  /\ \A n \in ns : /\ distribute(r, ns)[n] \in Nat
                            /\ distribute(r, ns)[n] <= poolTarget(r)
           /\ \A m, n \in ns : distribute(r, ns)[m] - distribute(r, ns)[n] <= 1
           /\ Total(distribute(r, ns), ns) = poolTarget(r)
<1> DEFINE c == Cardinality(ns)
           t == poolTarget(r)
           first == {x \in ns : Rank(ns, x) < t % c}
           one == [n \in ns |-> IF n \in first THEN 1 ELSE 0]
           base == [n \in ns |-> t \div c]
           d == distribute(r, ns)
<1>1. IsFiniteSet(ns)
  <2>1. IsFiniteSet(0..N)
    BY 0 \in Int, N \in Int, FS_Interval
  <2> QED
    BY <2>1, FS_Subset
<1>2. c \in Nat \ {0} /\ t \in Nat
  BY <1>1, FS_CardinalityType, FS_EmptySet DEF poolTarget
<1>3. t \div c \in Nat /\ t % c \in 0..c - 1 /\ t = c * (t \div c) + (t % c)
  <2> HIDE DEF c, t
  <2> QED
    BY <1>2, DivMod
<1>4. \A n \in ns : d[n] = t \div c + one[n]
  BY DEF distribute, Rank
<1>5. Total(one, ns) = t % c
  <2>1. Total(one, ns) = Cardinality(ns \cap first)
    <3> HIDE DEF first
    <3> QED
      BY <1>1, SumCounts
  <2>2. Cardinality(first) = t % c
    <3>1. PICK m \in 0..Cardinality(ns) : m = t % c
      <4> HIDE DEF t
      <4> QED
        BY <1>2, <1>3
    <3>2. Cardinality({x \in ns : Rank(ns, x) < m}) = m
      BY FirstAreSo
    <3> QED
      BY <3>1, <3>2
  <2>3. ns \cap first = first
    OBVIOUS
  <2> QED
    BY <2>1, <2>2, <2>3
<1>6. Total(base, ns) = (t \div c) * c
  <2> DEFINE q == t \div c
  <2>1. q \in Int /\ \A n \in ns : base[n] = q
    BY <1>3
  <2> HIDE DEF q, base
  <2> QED
    BY <1>1, <2>1, SumConstant DEF q
<1>7. Total(d, ns) = Total(one, ns) + Total(base, ns)
  <2>1. \A n \in ns : one[n] \in Int /\ base[n] \in Int /\ d[n] = one[n] + base[n]
    BY <1>3, <1>4
  <2> HIDE DEF one, base, d
  <2> QED
    BY <1>1, <2>1, SumPlus
<1>8. Total(d, ns) = t
  <2> HIDE DEF c, t, one, base, d
  <2>1. PICK q \in Nat, e \in Nat : q = t \div c /\ e = t % c
    BY <1>3, <1>2
  <2> QED
    BY <1>2, <1>3, <1>5, <1>6, <1>7, <2>1
<1>9. \A n \in ns : d[n] \in Nat /\ one[n] \in {0, 1}
  <2> HIDE DEF t, c
  <2> QED
    BY <1>3, <1>4
<1>10. \A n \in ns : d[n] <= Total(d, ns)
  <2> HIDE DEF d
  <2> QED
    BY <1>1, <1>9, SumNat
<1>11. \A m, n \in ns : d[m] - d[n] <= 1
  <2> HIDE DEF d, t, c, one
  <2> QED
    BY <1>3, <1>4, <1>9
<1> QED
  BY <1>8, <1>9, <1>10, <1>11

\* A sum whose terms other than those of R are zero and whose terms of R are m.
LEMMA SumOfSome ==
    ASSUME NEW S, IsFiniteSet(S), NEW R \in SUBSET S, NEW m \in Int, NEW f,
           \A x \in S : f[x] = IF x \in R THEN m ELSE 0
    PROVE  Total(f, S) = m * Cardinality(R)
<1> DEFINE one == [x \in S |-> IF x \in R THEN 1 ELSE 0]
           nil == [x \in S |-> 0]
<1>1. Total(one, S) = Cardinality(S \cap R)
  BY SumCounts
<1>2. Total(nil, S) = 0
  BY SumZero
<1>3. \A x \in S : one[x] \in Int /\ nil[x] \in Int /\ f[x] = m * one[x] + nil[x]
  OBVIOUS
<1>4. Total(f, S) = m * Total(one, S) + Total(nil, S)
  <2> HIDE DEF one, nil
  <2> QED
    BY <1>3, SumLinear
<1>5. Cardinality(R) \in Nat
  BY FS_Subset, FS_CardinalityType
<1>6. Total(one, S) = Cardinality(R)
  BY <1>1, S \cap R = R
<1> QED
  <2> HIDE DEF one, nil
  <2>1. PICK x \in Int : x = Cardinality(R)
    BY <1>5
  <2> QED
    BY <1>2, <1>4, <1>6, <2>1

\* What the proportional shares of m rounded down leave over.
LEMMA LeftoverIsFew ==
    ASSUME NEW P, NEW w, NEW m, NEW W, NEW s,
           IsFiniteSet(P),
           \A p \in P : w[p] \in Nat,
           m \in Nat,
           W = Total(w, P),
           W > 0,
           \A p \in P : s[p] = (m * w[p]) \div W
    PROVE  /\ m - Total(s, P) \in 0..Cardinality(P)
           /\ \A p \in P : /\ s[p] \in Nat
                           /\ W * s[p] <= m * w[p]
                           /\ m * w[p] < W * s[p] + W
<1> DEFINE e == [p \in P |-> (m * w[p]) % W]
           top == [p \in P |-> W - 1]
           mw == [p \in P |-> m * w[p]]
           nil == [p \in P |-> 0]
           c == Cardinality(P)
<1>1. W \in Nat \ {0} /\ c \in Nat
  BY SumNat, FS_CardinalityType
<1>2. ASSUME NEW p \in P
      PROVE  /\ m * w[p] \in Nat /\ s[p] \in Nat /\ e[p] \in 0..W - 1
             /\ mw[p] = W * s[p] + e[p]
  <2>1. PICK a \in Nat : a = m * w[p]
    OBVIOUS
  <2>2. a \div W \in Nat /\ a % W \in 0..W - 1 /\ a = W * (a \div W) + (a % W)
    BY <1>1, DivMod
  <2> QED
    BY <2>1, <2>2
<1>3. Total(mw, P) = W * Total(s, P) + Total(e, P)
  <2>1. \A p \in P : s[p] \in Int /\ e[p] \in Int /\ mw[p] = W * s[p] + e[p]
    BY <1>1, <1>2
  <2> HIDE DEF mw, e
  <2> QED
    BY <1>1, <2>1, SumLinear
<1>4. Total(mw, P) = m * W
  <2>1. \A p \in P : w[p] \in Int /\ nil[p] \in Int /\ mw[p] = m * w[p] + nil[p]
    OBVIOUS
  <2>2. Total(nil, P) = 0
    BY SumZero
  <2>3. Total(mw, P) = m * Total(w, P) + Total(nil, P)
    <3> HIDE DEF mw, nil
    <3> QED
      BY <2>1, SumLinear
  <2> QED
    BY <1>1, <2>2, <2>3
<1>5. Total(e, P) \in Nat /\ Total(e, P) <= (W - 1) * c
  <2>1. Total(top, P) = (W - 1) * c
    <3>1. PICK v \in Int : v = W - 1
      BY <1>1
    <3> QED
      BY <3>1, SumConstant
  <2>2. \A p \in P : e[p] \in Nat /\ top[p] \in Int /\ e[p] <= top[p]
    BY <1>1, <1>2
  <2>3. Total(e, P) <= Total(top, P) /\ Total(e, P) \in Nat
    <3> HIDE DEF e, top
    <3> QED
      BY <2>2, SumMonotonic, SumNat
  <2> QED
    BY <2>1, <2>3
<1>6. Total(s, P) \in Int
  BY <1>2, SumInt
<1>7. m - Total(s, P) \in 0..c
  <2>1. PICK left \in Int, x \in Int : left = m - Total(s, P) /\ x = Total(e, P)
    BY <1>5, <1>6
  <2>2. W * left = x
    <3> HIDE DEF e, mw
    <3>1. PICK y \in Int : y = Total(s, P)
      BY <1>6
    <3>2. W * (m - y) = m * W - W * y
      BY <1>1, <3>1
    <3> QED
      BY <1>1, <1>3, <1>4, <2>1, <3>1, <3>2
  <2>3. 0 <= x /\ x <= (W - 1) * c
    BY <1>5, <2>1
  <2>4. 0 <= left /\ left <= c
    <3> HIDE DEF c
    <3> QED
      BY <1>1, <2>2, <2>3, LeftoverBound
  <2> QED
    BY <1>1, <2>1, <2>4
<1>8. ASSUME NEW p \in P
      PROVE  /\ s[p] \in Nat
             /\ W * s[p] <= m * w[p]
             /\ m * w[p] < W * s[p] + W
  <2>1. PICK b \in Int, d \in 0..W - 1 : b = W * s[p] /\ d = e[p]
    BY <1>1, <1>2
  <2>2. m * w[p] = b + d /\ s[p] \in Nat
    BY <1>2, <2>1
  <2>3. b <= b + d /\ b + d < b + W
    BY <1>1
  <2> QED
    BY <2>1, <2>2, <2>3
<1> QED
  BY <1>7, <1>8

\* Between them the pools P are given m, each of them within one of the part of m
\* that is in proportion to what it wants.
InProportion(given, P, m, want) ==
    /\ \A p \in P : given[p] \in Nat
    /\ Total(given, P) = m
    /\ Total(want, P) > 0 => \A p \in P :
         /\ -Total(want, P) <= given[p] * Total(want, P) - m * want[p]
         /\ given[p] * Total(want, P) - m * want[p] <= Total(want, P)

\* apportionWarm, for any pools, any targets (none at all too) and any report of
\* the fleet: the pools of a key are given between them exactly what the fleet has
\* of it, each within one microVM of its exact proportion.
THEOREM SharesAddUp ==
    ASSUME NEW keysOf, NEW want, NEW fleet, NEW k,
           \E N \in Nat : DOMAIN keysOf \in SUBSET (0..N),
           \A p \in DOMAIN keysOf : want[p] \in Nat,
           fleet[k] \in Nat,
           PoolsOf(k, keysOf) # {}
    PROVE  InProportion(apportionWarm(keysOf, want, fleet), PoolsOf(k, keysOf), fleet[k], want)
<1> PICK N \in Nat : DOMAIN keysOf \in SUBSET (0..N)
  OBVIOUS
<1> PICK out, P, W : /\ out = apportionWarm(keysOf, want, fleet)
                     /\ P = PoolsOf(k, keysOf) /\ W = Total(want, P)
  OBVIOUS
<1> DEFINE m == fleet[k]
           s == [p \in P |-> share(p, keysOf, want, fleet)]
           lo == [p \in P |-> leftover(p, keysOf, want, fleet)]
           left == m - Total(s, P)
           Leading(i) == {p \in P : Rank(P, p) < i}
<1>1. P \in SUBSET (0..N) /\ IsFiniteSet(P) /\ Cardinality(P) \in Nat /\ Cardinality(P) # 0
  <2>1. P \in SUBSET (0..N)
    BY DEF PoolsOf
  <2>2. IsFiniteSet(0..N)
    BY 0 \in Int, N \in Int, FS_Interval
  <2> QED
    BY <2>1, <2>2, FS_Subset, FS_CardinalityType, FS_EmptySet
<1>2. (\A p \in P : want[p] \in Nat) /\ W \in Nat
  <2>1. \A p \in P : want[p] \in Nat
    BY DEF PoolsOf
  <2> QED
    BY <1>1, <2>1, SumNat
<1>3. \A p \in P : /\ keysOf[p] = k /\ p \in DOMAIN keysOf
                   /\ s[p] = IF W > 0 THEN (m * want[p]) \div W ELSE 0
                   /\ lo[p] = IF W > 0 THEN IF Rank(P, p) < left THEN 1 ELSE 0
                              ELSE IF Rank(P, p) = 0 THEN left ELSE 0
                   /\ out[p] = s[p] + lo[p]
  BY DEF PoolsOf, share, leftover, sumTarget, apportionWarm, Total, SumFunction, Rank
<1>4. \A p \in P : Rank(P, p) \in Nat
  <2> SUFFICES ASSUME NEW p \in P
               PROVE  Rank(P, p) \in Nat
    OBVIOUS
  <2>1. {y \in P : y < p} \in SUBSET P
    OBVIOUS
  <2> QED
    BY <1>1, <2>1, FS_Subset, FS_CardinalityType DEF Rank
<1>5. ASSUME NEW i \in 0..Cardinality(P)
      PROVE  Leading(i) \in SUBSET P /\ Cardinality(Leading(i)) = i
  <2> QED
    BY <1>1, FirstAreSo
<1> HIDE DEF m, s, lo
<1>6. m \in Nat
  BY DEF m
<1>7. CASE W > 0
  <2>1. /\ left \in 0..Cardinality(P)
        /\ \A p \in P : s[p] \in Nat /\ W * s[p] <= m * want[p] /\ m * want[p] < W * s[p] + W
    <3>1. \A p \in P : s[p] = (m * want[p]) \div W
      BY <1>3, <1>7
    <3>2. W = Total(want, P)
      OBVIOUS
    <3>3. /\ m - Total(s, P) \in 0..Cardinality(P)
          /\ \A p \in P : /\ s[p] \in Nat
                          /\ W * s[p] <= m * want[p]
                          /\ m * want[p] < W * s[p] + W
      <4>1. IsFiniteSet(P) /\ \A p \in P : want[p] \in Nat
        BY <1>1, <1>2
      <4> QED
        BY <1>6, <1>7, <3>1, <3>2, <4>1, LeftoverIsFew
    <3> QED
      BY <3>3
  <2>2. \A p \in P : lo[p] = IF p \in Leading(left) THEN 1 ELSE 0
    BY <1>3, <1>7
  <2>3. Total(lo, P) = left
    <3>1. PICK i \in 0..Cardinality(P) : i = left
      BY <2>1
    <3>2. Total(lo, P) = Cardinality(P \cap Leading(left))
      <4> HIDE DEF Leading
      <4> QED
        BY <1>1, <2>2, SumCounts
    <3>3. P \cap Leading(left) = Leading(left)
      OBVIOUS
    <3> QED
      BY <1>5, <3>1, <3>2, <3>3
  <2>4. Total(out, P) = Total(s, P) + Total(lo, P) /\ Total(s, P) \in Int
    <3>1. \A p \in P : s[p] \in Int /\ lo[p] \in Int /\ out[p] = s[p] + lo[p]
      BY <1>3, <2>1, <2>2
    <3> QED
      BY <1>1, <3>1, SumPlus, SumInt
  <2>5. Total(out, P) = m
    BY <1>6, <2>3, <2>4
  <2>6. ASSUME NEW p \in P
        PROVE  /\ out[p] \in Nat
               /\ -W <= out[p] * W - m * want[p]
               /\ out[p] * W - m * want[p] <= W
    <3>1. PICK a \in Nat, l \in {0, 1} : a = s[p] /\ l = lo[p]
      BY <2>1, <2>2
    <3>2. PICK v \in Nat : v = m * want[p]
      BY <1>2, <1>6
    <3>3. out[p] = a + l /\ out[p] \in Nat
      BY <1>3, <3>1
    <3>4. W * a <= v /\ v < W * a + W
      BY <2>1, <3>1, <3>2
    <3>5. (a + l) * W = W * a + l * W
      BY <1>2, <3>1
    <3>6. PICK x \in Int : x = W * a
      BY <1>2, <3>1
    <3>7. l * W = 0 \/ l * W = W
      BY <1>2, <3>1
    <3> QED
      BY <1>2, <3>2, <3>3, <3>4, <3>5, <3>6, <3>7
  <2> QED
    BY <2>5, <2>6 DEF m, InProportion
<1>8. CASE ~(W > 0)
  <2>1. \A p \in P : s[p] = 0
    BY <1>3, <1>8
  <2>2. Total(s, P) = 0 /\ left = m
    <3>1. Total(s, P) = 0
      BY <1>1, <2>1, SumZero
    <3> QED
      BY <1>6, <3>1
  <2>3. \A p \in P : lo[p] = IF p \in Leading(1) THEN m ELSE 0
    BY <1>3, <1>4, <1>8, <2>2
  <2>4. Total(lo, P) = m
    <3>1. Leading(1) \in SUBSET P /\ Cardinality(Leading(1)) = 1
      BY <1>1, <1>5
    <3>2. Total(lo, P) = m * Cardinality(Leading(1))
      <4>1. PICK R \in SUBSET P : R = Leading(1)
        BY <3>1
      <4>2. m \in Int /\ \A p \in P : lo[p] = IF p \in R THEN m ELSE 0
        BY <1>6, <2>3, <4>1
      <4>3. Total(lo, P) = m * Cardinality(R)
        BY <1>1, <4>2, SumOfSome
      <4> QED
        BY <4>1, <4>3
    <3> QED
      BY <1>6, <3>1, <3>2
  <2>5. \A p \in P : s[p] \in Int /\ lo[p] \in Nat /\ out[p] = s[p] + lo[p] /\ out[p] \in Nat
    BY <1>3, <1>6, <2>1, <2>3
  <2>6. Total(out, P) = Total(s, P) + Total(lo, P)
    <3>1. \A p \in P : s[p] \in Int /\ lo[p] \in Int /\ out[p] = s[p] + lo[p]
      BY <2>5
    <3> QED
      BY <1>1, <3>1, SumPlus
  <2>7. Total(out, P) = m
    BY <1>6, <2>2, <2>4, <2>6
  <2> QED
    BY <1>8, <2>5, <2>7 DEF m, InProportion
<1> QED
  BY <1>7, <1>8

-----------------------------------------------------------------------------
(* The warm-pool driver.                                                   *)

\* The driver puts only nodes it listed and shares out only to pools with a key.
TodoIsListed ==
    /\ step = "apply" => todo \subseteq nodes
    /\ step = "status" => todo \subseteq Resolved

\* A pool that is kept has a key, the one it was resolved to once it was.
KeptIsResolved ==
    \A p \in kept :
        /\ key[p] # NoPoolKey
        /\ step # "idle"
        /\ desired[p].key = key[p] \/ (step = "resolve" /\ p \in todo)

\* What the driver listed and resolved of the pools is still so.
PoolsAsListed ==
    /\ step # "idle"
    /\ step = "resolve" => todo \subseteq pool
    /\ \A p \in Pools :
         /\ desired[p].key = IF p \in pool /\ ~(step = "resolve" /\ p \in todo)
                             THEN key[p] ELSE NoPoolKey
         /\ p \in pool => desired[p].replicas = replicas[p]

\* What an undisturbed reconcile has done by each of its steps, and once it is over.
AppliedSoFar ==
    /\ applied = "sofar" =>
         /\ PoolsAsListed
         /\ nodes = listed
         /\ step # "resolve" =>
              \A n \in nodes : (step = "apply" /\ n \in todo) \/ target[n] = specs(n)
    /\ applied = "yes" => step = "idle" /\ (listed # {} => \A k \in Keys : Exact(k))

\* The same of its status writes.
ToldSoFar ==
    /\ told = "sofar" =>
         /\ PoolsAsListed
         /\ \A p \in pool : key[p] = NoPoolKey =>
              (step = "resolve" /\ p \in todo) \/ status[p] = 0
         /\ step = "status" =>
              /\ \A p \in Resolved : p \in todo \/ status[p] = shares[p]
              /\ \A k \in Keys : Of(k) # {} => Shared(shares, k)
    /\ told = "yes" => step = "idle" /\ StatusIsShared

WarmInv ==
    /\ WarmTypeOK
    /\ TodoIsListed
    /\ KeptIsResolved
    /\ AppliedSoFar
    /\ ToldSoFar

\* The most that one pool asks for.
LEMMA MostReplicas ==
    /\ Max(Replicas \cup {0}) \in Nat
    /\ MaxTarget \in Nat
    /\ \A r \in Replicas \cup {0} : poolTarget(r) <= Max(Replicas \cup {0}) /\ r \in Int
<1> DEFINE S == Replicas \cup {0}
           T == {A \in SUBSET S : A = {} \/ \E x \in A : \A y \in A : x >= y}
<1>1. IsFiniteSet(S) /\ S \subseteq Int /\ 0 \in S
  BY ReplicasAssumption, FS_AddElement
<1>2. ASSUME NEW A \in SUBSET S, \A x \in A : A \ {x} \in T
      PROVE  A \in T
  <2> SUFFICES ASSUME A # {}
               PROVE  \E x \in A : \A y \in A : x >= y
    OBVIOUS
  <2>1. PICK x \in A : TRUE
    OBVIOUS
  <2>2. \A y \in A : y \in Int
    BY <1>1
  <2>3. CASE A \ {x} = {}
    BY <2>2, <2>3
  <2>4. CASE A \ {x} # {}
    <3>1. PICK z \in A \ {x} : \A y \in A \ {x} : z >= y
      BY <1>2, <2>4
    <3>2. CASE z >= x
      BY <2>2, <3>1, <3>2
    <3>3. CASE ~(z >= x)
      BY <2>2, <3>1, <3>3
    <3> QED
      BY <3>2, <3>3
  <2> QED
    BY <2>3, <2>4
<1>3. S \in T
  <2> HIDE DEF S, T
  <2> QED
    BY <1>1, <1>2, ShrinkFinite
<1>4. Max(S) \in S /\ \A y \in S : Max(S) >= y
  BY <1>1, <1>3 DEF Max
<1>5. Max(S) \in Nat
  BY <1>1, <1>4
<1>6. NumPools * Max(S) \in Nat
  BY <1>5, NumPoolsAssumption
<1> QED
  BY <1>1, <1>4, <1>5, <1>6 DEF poolTarget, MaxTarget

\* Pools and nodes are finitely many numbers.
LEMMA SetsOfPools ==
    ASSUME NEW P \in SUBSET Pools
    PROVE  /\ P \in SUBSET (0..NumPools)
           /\ IsFiniteSet(P)
           /\ Cardinality(P) \in 0..NumPools
<1>1. IsFiniteSet(Pools) /\ Cardinality(Pools) = NumPools
  <2>1. NumPools \in Nat \ {0} /\ 1 \in Int
    BY NumPoolsAssumption
  <2> QED
    BY <2>1, FS_Interval DEF Pools
<1>2. IsFiniteSet(P) /\ Cardinality(P) \in Nat /\ Cardinality(P) <= NumPools
  BY <1>1, FS_Subset, FS_CardinalityType
<1>3. P \in SUBSET (0..NumPools)
  BY NumPoolsAssumption DEF Pools
<1> QED
  BY <1>2, <1>3, NumPoolsAssumption

LEMMA SetsOfNodes ==
    ASSUME NEW ns \in SUBSET AllNodes
    PROVE  ns \in SUBSET (0..NumNodes) /\ IsFiniteSet(ns) /\ NumNodes \in Nat
<1>1. NumNodes \in Nat \ {0} /\ 1 \in Int
  BY NumNodesAssumption
<1>2. IsFiniteSet(AllNodes)
  BY <1>1, FS_Interval DEF AllNodes
<1>3. ns \in SUBSET (0..NumNodes)
  BY <1>1 DEF AllNodes
<1> QED
  BY <1>1, <1>2, <1>3, FS_Subset

\* The pools of a key among those resolved.
Sent(k) == {p \in Resolved : desired[p].key = k}

\* specs, as a sum over the pools of a key.
LEMMA SpecsFact ==
    ASSUME NEW n
    PROVE  /\ DOMAIN specs(n) = {desired[p].key : p \in Resolved}
           /\ \A k \in DOMAIN specs(n) :
                specs(n)[k] = Total([p \in Sent(k) |-> distribute(desired[p].replicas, nodes)[n]],
                                    Sent(k))
BY DEF specs, Sent, Total, SumFunction

\* The set a node is sent is well typed.
LEMMA SpecsType ==
    ASSUME WarmTypeOK, NEW n \in nodes
    PROVE  specs(n) \in UNION {[K -> 0..MaxTarget] : K \in SUBSET Keys}
<1> DEFINE K == {desired[p].key : p \in Resolved}
<1>1. K \in SUBSET Keys
  BY DEF WarmTypeOK, Resolved
<1>2. ASSUME NEW k \in K
      PROVE  specs(n)[k] \in 0..MaxTarget
  <2> DEFINE P == Sent(k)
             f == [p \in P |-> distribute(desired[p].replicas, nodes)[n]]
             M == Max(Replicas \cup {0})
             top == [p \in P |-> M]
  <2>1. P \in SUBSET Pools
    BY DEF Sent, Resolved
  <2>2. IsFiniteSet(P) /\ Cardinality(P) \in 0..NumPools
    BY <2>1, SetsOfPools
  <2>3. ASSUME NEW p \in P
        PROVE  f[p] \in Nat /\ f[p] <= M
    <3>1. desired[p].replicas \in Replicas \cup {0} /\ nodes \in SUBSET AllNodes
      BY <2>1 DEF WarmTypeOK
    <3>2. PICK r \in Replicas \cup {0} : r = desired[p].replicas
      BY <3>1
    <3>3. r \in Int /\ poolTarget(r) <= M /\ M \in Nat
      BY MostReplicas
    <3>4. poolTarget(r) \in Int
      BY <3>3 DEF poolTarget
    <3>5. distribute(r, nodes)[n] \in Nat /\ distribute(r, nodes)[n] <= poolTarget(r)
      BY <3>1, <3>3, SetsOfNodes, DistributeIsEven
    <3> HIDE DEF M
    <3> QED
      BY <3>2, <3>3, <3>4, <3>5
  <2> HIDE DEF P
  <2>4. Total(f, P) \in Nat /\ Total(f, P) <= Total(top, P)
    <3>1. \A p \in P : f[p] \in Nat /\ f[p] \in Int /\ top[p] \in Int /\ f[p] <= top[p]
      BY <2>3, MostReplicas
    <3> HIDE DEF f, top
    <3> QED
      BY <2>2, <3>1, SumNat, SumMonotonic
  <2>5. Total(top, P) = M * Cardinality(P)
    <3>1. M \in Int /\ \A p \in P : top[p] = M
      BY MostReplicas
    <3> HIDE DEF M, top
    <3> QED
      BY <2>2, <3>1, SumConstant
  <2>6. M * Cardinality(P) <= NumPools * M
    <3>1. PICK x \in Nat, c \in Nat : x = M /\ c = Cardinality(P) /\ c <= NumPools
      BY <2>2, MostReplicas, NumPoolsAssumption
    <3>2. x * c <= NumPools * x
      BY <3>1, NumPoolsAssumption
    <3> QED
      BY <3>1, <3>2
  <2>7. specs(n)[k] = Total(f, P)
    BY SpecsFact DEF P
  <2>8. NumPools * M \in Nat /\ MaxTarget = NumPools * M /\ M * Cardinality(P) \in Int
    BY <2>2, MostReplicas, NumPoolsAssumption DEF MaxTarget
  <2> HIDE DEF f, M, top
  <2> QED
    BY <2>4, <2>5, <2>6, <2>7, <2>8
<1>3. specs(n) = [k \in K |-> specs(n)[k]]
  BY DEF specs
<1>4. specs(n) \in [K -> 0..MaxTarget]
  BY <1>2, <1>3
<1> QED
  BY <1>1, <1>4

\* Over true lists, the pools sent under a key are the pools of that key.
LEMMA SentIsOf ==
    ASSUME WarmTypeOK, PoolsAsListed, step # "resolve", NEW k \in Keys
    PROVE  /\ Sent(k) = Of(k)
           /\ Of(k) \in SUBSET Pools
           /\ \A p \in Of(k) : desired[p].replicas = replicas[p] /\ replicas[p] \in Int
<1>1. pool \subseteq Pools /\ NoPoolKey \notin Keys
  BY KeysAssumption DEF WarmTypeOK
<1>2. \A p \in Pools : /\ desired[p].key = IF p \in pool THEN key[p] ELSE NoPoolKey
                       /\ p \in pool => desired[p].replicas = replicas[p]
  BY DEF PoolsAsListed
<1>3. \A p \in Pools : replicas[p] \in Int
  BY MostReplicas DEF WarmTypeOK
<1> QED
  BY <1>1, <1>2, <1>3 DEF Sent, Of, Resolved

\* A reconcile that has sent its set to every listed node, over true lists, is exact.
LEMMA SentIsExact ==
    ASSUME WarmTypeOK, PoolsAsListed, step # "resolve", nodes = listed, listed # {},
           \A n \in nodes : target[n] = specs(n), NEW k \in Keys
    PROVE  Exact(k)
<1> DEFINE P == Of(k)
           d == [n \in listed |-> [p \in P |-> distribute(replicas[p], listed)[n]]]
<1>1. /\ Sent(k) = P /\ P \in SUBSET Pools /\ IsFiniteSet(P) /\ Cardinality(P) \in 0..NumPools
      /\ \A p \in P : desired[p].replicas = replicas[p] /\ replicas[p] \in Int
  BY SentIsOf, SetsOfPools
<1>2. /\ listed \in SUBSET AllNodes
      /\ listed \in SUBSET (0..NumNodes) /\ IsFiniteSet(listed) /\ NumNodes \in Nat
  BY SetsOfNodes DEF WarmTypeOK
<1>3. \A n \in listed : k \in DOMAIN target[n] <=> P # {}
  <2>1. \A n \in listed : DOMAIN target[n] = {desired[p].key : p \in Resolved}
    BY SpecsFact
  <2>2. k \in {desired[p].key : p \in Resolved} <=> Sent(k) # {}
    BY DEF Sent
  <2> QED
    BY <1>1, <2>1, <2>2
<1>4. ASSUME NEW p \in P
      PROVE  /\ \A n \in listed : distribute(replicas[p], listed)[n] \in Nat
             /\ \A m, n \in listed :
                  distribute(replicas[p], listed)[m] - distribute(replicas[p], listed)[n] <= 1
             /\ Total(distribute(replicas[p], listed), listed) = poolTarget(replicas[p])
  BY <1>1, <1>2, DistributeIsEven
<1> SUFFICES ASSUME P # {}
             PROVE  /\ SumFunction([n \in listed |-> target[n][k]]) = Wanted(k)
                    /\ \A m, n \in listed : target[m][k] - target[n][k] <= NumPools
  BY <1>3 DEF Exact
<1>5. \A n \in listed : target[n][k] = Total(d[n], P)
  <2> SUFFICES ASSUME NEW n \in listed
               PROVE  target[n][k] = Total(d[n], P)
    OBVIOUS
  <2>1. target[n][k] = Total([p \in Sent(k) |-> distribute(desired[p].replicas, nodes)[n]],
                             Sent(k))
    BY <1>3, SpecsFact
  <2>2. [p \in Sent(k) |-> distribute(desired[p].replicas, nodes)[n]] = d[n]
    BY <1>1
  <2> QED
    BY <1>1, <2>1, <2>2
<1>6. \A n \in listed, p \in P : d[n][p] \in Nat /\ d[n][p] \in Int
  BY <1>4
<1>7. SumFunction([n \in listed |-> target[n][k]]) = Wanted(k)
  <2>1. [n \in listed |-> target[n][k]] = [n \in listed |-> Total(d[n], P)]
    BY <1>5
  <2>2. Total([n \in listed |-> Total(d[n], P)], listed)
          = Total([p \in P |-> Total([n \in listed |-> d[n][p]], listed)], P)
    <3> HIDE DEF d, P
    <3> QED
      BY <1>1, <1>2, <1>6, SumSwap
  <2>3. \A p \in P : Total([n \in listed |-> d[n][p]], listed) = poolTarget(replicas[p])
    <3> SUFFICES ASSUME NEW p \in P
                 PROVE  Total([n \in listed |-> d[n][p]], listed) = poolTarget(replicas[p])
      OBVIOUS
    <3>1. [n \in listed |-> d[n][p]] = distribute(replicas[p], listed)
      BY DEF distribute
    <3> QED
      BY <1>4, <3>1
  <2>4. [p \in P |-> Total([n \in listed |-> d[n][p]], listed)]
          = [p \in P |-> poolTarget(replicas[p])]
    BY <2>3
  <2> QED
    BY <2>1, <2>2, <2>4 DEF SumFunction, Total, Wanted
<1>8. ASSUME NEW m \in listed, NEW n \in listed
      PROVE  target[m][k] - target[n][k] <= NumPools
  <2> DEFINE one == [p \in P |-> 1]
             more == [p \in P |-> 1 + d[n][p]]
  <2>1. \A p \in P : d[m][p] \in Int /\ more[p] \in Int /\ d[m][p] <= more[p]
    <3> SUFFICES ASSUME NEW p \in P
                 PROVE  d[m][p] \in Int /\ more[p] \in Int /\ d[m][p] <= more[p]
      OBVIOUS
    <3>1. PICK x \in Nat, y \in Nat : x = d[m][p] /\ y = d[n][p] /\ x - y <= 1
      BY <1>4
    <3> QED
      BY <3>1
  <2>2. Total(d[m], P) <= Total(more, P)
    <3> HIDE DEF d, more, P
    <3> QED
      BY <1>1, <2>1, SumMonotonic
  <2>3. Total(more, P) = Total(one, P) + Total(d[n], P)
    <3>1. \A p \in P : one[p] \in Int /\ d[n][p] \in Int /\ more[p] = one[p] + d[n][p]
      BY <1>6
    <3> HIDE DEF d, one, more, P
    <3> QED
      BY <1>1, <3>1, SumPlus
  <2>4. Total(one, P) = Cardinality(P)
    <3>1. \A p \in P : one[p] = IF p \in P THEN 1 ELSE 0
      OBVIOUS
    <3> HIDE DEF one, P
    <3>2. Total(one, P) = Cardinality(P \cap P)
      BY <1>1, <3>1, SumCounts
    <3> QED
      BY <3>2, P \cap P = P
  <2>5. Total(d[m], P) \in Int /\ Total(d[n], P) \in Int
    <3> HIDE DEF d, P
    <3> QED
      BY <1>1, <1>6, SumInt
  <2> HIDE DEF d, one, more, P
  <2> QED
    BY <1>1, <1>5, <2>2, <2>3, <2>4, <2>5, NumPoolsAssumption
<1> QED
  BY <1>7, <1>8

\* Shared, of the m microVMs reported.
SharedAs(given, k, m) ==
    /\ Total(given, Of(k)) = m
    /\ Wanted(k) > 0 /\ m > 0 => \A p \in Of(k) :
         /\ -Wanted(k) <= given[p] * Wanted(k) - m * poolTarget(replicas[p])
         /\ given[p] * Wanted(k) - m * poolTarget(replicas[p]) <= Wanted(k)

LEMMA SharedIsSharedAs == \A given, k : Shared(given, k) <=> SharedAs(given, k, seen[k])
BY DEF Shared, SharedAs, Total

\* What shareOut computes is within what the fleet has and, over true lists,
\* shares it out.
LEMMA OutIsShared ==
    ASSUME WarmTypeOK, NEW fleet \in [Keys -> IF nodes = {} THEN {0} ELSE 0..MaxWarm],
           NEW out, out = apportionWarm([p \in Resolved |-> desired[p].key],
                                        [p \in Resolved |-> Target(p)], fleet),
           NEW given, given = [p \in Pools |-> IF p \in Resolved THEN out[p] ELSE 0]
    PROVE  /\ given \in [Pools -> 0..MaxWarm]
           /\ fleet \in [Keys -> 0..MaxWarm]
           /\ PoolsAsListed /\ step # "resolve" =>
                \A k \in Keys : Of(k) # {} => SharedAs(given, k, fleet[k])
<1> DEFINE keysOf == [p \in Resolved |-> desired[p].key]
           want == [p \in Resolved |-> Target(p)]
<1>1. MaxWarm \in Nat /\ NumPools \in Nat /\ fleet \in [Keys -> 0..MaxWarm]
  BY BoundsAssumption, NumPoolsAssumption
<1>2. /\ Resolved \in SUBSET Pools
      /\ DOMAIN keysOf = Resolved /\ DOMAIN keysOf \in SUBSET (0..NumPools)
      /\ \A p \in Resolved : desired[p].key \in Keys /\ desired[p].replicas \in Int
  <2>1. Resolved \in SUBSET Pools
    BY DEF Resolved
  <2>2. \A p \in Resolved : desired[p].key \in Keys /\ desired[p].replicas \in Replicas \cup {0}
    BY DEF Resolved, WarmTypeOK
  <2> QED
    BY <2>1, <2>2, SetsOfPools, MostReplicas
<1>3. \A p \in Resolved : want[p] \in Nat
  BY <1>2 DEF Target, poolTarget
<1>4. \A k : PoolsOf(k, keysOf) = Sent(k)
  BY DEF PoolsOf, Sent
<1>5. ASSUME NEW k \in Keys, Sent(k) # {}
      PROVE  /\ \A p \in Sent(k) : out[p] \in Nat
             /\ Total(out, Sent(k)) = fleet[k]
             /\ Total(want, Sent(k)) > 0 => \A p \in Sent(k) :
                  /\ -Total(want, Sent(k)) <= out[p] * Total(want, Sent(k)) - fleet[k] * want[p]
                  /\ out[p] * Total(want, Sent(k)) - fleet[k] * want[p] <= Total(want, Sent(k))
  <2>1. fleet[k] \in Nat /\ PoolsOf(k, keysOf) # {}
    BY <1>1, <1>4, <1>5
  <2>2. DOMAIN keysOf \in SUBSET (0..NumPools) /\ \A p \in DOMAIN keysOf : want[p] \in Nat
    BY <1>2, <1>3
  <2>3. out = apportionWarm(keysOf, want, fleet)
    OBVIOUS
  <2> HIDE DEF keysOf, want
  <2>4. InProportion(out, PoolsOf(k, keysOf), fleet[k], want)
    BY <1>1, <2>1, <2>2, <2>3, SharesAddUp
  <2> QED
    BY <1>4, <2>4 DEF InProportion
<1>6. ASSUME NEW k \in Keys, Sent(k) # {}
      PROVE  IsFiniteSet(Sent(k)) /\ Total(given, Sent(k)) = fleet[k]
  <2>1. Sent(k) \in SUBSET Resolved
    BY DEF Sent
  <2>2. IsFiniteSet(Sent(k))
    BY <1>2, <2>1, SetsOfPools
  <2>3. \A p \in Sent(k) : out[p] \in Int /\ out[p] = given[p]
    BY <1>2, <1>5, <1>6, <2>1
  <2>4. Total(out, Sent(k)) = Total(given, Sent(k))
    BY <2>2, <2>3, SumSame
  <2> QED
    BY <1>5, <1>6, <2>2, <2>4
<1>7. ASSUME NEW p \in Pools
      PROVE  given[p] \in 0..MaxWarm
  <2>1. CASE p \notin Resolved
    BY <1>1, <2>1
  <2>2. CASE p \in Resolved
    <3>1. PICK k \in Keys : k = desired[p].key
      BY <1>2, <2>2
    <3>2. p \in Sent(k)
      BY <2>2, <3>1 DEF Sent
    <3>3. out[p] \in Nat /\ out[p] <= Total(out, Sent(k)) /\ Total(out, Sent(k)) = fleet[k]
      BY <1>5, <1>6, <3>2, SumNat
    <3>4. fleet[k] \in 0..MaxWarm
      BY <1>1
    <3> QED
      BY <1>1, <2>2, <3>3, <3>4
  <2> QED
    BY <2>1, <2>2
<1>8. ASSUME PoolsAsListed, step # "resolve", NEW k \in Keys, Of(k) # {}
      PROVE  SharedAs(given, k, fleet[k])
  <2>1. Sent(k) = Of(k) /\ \A p \in Of(k) : desired[p].replicas = replicas[p]
    BY <1>8, SentIsOf
  <2>2. Total(given, Of(k)) = fleet[k]
    BY <1>6, <1>8, <2>1
  <2>3. ASSUME fleet[k] > 0, Wanted(k) > 0, NEW p \in Of(k)
        PROVE  /\ -Wanted(k) <= given[p] * Wanted(k) - fleet[k] * poolTarget(replicas[p])
               /\ given[p] * Wanted(k) - fleet[k] * poolTarget(replicas[p]) <= Wanted(k)
    <3>1. nodes # {}
      <4>1. CASE nodes = {}
        <5>1. fleet[k] = 0
          BY <4>1
        <5> QED
          BY <2>3, <5>1
      <4> QED
        BY <4>1
    <3>2. \A q \in Of(k) : /\ q \in Resolved /\ want[q] = poolTarget(replicas[q])
                           /\ want[q] \in Int
      BY <1>3, <2>1, <3>1 DEF Target, Sent
    <3>3. Wanted(k) = Total(want, Of(k))
      <4> DEFINE asked == [q \in Of(k) |-> poolTarget(replicas[q])]
      <4>1. Wanted(k) = Total(asked, Of(k))
        BY DEF Wanted, SumFunction, Total
      <4>2. \A q \in Of(k) : asked[q] \in Int /\ asked[q] = want[q]
        BY <3>2
      <4>3. IsFiniteSet(Of(k))
        BY <1>6, <1>8, <2>1
      <4> HIDE DEF asked, want
      <4> QED
        BY <4>1, <4>2, <4>3, SumSame
    <3>4. given[p] = out[p] /\ want[p] = poolTarget(replicas[p])
      BY <1>2, <3>2
    <3> HIDE DEF want
    <3> QED
      BY <1>5, <1>8, <2>1, <2>3, <3>3, <3>4
  <2> QED
    BY <2>2, <2>3 DEF SharedAs
<1> QED
  BY <1>1, <1>7, <1>8

-----------------------------------------------------------------------------
(* One step of the driver, of the API server or of a node.                 *)

\* A node's targets.
Targets == UNION {[K -> 0..MaxTarget] : K \in SUBSET Keys}

LEMMA NoPoolsType == NoPools \in Targets
<1>1. NoPools \in [{} -> 0..MaxTarget] /\ {} \in SUBSET Keys
  BY DEF NoPools
<1> QED
  BY <1>1 DEF Targets

\* What shareOut leaves: some report of the nodes, shared out.
LEMMA SharedOut ==
    ASSUME WarmTypeOK, shareOut
    PROVE  \E fleet \in [Keys -> 0..MaxWarm] :
             /\ shares' \in [Pools -> 0..MaxWarm]
             /\ seen' = IF told = "sofar" THEN fleet ELSE seen
             /\ PoolsAsListed =>
                  \A k \in Keys : Of(k) # {} => SharedAs(shares', k, fleet[k])
<1>1. PICK fleet \in [Keys -> IF nodes = {} THEN {0} ELSE 0..MaxWarm] :
        LET out == apportionWarm([p \in Resolved |-> desired[p].key],
                                 [p \in Resolved |-> Target(p)], fleet)
        IN  /\ shares' = [p \in Pools |-> IF p \in Resolved THEN out[p] ELSE 0]
            /\ seen' = IF told = "sofar" THEN fleet ELSE seen
  BY DEF shareOut
<1>2. PICK out : out = apportionWarm([p \in Resolved |-> desired[p].key],
                                     [p \in Resolved |-> Target(p)], fleet)
  OBVIOUS
<1>3. PICK given : given = [p \in Pools |-> IF p \in Resolved THEN out[p] ELSE 0]
  OBVIOUS
<1>4. shares' = given /\ seen' = IF told = "sofar" THEN fleet ELSE seen
  BY <1>1, <1>2, <1>3
<1>5. /\ given \in [Pools -> 0..MaxWarm]
      /\ fleet \in [Keys -> 0..MaxWarm]
      /\ PoolsAsListed /\ step # "resolve" =>
           \A k \in Keys : Of(k) # {} => SharedAs(given, k, fleet[k])
  BY <1>2, <1>3, OutIsShared
<1>6. step # "resolve"
  BY DEF shareOut
<1> QED
  BY <1>4, <1>5, <1>6

\* The four parts of the invariant, each kept by every step.
LEMMA TypesStep == WarmInv /\ [WarmNext]_warmVars => WarmTypeOK'
<1> SUFFICES ASSUME WarmInv, [WarmNext]_warmVars
             PROVE  WarmTypeOK'
  OBVIOUS
<1>0. /\ WarmTypeOK
      /\ target \in [AllNodes -> Targets]
      /\ target' \in [AllNodes -> Targets] =>
           target' \in [AllNodes -> UNION {[K -> 0..MaxTarget] : K \in SUBSET Keys}]
      /\ NoPools \in Targets
      /\ 0 \in 0..MaxWarm
  BY NoPoolsType, BoundsAssumption DEF WarmInv, WarmTypeOK, Targets
<1> USE DEF WarmTypeOK
<1>1. CASE listPools
  BY <1>0, <1>1 DEF listPools, apiVars
<1>2. ASSUME NEW p \in Pools, poolKey(p)
      PROVE  WarmTypeOK'
  BY <1>0, <1>2 DEF poolKey, First, apiVars, writeStatus
<1>3. ASSUME GivesUp
      PROVE  WarmTypeOK'
  BY <1>0, <1>3 DEF GivesUp, Rest, Unresolved, Untold, apiVars
<1>4. ASSUME NEW p \in Pools, writeShare(p)
      PROVE  WarmTypeOK'
  BY <1>0, <1>4 DEF writeShare, writeStatus, apiVars
<1>5. CASE resolved
  BY <1>0, <1>5 DEF resolved, apiVars, statusVars
<1>6. ASSUME NEW n \in AllNodes, SetPools(n) \/ SetPoolsFails(n)
      PROVE  WarmTypeOK'
  <2>1. specs(n) \in Targets
    BY <1>0, <1>6, SpecsType DEF WarmInv, TodoIsListed, SetPools, SetPoolsFails, Targets
  <2>2. target' \in [AllNodes -> Targets]
    BY <1>0, <1>6, <2>1 DEF SetPools, SetPoolsFails
  <2> QED
    BY <1>0, <1>6, <2>2 DEF SetPools, SetPoolsFails, apiVars, statusVars
<1>7. CASE shareOut
  <2>1. shares' \in [Pools -> 0..MaxWarm] /\ seen' \in [Keys -> 0..MaxWarm]
    BY <1>0, <1>7, SharedOut DEF shareOut
  <2> QED
    BY <1>0, <1>7, <2>1 DEF shareOut, apiVars, Resolved
<1>8. CASE reconciled
  BY <1>0, <1>8 DEF reconciled, Rest, Unresolved, apiVars
<1>9. ASSUME NEW p \in Pools, PoolChanges(p)
      PROVE  WarmTypeOK'
  BY <1>0, <1>9, BoundsAssumption DEF PoolChanges, Change, Untold, driverVars
<1>10. ASSUME NEW p \in Pools, NEW k \in Keys \cup {NoPoolKey}, TemplateChanges(p, k)
       PROVE  WarmTypeOK'
  BY <1>0, <1>10, BoundsAssumption DEF TemplateChanges, Change, Untold, driverVars
<1>11. ASSUME NEW n \in AllNodes, ListingChanges(n)
       PROVE  WarmTypeOK'
  BY <1>0, <1>11, BoundsAssumption DEF ListingChanges, Change, driverVars, apiVars, statusVars
<1>12. ASSUME NEW n \in AllNodes, NodeRestarts(n)
       PROVE  WarmTypeOK'
  <2>1. target' \in [AllNodes -> Targets]
    BY <1>0, <1>12 DEF NodeRestarts
  <2> QED
    BY <1>0, <1>12, <2>1, BoundsAssumption DEF NodeRestarts, Change, driverVars, apiVars,
                                               statusVars
<1>13. CASE UNCHANGED warmVars
  BY <1>0, <1>13 DEF warmVars, apiVars, driverVars, statusVars
<1> QED
  BY <1>1, <1>2, <1>3, <1>4, <1>5, <1>6, <1>7, <1>8, <1>9, <1>10, <1>11, <1>12, <1>13
     DEF WarmNext, Driver, Environment, resolveFails, runRestarting

LEMMA KeptStep == WarmInv /\ [WarmNext]_warmVars => TodoIsListed' /\ KeptIsResolved'
<1> SUFFICES ASSUME WarmInv, [WarmNext]_warmVars
             PROVE  TodoIsListed' /\ KeptIsResolved'
  OBVIOUS
<1> USE DEF WarmInv, TodoIsListed, KeptIsResolved, Resolved
<1>0. /\ key \in [Pools -> Keys \cup {NoPoolKey}]
      /\ pool \in SUBSET Pools
      /\ kept \in SUBSET Pools
      /\ desired \in [Pools -> [key : Keys \cup {NoPoolKey}, replicas : Replicas \cup {0}]]
  BY DEF WarmTypeOK
<1>1. CASE listPools
  BY <1>0, <1>1 DEF listPools, apiVars
<1>2. ASSUME NEW p \in Pools, poolKey(p)
      PROVE  TodoIsListed' /\ KeptIsResolved'
  BY <1>0, <1>2 DEF poolKey, First, apiVars
<1>3. ASSUME GivesUp
      PROVE  TodoIsListed' /\ KeptIsResolved'
  BY <1>0, <1>3 DEF GivesUp, Rest, apiVars
<1>4. ASSUME NEW p \in Pools, writeShare(p)
      PROVE  TodoIsListed' /\ KeptIsResolved'
  BY <1>0, <1>4 DEF writeShare, apiVars
<1>5. CASE resolved
  BY <1>0, <1>5 DEF resolved, apiVars
<1>6. ASSUME NEW n \in AllNodes, SetPools(n) \/ SetPoolsFails(n)
      PROVE  TodoIsListed' /\ KeptIsResolved'
  BY <1>0, <1>6 DEF SetPools, SetPoolsFails, apiVars
<1>7. CASE shareOut
  BY <1>0, <1>7 DEF shareOut, apiVars
<1>8. CASE reconciled
  BY <1>0, <1>8 DEF reconciled, Rest, apiVars
<1>9. ASSUME NEW p \in Pools, PoolChanges(p)
      PROVE  TodoIsListed' /\ KeptIsResolved'
  BY <1>0, <1>9 DEF PoolChanges, Change, driverVars
<1>10. ASSUME NEW p \in Pools, NEW k \in Keys \cup {NoPoolKey}, TemplateChanges(p, k)
       PROVE  TodoIsListed' /\ KeptIsResolved'
  BY <1>0, <1>10 DEF TemplateChanges, Change, driverVars
<1>11. ASSUME NEW n \in AllNodes, ListingChanges(n) \/ NodeRestarts(n)
       PROVE  TodoIsListed' /\ KeptIsResolved'
  BY <1>0, <1>11 DEF ListingChanges, NodeRestarts, Change, driverVars, apiVars
<1>12. CASE UNCHANGED warmVars
  BY <1>0, <1>12 DEF warmVars, apiVars, driverVars
<1> QED
  BY <1>1, <1>2, <1>3, <1>4, <1>5, <1>6, <1>7, <1>8, <1>9, <1>10, <1>11, <1>12
     DEF WarmNext, Driver, Environment, resolveFails, runRestarting

\* While nothing outside changes, what the driver listed stays true to its end.
LEMMA ListsStep ==
    ASSUME WarmTypeOK, PoolsAsListed,
           \/ \E p \in Pools : poolKey(p) \/ writeShare(p)
           \/ resolved
           \/ \E n \in AllNodes : \/ SetPools(n) \/ SetPoolsFails(n)
                                  \/ ListingChanges(n) \/ NodeRestarts(n)
           \/ shareOut
    PROVE  PoolsAsListed'
<1>1. ASSUME NEW p \in Pools, poolKey(p)
      PROVE  PoolsAsListed'
  <2>1. /\ step = "resolve" /\ p \in todo /\ todo' = todo \ {p}
        /\ desired' = [desired EXCEPT ![p].key = key[p]]
        /\ UNCHANGED <<pool, key, replicas, step>>
    BY <1>1 DEF poolKey, First, apiVars
  <2>2. ASSUME NEW q \in Pools
        PROVE  /\ desired'[q].key = IF q \in pool /\ q \notin todo' THEN key[q] ELSE NoPoolKey
               /\ desired'[q].replicas = desired[q].replicas
    <3>1. q = p \/ desired'[q] = desired[q]
      BY <2>1 DEF WarmTypeOK
    <3>2. desired'[p].key = key[p] /\ desired'[p].replicas = desired[p].replicas
      BY <2>1 DEF WarmTypeOK
    <3>3. p \in pool
      BY <2>1 DEF PoolsAsListed
    <3> QED
      BY <2>1, <3>1, <3>2, <3>3 DEF PoolsAsListed
  <2> QED
    BY <2>1, <2>2 DEF PoolsAsListed
<1>2. ASSUME NEW p \in Pools, writeShare(p)
      PROVE  PoolsAsListed'
  BY <1>2 DEF writeShare, apiVars, PoolsAsListed
<1>3. CASE resolved
  BY <1>3 DEF resolved, apiVars, PoolsAsListed
<1>4. ASSUME NEW n \in AllNodes, SetPools(n) \/ SetPoolsFails(n)
      PROVE  PoolsAsListed'
  BY <1>4 DEF SetPools, SetPoolsFails, apiVars, PoolsAsListed
<1>5. ASSUME NEW n \in AllNodes, ListingChanges(n) \/ NodeRestarts(n)
      PROVE  PoolsAsListed'
  BY <1>5 DEF ListingChanges, NodeRestarts, apiVars, driverVars, PoolsAsListed
<1>6. CASE shareOut
  BY <1>6 DEF shareOut, apiVars, PoolsAsListed
<1> QED
  BY <1>1, <1>2, <1>3, <1>4, <1>5, <1>6

LEMMA ListsStart == listPools /\ WarmTypeOK => PoolsAsListed'
BY DEF listPools, apiVars, PoolsAsListed, WarmTypeOK

LEMMA AppliedStep == WarmInv /\ [WarmNext]_warmVars => AppliedSoFar'
<1> SUFFICES ASSUME WarmInv, [WarmNext]_warmVars
             PROVE  AppliedSoFar'
  OBVIOUS
<1>0. WarmTypeOK /\ AppliedSoFar
  BY DEF WarmInv
<1>1. UNCHANGED <<desired, nodes>> => \A n : specs(n)' = specs(n)
  BY DEF specs, Resolved
<1>2. UNCHANGED <<pool, key, replicas, listed, target>> => \A k : Exact(k)' = Exact(k)
  BY DEF Exact, Of, Wanted
<1>3. CASE listPools
  BY <1>0, <1>3, ListsStart DEF listPools, AppliedSoFar
<1>4. ASSUME NEW p \in Pools, poolKey(p)
      PROVE  AppliedSoFar'
  <2>1. step = "resolve" /\ step' = "resolve" /\ UNCHANGED <<listed, nodes, applied>>
    BY <1>4 DEF poolKey, apiVars
  <2>2. PoolsAsListed => PoolsAsListed'
    BY <1>0, <1>4, ListsStep
  <2> QED
    BY <1>0, <2>1, <2>2 DEF AppliedSoFar
<1>5. ASSUME GivesUp
      PROVE  AppliedSoFar'
  BY <1>5 DEF GivesUp, AppliedSoFar
<1>6. ASSUME NEW p \in Pools, writeShare(p)
      PROVE  AppliedSoFar'
  <2>1. step = "status" /\ UNCHANGED <<step, listed, nodes, applied, target, desired>>
    BY <1>6 DEF writeShare, apiVars
  <2>2. PoolsAsListed => PoolsAsListed'
    BY <1>0, <1>6, ListsStep
  <2> QED
    BY <1>0, <1>1, <2>1, <2>2 DEF AppliedSoFar
<1>7. CASE resolved
  <2>1. /\ step = "resolve" /\ step' = "apply"
        /\ todo' = (IF token THEN nodes ELSE {}) /\ applied' = (IF token THEN applied ELSE "no")
        /\ UNCHANGED <<listed, nodes>>
    BY <1>7 DEF resolved
  <2>2. PoolsAsListed => PoolsAsListed'
    BY <1>0, <1>7, ListsStep
  <2> QED
    BY <1>0, <2>1, <2>2 DEF AppliedSoFar
<1>8. ASSUME NEW n \in AllNodes, SetPools(n)
      PROVE  AppliedSoFar'
  <2>1. /\ step = "apply" /\ todo' = todo \ {n}
        /\ target' = [target EXCEPT ![n] = specs(n)]
        /\ UNCHANGED <<step, listed, nodes, desired, applied>>
    BY <1>8 DEF SetPools
  <2>2. target'[n] = specs(n) /\ \A m \in AllNodes \ {n} : target'[m] = target[m]
    BY <1>0, <2>1 DEF WarmTypeOK
  <2>3. nodes \subseteq AllNodes
    BY <1>0 DEF WarmTypeOK
  <2>4. PoolsAsListed => PoolsAsListed'
    BY <1>0, <1>8, ListsStep
  <2> QED
    BY <1>0, <1>1, <2>1, <2>2, <2>3, <2>4 DEF AppliedSoFar
<1>9. ASSUME NEW n \in AllNodes, SetPoolsFails(n)
      PROVE  AppliedSoFar'
  BY <1>9 DEF SetPoolsFails, AppliedSoFar
<1>10. CASE shareOut
  <2>1. /\ step = "apply" /\ todo = {} /\ step' = "status"
        /\ UNCHANGED <<listed, nodes, desired, applied, target>>
    BY <1>10 DEF shareOut
  <2>2. PoolsAsListed => PoolsAsListed'
    BY <1>0, <1>10, ListsStep
  <2> QED
    BY <1>0, <1>1, <2>1, <2>2 DEF AppliedSoFar
<1>11. CASE reconciled
  <2>1. /\ step = "status" /\ step' = "idle"
        /\ applied' = (IF applied = "sofar" THEN "yes" ELSE applied)
        /\ UNCHANGED <<pool, key, replicas, listed, target>>
    BY <1>11 DEF reconciled, Rest, apiVars
  <2>2. ASSUME applied = "sofar", listed # {}, NEW k \in Keys
        PROVE  Exact(k)
    BY <1>0, <2>1, <2>2, SentIsExact DEF AppliedSoFar
  <2> QED
    BY <1>0, <1>2, <2>1, <2>2 DEF AppliedSoFar
<1>12. CASE Environment
  BY <1>12 DEF Environment, PoolChanges, TemplateChanges, ListingChanges, NodeRestarts, Change,
               AppliedSoFar
<1>13. CASE UNCHANGED warmVars
  <2>1. UNCHANGED <<pool, key, replicas, listed, target, step, nodes, todo, desired, applied>>
    BY <1>13 DEF warmVars, apiVars, driverVars
  <2> QED
    BY <1>0, <1>1, <1>2, <2>1 DEF AppliedSoFar, PoolsAsListed
<1> QED
  BY <1>3, <1>4, <1>5, <1>6, <1>7, <1>8, <1>9, <1>10, <1>11, <1>12, <1>13
     DEF WarmNext, Driver, resolveFails, runRestarting

LEMMA ToldStep == WarmInv /\ [WarmNext]_warmVars => ToldSoFar'
<1> SUFFICES ASSUME WarmInv, [WarmNext]_warmVars
             PROVE  ToldSoFar'
  OBVIOUS
<1>0. WarmTypeOK /\ ToldSoFar
  BY DEF WarmInv
<1>1. UNCHANGED <<pool, key, replicas, seen>> =>
        /\ \A k : Of(k)' = Of(k)
        /\ \A given, k : Shared(given, k)' = Shared(given, k)
  BY DEF Shared, Of, Wanted
<1>2. UNCHANGED desired => Resolved' = Resolved
  BY DEF Resolved
<1>3. CASE listPools
  BY <1>0, <1>3, ListsStart DEF listPools, apiVars, ToldSoFar
<1>4. ASSUME NEW p \in Pools, poolKey(p)
      PROVE  ToldSoFar'
  <2>1. /\ step = "resolve" /\ step' = "resolve" /\ p \in todo /\ todo' = todo \ {p}
        /\ UNCHANGED <<pool, key>>
    BY <1>4 DEF poolKey, First, apiVars
  <2>2. /\ told' # "no" => told' = told
        /\ told' = "sofar" /\ key[p] = NoPoolKey => status'[p] = 0
        /\ \A q \in Pools \ {p} : status'[q] = status[q]
    BY <1>0, <1>4 DEF poolKey, writeStatus, WarmTypeOK
  <2>3. PoolsAsListed => PoolsAsListed'
    BY <1>0, <1>4, ListsStep
  <2>4. pool \subseteq Pools
    BY <1>0 DEF WarmTypeOK
  <2> QED
    BY <1>0, <2>1, <2>2, <2>3, <2>4 DEF ToldSoFar
<1>5. ASSUME GivesUp
      PROVE  ToldSoFar'
  BY <1>5 DEF GivesUp, Untold, ToldSoFar
<1>6. ASSUME NEW p \in Pools, writeShare(p), told' # "no"
      PROVE  ToldSoFar'
  <2>1. /\ step = "status" /\ p \in todo /\ todo' = todo \ {p}
        /\ status' = [status EXCEPT ![p] = shares[p]]
        /\ UNCHANGED <<pool, key, replicas, seen, desired, shares, step, told>>
    BY <1>6 DEF writeShare, First, writeStatus, apiVars
  <2>2. status'[p] = shares[p] /\ \A q \in Pools \ {p} : status'[q] = status[q]
    BY <1>0, <2>1 DEF WarmTypeOK
  <2>3. PoolsAsListed => PoolsAsListed'
    BY <1>0, <1>6, ListsStep
  <2>4. pool \subseteq Pools /\ Resolved \subseteq Pools
    BY <1>0 DEF WarmTypeOK, Resolved
  <2>5. ASSUME told = "sofar"
        PROVE  key[p] # NoPoolKey \/ p \notin pool
    BY <1>0, <2>1, <2>5 DEF ToldSoFar, PoolsAsListed, TodoIsListed, Resolved, WarmInv
  <2> QED
    BY <1>0, <1>1, <1>2, <2>1, <2>2, <2>3, <2>4, <2>5 DEF ToldSoFar
<1>7. CASE resolved
  <2>1. step = "resolve" /\ step' = "apply" /\ todo = {} /\ UNCHANGED <<pool, key, status, told>>
    BY <1>7 DEF resolved, apiVars, statusVars
  <2>2. PoolsAsListed => PoolsAsListed'
    BY <1>0, <1>7, ListsStep
  <2> QED
    BY <1>0, <2>1, <2>2 DEF ToldSoFar
<1>8. ASSUME NEW n \in AllNodes, SetPools(n) \/ SetPoolsFails(n)
      PROVE  ToldSoFar'
  <2>1. step = "apply" /\ UNCHANGED <<step, pool, key, status, told>>
    BY <1>8 DEF SetPools, SetPoolsFails, apiVars, statusVars
  <2>2. PoolsAsListed => PoolsAsListed'
    BY <1>0, <1>8, ListsStep
  <2> QED
    BY <1>0, <2>1, <2>2 DEF ToldSoFar
<1>9. CASE shareOut
  <2>1. /\ step = "apply" /\ step' = "status" /\ todo' = Resolved
        /\ UNCHANGED <<pool, key, replicas, status, told, desired>>
    BY <1>9 DEF shareOut, apiVars
  <2>2. PoolsAsListed => PoolsAsListed'
    BY <1>0, <1>9, ListsStep
  <2>3. ASSUME told = "sofar", NEW k \in Keys, Of(k) # {}
        PROVE  Shared(shares, k)'
    <3>1. SharedAs(shares', k, seen'[k])
      BY <1>0, <1>9, <2>3, SharedOut DEF ToldSoFar
    <3>2. Of(k)' = Of(k) /\ Wanted(k)' = Wanted(k) /\ replicas' = replicas
      BY <2>1 DEF Of, Wanted
    <3> QED
      BY <3>1, <3>2 DEF Shared, SharedAs, Total
  <2>4. \A k : Of(k)' = Of(k)
    BY <2>1 DEF Of
  <2> QED
    BY <1>0, <1>2, <2>1, <2>2, <2>3, <2>4 DEF ToldSoFar
<1>10. CASE reconciled
  <2>1. /\ step = "status" /\ todo = {} /\ step' = "idle"
        /\ told' = (IF told = "sofar" THEN "yes" ELSE told)
        /\ UNCHANGED <<pool, key, replicas, status, seen>>
    BY <1>10 DEF reconciled, Rest, apiVars
  <2>2. ASSUME told = "sofar", NEW k \in Keys, Of(k) # {}
        PROVE  Shared(status, k)
    <3>1. PoolsAsListed /\ Shared(shares, k) /\ \A p \in Resolved : status[p] = shares[p]
      BY <1>0, <2>1, <2>2 DEF ToldSoFar
    <3>2. Sent(k) = Of(k) /\ Of(k) \in SUBSET Pools /\ Of(k) \subseteq Resolved
      BY <1>0, <2>1, <3>1, SentIsOf DEF Sent
    <3>3. \A p \in Of(k) : shares[p] \in Int /\ shares[p] = status[p]
      BY <1>0, <3>1, <3>2, BoundsAssumption DEF WarmTypeOK
    <3>4. Total(shares, Of(k)) = Total(status, Of(k))
      BY <3>2, <3>3, SetsOfPools, SumSame
    <3> QED
      BY <3>1, <3>3, <3>4 DEF Shared, Total
  <2> QED
    BY <1>0, <1>1, <2>1, <2>2 DEF ToldSoFar, StatusIsShared
<1>11. ASSUME NEW n \in AllNodes, ListingChanges(n) \/ NodeRestarts(n)
       PROVE  ToldSoFar'
  <2>1. UNCHANGED <<pool, key, replicas, status, told, seen, step, todo, desired, shares>>
    BY <1>11 DEF ListingChanges, NodeRestarts, apiVars, statusVars, driverVars
  <2>2. PoolsAsListed => PoolsAsListed'
    BY <1>0, <1>11, ListsStep
  <2> QED
    BY <1>0, <1>1, <1>2, <2>1, <2>2 DEF ToldSoFar, StatusIsShared
<1>12. ASSUME told' = "no"
       PROVE  ToldSoFar'
  BY <1>12 DEF ToldSoFar
<1>13. CASE UNCHANGED warmVars
  <2>1. UNCHANGED <<pool, key, replicas, status, told, seen, step, todo, desired, shares>>
    BY <1>13 DEF warmVars, apiVars, statusVars, driverVars
  <2> QED
    BY <1>0, <1>1, <1>2, <2>1 DEF ToldSoFar, StatusIsShared, PoolsAsListed
<1> QED
  BY <1>3, <1>4, <1>5, <1>6, <1>7, <1>8, <1>9, <1>10, <1>11, <1>12, <1>13
     DEF WarmNext, Driver, Environment, resolveFails, runRestarting, PoolChanges,
         TemplateChanges, Untold

-----------------------------------------------------------------------------
LEMMA InitWarm == WarmInit => WarmInv
<1> SUFFICES ASSUME WarmInit
             PROVE  WarmInv
  OBVIOUS
<1>1. WarmTypeOK
  <2>1. target \in [AllNodes -> Targets]
    BY NoPoolsType DEF WarmInit
  <2>2. target \in [AllNodes -> UNION {[K -> 0..MaxTarget] : K \in SUBSET Keys}]
    BY <2>1 DEF Targets
  <2> QED
    BY <2>2, BoundsAssumption DEF WarmInit, WarmTypeOK, Unresolved
<1> QED
  BY <1>1 DEF WarmInit, WarmInv, TodoIsListed, KeptIsResolved, AppliedSoFar, ToldSoFar

LEMMA StepWarm == WarmInv /\ [WarmNext]_warmVars => WarmInv'
BY TypesStep, KeptStep, AppliedStep, ToldStep DEF WarmInv

\* Whatever changes while the driver works, and wherever it fails or restarts, it
\* knows of a pool that kept its key no other key, and as long as nothing changes
\* what reconcileOnce has applied and told so far is what its lists ask for.
THEOREM WarmInvariant == WarmSpec => []WarmInv
BY InitWarm, StepWarm, PTL DEF WarmSpec

\* A reconcile that applyToNodes carried to every node, with nothing changed since
\* its lists, leaves the fleet with exactly the replicas that the pools of each key
\* ask for between them, no two nodes apart by more than one microVM per pool.
THEOREM FleetIsExact == WarmSpec => []AppliedIsExact
<1>1. WarmInv => AppliedIsExact
  BY DEF WarmInv, AppliedSoFar, AppliedIsExact
<1> QED
  BY <1>1, WarmInvariant, PTL

\* A reconcile whose writeStatus calls all went through leaves the pools of a key
\* reporting between them what the nodes reported, each within one microVM of its
\* exact proportion, however apportionWarm had to round.
THEOREM StatusesAddUp == WarmSpec => []StatusIsShared
<1>1. WarmInv => StatusIsShared
  BY DEF WarmInv, ToldSoFar, StatusIsShared
<1> QED
  BY <1>1, WarmInvariant, PTL

\* A node that a reconcile writes to is sent every key that a kept pool wants.
LEMMA KeptIsSent ==
    ASSUME WarmInv, step = "apply", NEW n \in AllNodes, NEW p \in kept
    PROVE  key[p] \in DOMAIN specs(n)
BY DEF WarmInv, WarmTypeOK, KeptIsResolved, specs, Resolved

\* However pools, templates and nodes change during a reconcile, and wherever it
\* fails or restarts, a node loses a pool only when nobody wants it, or by
\* restarting itself: applyToNodes never drains the pool of a kept key.
THEOREM WarmPoolIsKept == WarmSpec => KeptWhileWanted
<1> DEFINE Losing == \A n \in AllNodes, k \in Keys :
              k \in DOMAIN target[n] \ DOMAIN target'[n] /\ ~NodeRestarts(n) =>
                  \A p \in kept : key[p] # k
<1>1. WarmInv /\ [WarmNext]_warmVars => [Losing]_warmVars
  <2> SUFFICES ASSUME WarmInv, WarmNext, NEW n \in AllNodes, NEW k \in Keys,
                      k \in DOMAIN target[n] \ DOMAIN target'[n], ~NodeRestarts(n),
                      NEW p \in kept
               PROVE  key[p] # k
      OBVIOUS
  <2>1. target[n] # target'[n]
        OBVIOUS
  <2>2. ASSUME NEW m \in AllNodes, SetPools(m) \/ SetPoolsFails(m)
        PROVE  key[p] # k
    <3>1. step = "apply" /\ key[p] \in DOMAIN specs(n)
          BY <2>2, KeptIsSent DEF SetPools, SetPoolsFails
    <3>2. target' = target \/ target' = [target EXCEPT ![m] = specs(m)]
          BY <2>2 DEF SetPools, SetPoolsFails
    <3>3. m = n /\ target'[n] = specs(n)
          BY <2>1, <3>2 DEF WarmInv, WarmTypeOK
    <3> QED
        BY <3>1, <3>3
  <2>3. ASSUME NEW m \in AllNodes, NodeRestarts(m)
        PROVE  FALSE
    <3>1. m # n
          BY <2>3
    <3> QED
        BY <2>1, <2>3, <3>1 DEF NodeRestarts, WarmInv, WarmTypeOK
  <2>4. \/ target' = target
        \/ \E m \in AllNodes : SetPools(m) \/ SetPoolsFails(m) \/ NodeRestarts(m)
        BY DEF WarmNext, Driver, Environment, resolveFails, runRestarting, listPools, poolKey,
               writeShare, resolved, shareOut, reconciled, GivesUp, PoolChanges,
               TemplateChanges, ListingChanges
  <2> QED
      BY <2>1, <2>2, <2>3, <2>4
<1> QED
    BY <1>1, WarmInvariant, PTL DEF WarmSpec, KeptWhileWanted
=============================================================================
