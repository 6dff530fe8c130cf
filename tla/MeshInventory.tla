---------------------------- MODULE MeshInventory ----------------------------
(***************************************************************************)
(* The inventory source of a mesh without Kubernetes                       *)
(* (src/pkg/scale/meshinventory/source.go).  On each tick it reads every   *)
(* member, learns the peers they name, forgets members, folds two members  *)
(* that turn out to be one node, and publishes a snapshot.  Only the tick  *)
(* touches the members and every read of a member ends within the tick, so *)
(* a tick is one step.                                                     *)
(*                                                                         *)
(* The mesh is external: each address answers or does not (an error, a bad *)
(* token, no advertise_addr), with the node key it advertises, which a     *)
(* restart may change, and names the peers its gossip knows.               *)
(***************************************************************************)
EXTENDS Integers, FiniteSets

CONSTANTS
    Addrs,     \* dialable addresses; a node's key is one of them
    Seeds,     \* Options.Seeds
    NoKey,     \* no node
    MaxStale   \* Options.MaxStale: failed ticks a node keeps its snapshot

ASSUME SeedsAssumption == Seeds \subseteq Addrs /\ Seeds # {}
ASSUME NoKeyAssumption == NoKey \notin Addrs
ASSUME MaxStaleAssumption == MaxStale \in Nat

VARIABLES
    host,      \* each address: "up" or "down"
    keyOf,     \* the advertise address answered at each address
    gossip,    \* the node keys the mesh names
    pc,        \* "new", "again", "running" or "failed"
    members,   \* the addresses polled
    fails,     \* each member's failed ticks in a row, MaxStale + 1 standing
               \* for more
    inv,       \* the node key of each member's last answer
    snap,      \* published: the age in ticks of each node's rows, -1 if absent
    silent,    \* history: ticks since each node key was last answered
    steady,    \* history: ticks in a row that found each node settled
    dead       \* history: ticks in a row that found each address dead

meshVars == <<host, keyOf, gossip>>
history == <<silent, steady, dead>>
sourceVars == <<pc, members, fails, inv, snap, history>>
vars == <<meshVars, sourceVars>>

TypeOK ==
    /\ host \in [Addrs -> {"up", "down"}]
    /\ keyOf \in [Addrs -> Addrs]
    /\ gossip \in SUBSET Addrs
    /\ pc \in {"new", "again", "running", "failed"}
    /\ members \in SUBSET Addrs
    /\ fails \in [Addrs -> 0..MaxStale + 1]
    /\ inv \in [Addrs -> Addrs \cup {NoKey}]
    /\ snap \in [Addrs -> -1..MaxStale]
    /\ silent \in [Addrs -> 0..MaxStale + 1]
    /\ steady \in [Addrs -> 0..2]
    /\ dead \in [Addrs -> 0..MaxStale + 1]

Init ==
    /\ host \in [Addrs -> {"up", "down"}]
    /\ keyOf = [a \in Addrs |-> a]
    /\ gossip = Addrs
    /\ pc = "new"
    /\ members = Seeds
    /\ fails = [a \in Addrs |-> 0]
    /\ inv = [a \in Addrs |-> NoKey]
    /\ snap = [a \in Addrs |-> -1]
    /\ silent = [a \in Addrs |-> MaxStale + 1]
    /\ steady = [a \in Addrs |-> 0]
    /\ dead = [a \in Addrs |-> 0]

-----------------------------------------------------------------------------
(* The mesh.                                                               *)

GoesDown(a) ==
    /\ host[a] = "up"
    /\ host' = [host EXCEPT ![a] = "down"]
    /\ keyOf' = [keyOf EXCEPT ![a] = a]
    /\ UNCHANGED <<gossip, sourceVars>>

\* The node behind a starts under the advertise address k.
ComesUp(a, k) ==
    /\ host[a] = "down"
    /\ host' = [host EXCEPT ![a] = "up"]
    /\ keyOf' = [keyOf EXCEPT ![a] = k]
    /\ UNCHANGED <<gossip, sourceVars>>

GossipChanges(k) ==
    /\ gossip' = IF k \in gossip THEN gossip \ {k} ELSE gossip \cup {k}
    /\ UNCHANGED <<host, keyOf, sourceVars>>

-----------------------------------------------------------------------------
\* Mutated forms of the definitions below.

\* Members that are one node are all dropped, to be learnt again.
survivorsNone(answered, k) == {{}}

\* A member nobody names stays for ever.
forgottenNever(answered) == {}

\* A node keeps its snapshot one tick too long.
publishableLate(ms, fs, is, k) == {a \in ms : is[a] = k /\ fs[a] <= MaxStale + 1}

\* Peers are learnt only from the seeds' first answers.
learntNever(answered, ms) == {}

-----------------------------------------------------------------------------
\* poll: the members that answer, in this tick.
poll == {a \in members : host[a] = "up"}

\* The peers the answering members name; a node does not name itself.
named(answered) ==
    UNION {gossip \ {keyOf[a]} : a \in answered}

failsAfter(answered) ==
    [a \in Addrs |-> IF a \in answered \/ a \notin members THEN 0
                     ELSE IF fails[a] > MaxStale THEN fails[a] ELSE fails[a] + 1]

\* A silent member that nobody names any more is forgotten, unless it is a
\* seed, or nobody answered at all.
forgotten(answered) ==
    {a \in members \ (Seeds \cup answered \cup named(answered)) :
        answered # {} /\ failsAfter(answered)[a] > MaxStale}

\* What is left of the answering members that are one node: every seed, else
\* the member dialed at the node's own key, else any one of them, whichever
\* the map yields first.
survivors(answered, k) ==
    LET M == {a \in answered : keyOf[a] = k}
    IN  IF M \cap Seeds # {} THEN {M \cap Seeds}
        ELSE IF k \in M THEN {{k}}
        ELSE {{a} : a \in M}

\* A named address that is neither a member nor the key of a node that
\* answered becomes a member.
learnt(answered, ms) ==
    {a \in named(answered) : a \notin ms /\ \A b \in answered : keyOf[b] # a}

\* publish: the members that can stand for node k.
publishable(ms, fs, is, k) == {a \in ms : is[a] = k /\ fs[a] <= MaxStale}

\* The freshest of them.
best(ms, fs, is, k) ==
    LET P == publishable(ms, fs, is, k)
    IN  IF P = {} THEN -1
        ELSE fs[CHOOSE a \in P : \A b \in P : fs[a] <= fs[b]]

\* Node k is up at its own address, alone under its key, and named in the
\* gossip, which some other node's seed answers with.
Settled(k) ==
    /\ k \notin Seeds /\ k \in gossip
    /\ host[k] = "up"
    /\ \A a \in Addrs : host[a] = "up" => (keyOf[a] = k <=> a = k)
    /\ \E s \in Seeds : host[s] = "up"

\* Address a is down and unnamed while some seed answers.
Dead(a) ==
    /\ a \notin Seeds /\ a \notin gossip
    /\ host[a] = "down"
    /\ \E s \in Seeds : host[s] = "up"

tick(answered) ==
    LET keys == {keyOf[a] : a \in answered}
    IN  \E keep \in [keys -> SUBSET answered] :
          /\ \A k \in keys : keep[k] \in survivors(answered, k)
          /\ LET folded == (members \ (answered \cup forgotten(answered)))
                             \cup UNION {keep[k] : k \in keys}
             IN  /\ members' = folded \cup learnt(answered, folded)
                 /\ fails' = [a \in Addrs |-> IF a \in folded THEN failsAfter(answered)[a]
                                              ELSE 0]
                 /\ inv' = [a \in Addrs |-> IF a \notin folded THEN NoKey
                                            ELSE IF a \in answered THEN keyOf[a]
                                            ELSE inv[a]]
          /\ snap' = [k \in Addrs |-> best(members', fails', inv', k)]
          /\ silent' = [k \in Addrs |-> IF k \in keys THEN 0
                                        ELSE IF silent[k] > MaxStale THEN silent[k]
                                        ELSE silent[k] + 1]
          /\ steady' = [k \in Addrs |-> IF ~Settled(k) THEN 0
                                        ELSE IF steady[k] = 2 THEN 2 ELSE steady[k] + 1]
          /\ dead' = [a \in Addrs |-> IF ~Dead(a) THEN 0
                                      ELSE IF dead[a] > MaxStale THEN dead[a]
                                      ELSE dead[a] + 1]

\* New: the first tick must reach a seed, and a seed that did not answer must
\* not have refused.
New ==
    /\ pc = "new"
    /\ tick(poll)
    /\ \E refused \in BOOLEAN :
        pc' = IF (refused /\ poll # Seeds) \/ poll = {} THEN "failed"
             ELSE IF Cardinality(members') > Cardinality(Seeds) THEN "again"
             ELSE "running"
    /\ UNCHANGED meshVars

\* New reads the members the seeds named before it returns.
NewAgain ==
    /\ pc = "again"
    /\ tick(poll)
    /\ pc' = "running"
    /\ UNCHANGED meshVars

run ==
    /\ pc = "running"
    /\ tick(poll)
    /\ UNCHANGED <<meshVars, pc>>

Mesh ==
    /\ pc # "failed"
    /\ \/ \E a \in Addrs : GoesDown(a)
       \/ \E a, k \in Addrs : ComesUp(a, k)
       \/ \E k \in Addrs : GossipChanges(k)

Next == New \/ NewAgain \/ run \/ Mesh

Spec == Init /\ [][Next]_vars

-----------------------------------------------------------------------------
\* A node that answered in the last tick is listed with the rows it answered
\* with, although a second member of the same node failed or was folded away.
\* docs/e2b-compat.md:93: a silent node "keeps its last snapshot for 3 ticks
\* and then leaves the listing".  A node nobody heard for longer is never
\* served, however its members were folded, forgotten and learnt again.
ListingFollowsAnswers ==
    /\ TypeOK
    /\ \A k \in Addrs : silent[k] = 0 => snap[k] = 0
    /\ \A k \in Addrs : silent[k] > MaxStale => snap[k] = -1

\* From one reachable seed the whole mesh is learnt: a node that two ticks in a
\* row found up and named is listed with the rows it answered the last with,
\* whatever the members were before (the first names it, the second reads it).
NamedIsFound == \A k \in Addrs : steady[k] = 2 => snap[k] = 0

\* The configured seeds are never lost, whichever of two addresses of one node
\* the fold keeps: with them gone a partitioned process could not rejoin.  Any
\* other member that is down and that nobody names is forgotten after
\* MaxStale + 1 ticks: the members do not grow with every node there ever was.
MembersFollowMesh ==
    /\ Seeds \subseteq members
    /\ \A a \in Addrs : dead[a] > MaxStale => a \notin members
=============================================================================
