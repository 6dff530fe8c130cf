------------------------------ MODULE ReadPath ------------------------------
(***************************************************************************)
(* How the store finds one sandbox (resolve, behind Get, GetByClaimID and  *)
(* every lifecycle verb, src/pkg/scale/sandboxstore_impl.go) and what the  *)
(* verbs then do to it.  The Kubernetes API (src/pkg/scale/apiserver/)     *)
(* addresses a sandbox by its name, the e2b API by its claim id.  Nodes    *)
(* publish their rows seconds late, and some without claim ids; the index  *)
(* is lossy, another replica claims without this one's index hearing of    *)
(* it, and claims end while a request is between two reads.                *)
(*                                                                         *)
(* A lookup tries, in this order: the indexed node's published rows, that  *)
(* node itself, every node's published rows, every node itself.            *)
(*                                                                         *)
(* sandboxd and the publishers of inventories are external.  A sweep reads *)
(* the nodes one at a time in any order and stops at the first hit, which  *)
(* is what the concurrent FirstHit returns.                                *)
(***************************************************************************)
EXTENDS Integers, FiniteSets

CONSTANTS
    Ids,      \* sandboxd claim ids, never reused
    Names,    \* namespace/name of a Sandbox
    Nodes,    \* nodes running sandboxd
    Ops,      \* concurrent requests
    NoNode,   \* no node
    NoId,     \* no claim
    NoKey     \* no lookup key

ASSUME NoNodeAssumption == NoNode \notin Nodes
ASSUME KeysAssumption ==
    /\ NoId \notin Ids
    /\ Ids \cap Names = {}
    /\ NoKey \notin Ids \cup Names

Keys == Ids \cup Names

VARIABLES
    claim,   \* each claim id: its name, node and how far it got
    rows,    \* the claim ids in each node's published inventory
    listed,  \* the nodes whose inventory the source holds
    bare,    \* the nodes that publish their rows without claim ids
    known,   \* the resolution index
    op       \* each request: its key, how far it got, what it found

vars == <<claim, rows, listed, bare, known, op>>

Index == INSTANCE LossyIndex

Steps == {"idle", "indexRows", "indexLive", "rows", "live", "remember", "act", "done"}
Answers == {"none", "found", "deleted", "acted", "missing", "gone", "refused",
            "error"}

TypeOK ==
    /\ claim \in [Ids -> [name : Names, node : Nodes \cup {NoNode},
                          state : {"unborn", "delivered", "named", "live", "gone"}]]
    /\ rows \in [Nodes -> SUBSET Ids]
    /\ listed \in SUBSET Nodes
    /\ bare \in SUBSET Nodes
    /\ known \in [Keys -> Nodes \cup {NoNode}]
    /\ op \in [Ops -> [key : Keys \cup {NoKey}, pc : Steps, node : Nodes \cup {NoNode},
                       hit : Ids \cup {NoId}, todo : SUBSET Nodes,
                       noId : BOOLEAN, held : SUBSET Ids, excused : BOOLEAN,
                       answer : Answers]]

\* The claims a node holds: delivered and not released, whoever knows of it.
Alive(id) == claim[id].state \in {"delivered", "named", "live"}

\* nameMatch or the claim-id match: the rows a request is looking for.
Matches(id, key) == id = key \/ claim[id].name = key

NoRequest == [key |-> NoKey, pc |-> "idle", node |-> NoNode, hit |-> NoId, todo |-> {},
              noId |-> FALSE, held |-> {}, excused |-> FALSE, answer |-> "none"]

Init ==
    /\ \E names \in [Ids -> Names] :
          claim = [id \in Ids |-> [name |-> names[id], node |-> NoNode,
                                   state |-> "unborn"]]
    /\ rows = [n \in Nodes |-> {}]
    /\ listed = Nodes
    /\ bare \in SUBSET Nodes
    /\ Index!Init
    /\ op = [o \in Ops |-> NoRequest]

-----------------------------------------------------------------------------
(* Claims, and the nodes' publishing.                                      *)

\* A claim on this replica delivers a microVM; Claim then stores its two
\* index keys one after the other and returns.
ClaimDelivered(id, n) ==
    /\ claim[id].state = "unborn"
    /\ claim' = [claim EXCEPT ![id].state = "delivered", ![id].node = n]
    /\ UNCHANGED <<rows, listed, bare, known, op>>

RememberName(id) ==
    /\ claim[id].state = "delivered"
    /\ claim' = [claim EXCEPT ![id].state = "named"]
    /\ Index!Remember(claim[id].name, claim[id].node)
    /\ UNCHANGED <<rows, listed, bare, op>>

RememberClaim(id) ==
    /\ claim[id].state = "named"
    /\ claim' = [claim EXCEPT ![id].state = "live"]
    /\ Index!Remember(id, claim[id].node)
    /\ UNCHANGED <<rows, listed, bare, op>>

\* Another replica's claim: live, and not in this replica's index.
ClaimElsewhere(id, n) ==
    /\ claim[id].state = "unborn"
    /\ claim' = [claim EXCEPT ![id].state = "live", ![id].node = n]
    /\ UNCHANGED <<rows, listed, bare, known, op>>

\* A claim's end, by its lease or by another replica: no request is still
\* entitled to find it.
ClaimEnds(id) ==
    /\ claim[id].state = "live"
    /\ claim' = [claim EXCEPT ![id].state = "gone"]
    /\ op' = [o \in Ops |-> [op[o] EXCEPT !.held = @ \ {id}]]
    /\ UNCHANGED <<rows, listed, bare, known>>

Publish(n) ==
    /\ rows' = [rows EXCEPT ![n] = {id \in Ids : claim[id].node = n /\ Alive(id)}]
    /\ listed' = listed \cup {n}
    /\ UNCHANGED <<claim, bare, known, op>>

\* A node's inventory goes stale or is deleted.
Unlist(n) ==
    /\ n \in listed
    /\ listed' = listed \ {n}
    /\ UNCHANGED <<claim, rows, bare, known, op>>

-----------------------------------------------------------------------------
(* A request.  `held` are the claims it is entitled to find: returned to   *)
(* their caller when it started and alive ever since.  `excused` marks one *)
(* some node did not answer, or that missed a node's inventory.            *)

\* The request is answered; what no longer matters is cleared.
Answered(r, answer) == [r EXCEPT !.pc = "done", !.answer = answer, !.todo = {}]

\* A hit returns the row, with or without its claim id, and the node it was
\* read on.
Hit(o, next, id, n, noId) ==
    op' = [op EXCEPT ![o].pc = next, ![o].hit = id, ![o].node = n, ![o].todo = {},
                     ![o].noId = noId]

\* The sweep asks the nodes listed now.
Sweep(r, pc) ==
    [r EXCEPT !.pc = pc, !.todo = listed, !.excused = @ \/ listed # Nodes]

-----------------------------------------------------------------------------
\* Mutated forms of the definitions below.

\* The hit is remembered on some node that was swept.
rememberHitOnIndexed(o) ==
    /\ op[o].pc = "remember"
    /\ \E n \in Nodes : Index!Remember(op[o].key, n)
    /\ op' = [op EXCEPT ![o].pc = "act"]
    /\ UNCHANGED <<claim, rows, listed, bare>>

\* A published row hides the node's own answer: the live lookup is skipped
\* when any node has published.
sweepRowsDoneMissing(o) ==
    /\ op[o].pc = "rows"
    /\ op[o].todo = {}
    /\ op' = [op EXCEPT ![o] = Answered(@, "missing")]
    /\ UNCHANGED <<claim, rows, listed, bare, known>>

\* A row without a claim id counts as released.
noClaimIDDeleted(o) ==
    /\ op[o].pc = "act"
    /\ op[o].noId
    /\ op' = [op EXCEPT ![o] = Answered(@, "deleted")]
    /\ UNCHANGED <<claim, rows, listed, bare, known>>

-----------------------------------------------------------------------------
\* resolve begins with the index; a key it does not hold starts the sweep.
resolve(o, key) ==
    /\ op[o].pc = "idle"
    /\ Index!Lookup(key)
    /\ LET held == {id \in Ids : claim[id].state = "live" /\ Matches(id, key)}
           r == [NoRequest EXCEPT !.key = key, !.held = held]
       IN  op' = [op EXCEPT ![o] =
                    IF known[key] = NoNode THEN Sweep(r, "rows")
                    ELSE [r EXCEPT !.pc = "indexRows", !.node = known[key]]]
    /\ UNCHANGED <<claim, rows, listed, bare>>

\* matchOnNode: a matching row of one node's published inventory.
matchOnNode(o, n, id) ==
    /\ n \in listed
    /\ id \in rows[n]
    /\ Matches(id, op[o].key)
    /\ n \in bare => op[o].key \in Names

NoMatchOnNode(o, n) == \A id \in Ids : ~matchOnNode(o, n, id)

\* liveOnNode: the node's own answer, by claim ref or by claim id.
liveOnNode(o, n, id) ==
    /\ n \in listed
    /\ Alive(id)
    /\ claim[id].node = n
    /\ Matches(id, op[o].key)

NotLiveOnNode(o, n) == \A id \in Ids : ~liveOnNode(o, n, id)

readIndexRows(o) ==
    /\ op[o].pc = "indexRows"
    /\ \/ \E id \in Ids : /\ matchOnNode(o, op[o].node, id)
                        /\ Hit(o, "act", id, op[o].node, op[o].node \in bare)
       \/ /\ NoMatchOnNode(o, op[o].node)
          /\ op' = [op EXCEPT ![o].pc = "indexLive"]
    /\ UNCHANGED <<claim, rows, listed, bare, known>>

\* A node that does not answer in liveLookupTimeout is a miss; the fleet is
\* swept next.
readIndexLive(o) ==
    /\ op[o].pc = "indexLive"
    /\ \/ \E id \in Ids : liveOnNode(o, op[o].node, id) /\ Hit(o, "act", id, op[o].node, FALSE)
       \/ op' = [op EXCEPT ![o] = Sweep(@, "rows")]
    /\ UNCHANGED <<claim, rows, listed, bare, known>>

\* FirstHit over the published inventories.
sweepRows(o, n) ==
    /\ op[o].pc = "rows"
    /\ n \in op[o].todo
    /\ \/ \E id \in Ids : matchOnNode(o, n, id) /\ Hit(o, "remember", id, n, n \in bare)
       \/ /\ NoMatchOnNode(o, n)
          /\ op' = [op EXCEPT ![o].todo = @ \ {n}]
    /\ UNCHANGED <<claim, rows, listed, bare, known>>

sweepRowsDone(o) ==
    /\ op[o].pc = "rows"
    /\ op[o].todo = {}
    /\ op' = [op EXCEPT ![o] = Sweep(@, "live")]
    /\ UNCHANGED <<claim, rows, listed, bare, known>>

\* FirstHit over the nodes themselves; a silent one is a miss.
sweepLive(o, n) ==
    /\ op[o].pc = "live"
    /\ n \in op[o].todo
    /\ \/ \E id \in Ids : liveOnNode(o, n, id) /\ Hit(o, "remember", id, n, FALSE)
       \/ /\ NotLiveOnNode(o, n)
          /\ op' = [op EXCEPT ![o].todo = @ \ {n}, ![o].excused = @ \/ n \notin listed]
       \/ op' = [op EXCEPT ![o].todo = @ \ {n}, ![o].excused = TRUE]
    /\ UNCHANGED <<claim, rows, listed, bare, known>>

sweepLiveDone(o) ==
    /\ op[o].pc = "live"
    /\ op[o].todo = {}
    /\ op' = [op EXCEPT ![o] = Answered(@, "missing")]
    /\ UNCHANGED <<claim, rows, listed, bare, known>>

\* resolve remembers what a sweep found.
rememberHit(o) ==
    /\ op[o].pc = "remember"
    /\ Index!Remember(op[o].key, op[o].node)
    /\ op' = [op EXCEPT ![o].pc = "act"]
    /\ UNCHANGED <<claim, rows, listed, bare>>

-----------------------------------------------------------------------------
(* What the request wanted the row for.  Every kind resolves alike, so the *)
(* kind is chosen here.  A request by name is of the Kubernetes API, one   *)
(* by claim id of the e2b API.                                             *)

\* Get returns the row.
Get(o) ==
    /\ op[o].pc = "act"
    /\ op' = [op EXCEPT ![o] = Answered(@, "found")]
    /\ UNCHANGED <<claim, rows, listed, bare, known>>

\* nodeClient cannot resolve the node any more, or the node does not answer.
NodeFails(o) ==
    /\ op[o].pc = "act"
    /\ ~op[o].noId
    /\ op' = [op EXCEPT ![o] = Answered(@, "error")]
    /\ UNCHANGED <<claim, rows, listed, bare, known>>

\* Whether the node the row was read on still holds the claim.
NodeHolds(o) == claim[op[o].hit].node = op[o].node /\ Alive(op[o].hit)

\* A Kubernetes delete is validated against the object that was read.
refuseDelete(o) ==
    /\ op[o].pc = "act"
    /\ op[o].key \in Names
    /\ op' = [op EXCEPT ![o] = Answered(@, "refused")]
    /\ UNCHANGED <<claim, rows, listed, bare, known>>

\* The Kubernetes API refuses a row that names no claim: it never guesses one
\* by its name.
noClaimID(o) ==
    /\ op[o].pc = "act"
    /\ op[o].noId
    /\ op' = [op EXCEPT ![o] = Answered(@, "error")]
    /\ UNCHANGED <<claim, rows, listed, bare, known>>

\* Release of the claim id on the node the row named; a node that does not hold
\* it answers 404, which Release takes for success.
Release(o) ==
    /\ op[o].pc = "act"
    /\ op[o].node \in listed
    /\ claim' = IF NodeHolds(o) THEN [claim EXCEPT ![op[o].hit].state = "gone"] ELSE claim
    /\ LET ended == IF NodeHolds(o) THEN {op[o].hit} ELSE {}
           over(r) == [r EXCEPT !.held = @ \ ended]
       IN  op' = [p \in Ops |-> IF p = o THEN Answered(over(op[o]), "deleted")
                                ELSE over(op[p])]
    /\ UNCHANGED <<rows, listed, bare, known>>

\* The answer to a verb, from the node's.
verbError(held) == IF held THEN "acted" ELSE "gone"

\* A verb (pause, resume, snapshot, fork, renew, read) acts on the claim id at
\* the node, which answers 404 for one it does not hold.
Verb(o) ==
    /\ op[o].pc = "act"
    /\ op[o].node \in listed
    /\ op' = [op EXCEPT ![o] = Answered(@, verbError(NodeHolds(o)))]
    /\ UNCHANGED <<claim, rows, listed, bare, known>>

\* deleteSandbox of the e2b API, Delete of the Kubernetes API.
deleteSandbox(o) == op[o].key \in Ids /\ Release(o)
Delete(o) == op[o].key \in Names /\ ~op[o].noId /\ Release(o)

\* A verb of the e2b API, a lifecycle subresource of the Kubernetes API.
e2bVerb(o) == op[o].key \in Ids /\ Verb(o)
lifecycleCreate(o) == op[o].key \in Names /\ ~op[o].noId /\ Verb(o)

Request(o) ==
    \/ readIndexRows(o) \/ readIndexLive(o)
    \/ \E n \in Nodes : sweepRows(o, n) \/ sweepLive(o, n)
    \/ sweepRowsDone(o) \/ sweepLiveDone(o) \/ rememberHit(o)
    \/ Get(o) \/ NodeFails(o) \/ refuseDelete(o) \/ noClaimID(o)
    \/ deleteSandbox(o) \/ Delete(o) \/ e2bVerb(o) \/ lifecycleCreate(o)

Environment ==
    \/ \E id \in Ids : \/ RememberName(id) \/ RememberClaim(id) \/ ClaimEnds(id)
                       \/ \E n \in Nodes : ClaimDelivered(id, n) \/ ClaimElsewhere(id, n)
    \/ \E n \in Nodes : Publish(n) \/ Unlist(n)

Next ==
    \/ \E o \in Ops : Request(o) \/ \E key \in Keys : resolve(o, key)
    \/ Environment

Spec == Init /\ [][Next]_vars

-----------------------------------------------------------------------------
\* Read after write (docs/scaling-design.md:222): a claim that has returned is
\* found by every later read of its name or id, although its node has not
\* published it, the index has forgotten it or another replica claimed it; a
\* read answers "not found" only for a claim that ended meanwhile, or when a
\* node did not answer.
ReadAfterWrite ==
    \A o \in Ops : op[o].answer = "missing" /\ ~op[o].excused => op[o].held = {}

\* A claim never moves: what a read returns is on the node it is said to be on,
\* where the verb that follows is sent, and neither eviction, nor promotion, nor
\* a sweep that read a stale inventory leaves a claim id indexed on another.
RoutedToOwner ==
    /\ TypeOK
    /\ \A o \in Ops : op[o].hit # NoId => claim[op[o].hit].node = op[o].node
    /\ \A id \in Ids : known[id] # NoNode => known[id] = claim[id].node

\* What a caller is told is over is over: a delete that reports success has
\* ended the claim it found, and by claim id the one it was asked for, retries,
\* stale rows and rows without a claim id included; a verb the node answers
\* "not found" found a claim that has ended, so one addressed by claim id never
\* misses a live claim.
DeletedIsGone ==
    \A o \in Ops :
        /\ op[o].answer \in {"deleted", "gone"} => claim[op[o].hit].state = "gone"
        /\ op[o].answer = "deleted" /\ op[o].key \in Ids => op[o].hit = op[o].key
        /\ op[o].answer = "gone" /\ op[o].key \in Ids => op[o].held = {}
=============================================================================
