------------------------------ MODULE EnvdProxy ------------------------------
(***************************************************************************)
(* The e2b data plane (src/pkg/envdproxy): a request names a sandbox and   *)
(* carries its access token, or a signature that envd checks itself.  The  *)
(* proxy finds the sandbox's node in its cache of recent owners, else in   *)
(* the published inventories, else by asking every node within a budget;   *)
(* it judges the token by the claim token it read from the node, and opens *)
(* the node's relay into the guest.                                        *)
(*                                                                         *)
(* The nodes and the inventory source are external.  A sandbox stays on    *)
(* its node and keeps its claim token and the node its address, so a       *)
(* cached owner is its sandbox's, live or over.  Requests to different     *)
(* sandboxes, and many to one, run side by side; the cache is under a      *)
(* mutex.                                                                  *)
(***************************************************************************)
EXTENDS Integers, FiniteSets, TLC

CONSTANTS
    Sandboxes,   \* sandboxes, one per claim
    Spellings,   \* how an id may be spelt: sb_0123abcd, sb-0123abcd
    Nodes,       \* nodes running sandboxd
    NoNode,      \* no node
    NoId,        \* no sandbox id
    Requests,    \* requests the proxy serves at one time
    TTL,         \* recentOwnerTTL, in ticks
    MaxEntries,  \* recentOwnerMax
    Burst        \* probeBurst

\* A request names a sandbox in either spelling: ClaimID and MatchesID read
\* both as the one claim, and the cache keeps each under its own key.
Ids == Sandboxes \X Spellings
ClaimID(id) == id[1]

ASSUME NoNodeAssumption == NoNode \notin Nodes
ASSUME NoIdAssumption == NoId \notin Ids
ASSUME TTLAssumption == TTL \in Nat
ASSUME MaxEntriesAssumption == MaxEntries \in Nat \ {0}
ASSUME BurstAssumption == Burst \in Nat

VARIABLES
    claim,   \* each sandbox: its node, whether it is live, and paused
    rows,    \* the sandboxes the inventories list
    listed,  \* the nodes the inventory source holds
    recent,  \* the cache: ticks each entry is still good for, -1 once expired
    budget,  \* asks the limiter still allows
    req,     \* each request
    over     \* history: ticks since each sandbox was over

vars == <<claim, rows, listed, recent, budget, req, over>>
nodeVars == <<claim, rows, listed, over>>

Idle == [pc |-> "done", id |-> NoId, cred |-> "none", todo |-> {}, answer |-> "none",
         held |-> FALSE, excused |-> FALSE]

\* What a request carries: the sandbox's token, some other token, a signature
\* on a file URL of envd's port, or none of these; serve turns the last away,
\* like a request without a route or to an internal path.
Creds == {"own", "other", "signed", "none"}

\* "relayed" is the guest's answer; the rest is the proxy's: 502 "sandbox
\* unavailable", 401 for a wrong token or none, 401 for a relay the node
\* refused, 502 "sandbox is paused", and 400 or 502 for a port the node does
\* not serve or cannot reach.
Answers == {"none", "relayed", "unavailable", "denied", "refused", "paused",
            "unreachable"}

\* One more than the ticks a cached owner can outlive its sandbox.
Long == TTL + 2

TypeOK ==
    /\ claim \in [Sandboxes -> [node : Nodes \cup {NoNode}, state : {"unborn", "live", "over"},
                                paused : BOOLEAN]]
    /\ rows \in SUBSET Sandboxes
    /\ listed \in SUBSET Nodes
    /\ \E cached \in SUBSET Ids : recent \in [cached -> -1..TTL]
    /\ budget \in 0..Burst
    /\ req \in [Requests -> [pc : {"resolve", "read", "probe", "put", "late", "relay",
                                   "done"},
                             id : Ids \cup {NoId}, cred : Creds, todo : SUBSET Nodes,
                             answer : Answers, held : BOOLEAN, excused : BOOLEAN]]
    /\ over \in [Sandboxes -> 0..Long]

Init ==
    /\ claim = [s \in Sandboxes |-> [node |-> NoNode, state |-> "unborn", paused |-> FALSE]]
    /\ rows = {}
    /\ listed = Nodes
    /\ recent = [id \in {} |-> 0]
    /\ budget = Burst
    /\ req = [r \in Requests |-> Idle]
    /\ over = [s \in Sandboxes |-> 0]

-----------------------------------------------------------------------------
(* The nodes, their inventories and time.                                  *)

Live(s) == claim[s].state = "live"

ClaimMade(s, n) ==
    /\ claim[s].state = "unborn"
    /\ claim' = [claim EXCEPT ![s].state = "live", ![s].node = n]
    /\ UNCHANGED <<rows, listed, recent, budget, req, over>>

Names(r, s) == req[r].id # NoId /\ ClaimID(req[r].id) = s

\* Released, or its lease ran out: no request is entitled to reach it.
ClaimOver(s) ==
    /\ Live(s)
    /\ claim' = [claim EXCEPT ![s].state = "over", ![s].paused = FALSE]
    /\ req' = [r \in Requests |-> IF Names(r, s) THEN [req[r] EXCEPT !.held = FALSE]
                                  ELSE req[r]]
    /\ UNCHANGED <<rows, listed, recent, budget, over>>

Pause(s) ==
    /\ Live(s) /\ ~claim[s].paused
    /\ claim' = [claim EXCEPT ![s].paused = TRUE]
    /\ UNCHANGED <<rows, listed, recent, budget, req, over>>

\* A sandbox outside the proxy's namespace is one no publish lists.
Publish(n) ==
    /\ rows' = {s \in rows : claim[s].node # n} \cup {s \in Sandboxes : Live(s) /\ claim[s].node = n}
    /\ listed' = listed \cup {n}
    /\ UNCHANGED <<claim, recent, budget, req, over>>

Unlist(n) ==
    /\ n \in listed
    /\ listed' = listed \ {n}
    /\ UNCHANGED <<claim, rows, recent, budget, req, over>>

\* The limiter allows one more ask.
Refill ==
    /\ budget < Burst
    /\ budget' = budget + 1
    /\ UNCHANGED <<nodeVars, recent, req>>

\* A TTL'th part of recentOwnerTTL, longer than a node's answer may take: what
\* a node answered is in the cache a tick later.
Tick ==
    /\ \A r \in Requests : req[r].pc # "late"
    /\ req' = [r \in Requests |-> IF req[r].pc = "put" THEN [req[r] EXCEPT !.pc = "late"]
                                  ELSE req[r]]
    /\ recent' = [id \in DOMAIN recent |-> IF recent[id] >= 0 THEN recent[id] - 1 ELSE -1]
    /\ over' = [s \in Sandboxes |-> IF claim[s].state = "over" /\ over[s] < Long
                                    THEN over[s] + 1 ELSE over[s]]
    /\ UNCHANGED <<claim, rows, listed, budget>>

-----------------------------------------------------------------------------
(* Steps of one request.                                                   *)

Goto(r, next) == req' = [req EXCEPT ![r].pc = next]
Finished(q, a) == [q EXCEPT !.pc = "done", !.id = NoId, !.answer = a, !.todo = {}]
Answer(r, a) == req' = [req EXCEPT ![r] = Finished(@, a)]

\* The fleet or the budget, not the proxy, kept the request from its sandbox.
AnswerExcused(r, a) ==
    req' = [req EXCEPT ![r] = [Finished(@, a) EXCEPT !.excused = TRUE]]

Fresh(id) == id \in DOMAIN recent /\ recent[id] >= 0

\* The inventories list the sandbox.
Published(s) == s \in rows /\ claim[s].node \in listed

-----------------------------------------------------------------------------
\* Mutated forms of the definitions below.

\* An entry counts while it is in the map.
getUntilEvicted(id) == id \in DOMAIN recent

\* A full cache drops its expired entries and no more.
withRoomExpiredOnly ==
    IF Cardinality(DOMAIN recent) < MaxEntries THEN DOMAIN recent
    ELSE {id \in DOMAIN recent : recent[id] >= 0}

\* A located owner is handed out without comparing the token.
admitAll(cred) == TRUE

\* A signed request relays with the claim token of the owner it located.
relayTokenOfOwner(cred) == "claim"

\* A node that does not hold the claim ends the probe.
askNodeEnds(r, n) ==
    \/ /\ Live(ClaimID(req[r].id)) /\ claim[ClaimID(req[r].id)].node = n
       /\ n \in listed
       /\ Goto(r, "put")
    \/ /\ claim[ClaimID(req[r].id)].node # n
       /\ Answer(r, "unavailable")

-----------------------------------------------------------------------------
\* The keys a put keeps.
withRoom ==
    LET good == {id \in DOMAIN recent : recent[id] >= 0}
    IN IF Cardinality(DOMAIN recent) < MaxEntries THEN DOMAIN recent
       ELSE IF Cardinality(good) < MaxEntries THEN good
       ELSE {}

get(id) == Fresh(id)

\* Owner compares the token with the one derived from the claim token; Locate
\* admits a signed file URL unjudged.
admit(cred) == cred \in {"own", "signed"}

Admitted(q) == IF admit(q.cred) THEN [q EXCEPT !.pc = "relay"] ELSE Finished(q, "denied")

\* serve up to the cache lookup of find.  A request that carries what
\* its sandbox asks for is entitled to it while that is live.
serve(r, id, cred) ==
    /\ req[r].pc = "done"
    /\ LET entitled == cred \in {"own", "signed"} /\ Live(ClaimID(id))
           started == [Idle EXCEPT !.id = id, !.cred = cred, !.held = entitled]
       IN req' = [req EXCEPT ![r] =
                    IF cred = "none" THEN Finished(started, "denied")
                    ELSE IF get(id) THEN Admitted(started)
                    ELSE [started EXCEPT !.pc = "resolve"]]
    /\ UNCHANGED <<nodeVars, recent, budget>>

\* NotFound: every node is asked while the limiter allows it.
notPublished(r) ==
    \/ /\ budget > 0
       /\ budget' = budget - 1
       /\ req' = [req EXCEPT ![r].pc = "probe", ![r].todo = listed,
                             ![r].excused = claim[ClaimID(req[r].id)].node \notin listed]
    \/ /\ budget = 0
       /\ AnswerExcused(r, "unavailable")
       /\ UNCHANGED budget

find(r) ==
    /\ req[r].pc = "resolve"
    /\ \/ /\ Published(ClaimID(req[r].id))
          /\ Goto(r, "read")
          /\ UNCHANGED budget
       \/ /\ ~Published(ClaimID(req[r].id))
          /\ notPublished(r)
    /\ UNCHANGED <<nodeVars, recent>>

InventoryFails(r) ==
    /\ req[r].pc \in {"resolve", "read"}
    /\ AnswerExcused(r, "unavailable")
    /\ UNCHANGED <<nodeVars, recent, budget>>

\* A node without an inventory has no address to ask.
readOwner(r) ==
    /\ req[r].pc = "read"
    /\ LET s == ClaimID(req[r].id)
       IN \/ claim[s].node \notin listed /\ AnswerExcused(r, "unavailable")
          \/ claim[s].node \in listed /\ Live(s) /\ Goto(r, "put")
          \/ claim[s].node \in listed /\ ~Live(s) /\ Answer(r, "unavailable")
    /\ UNCHANGED <<nodeVars, recent, budget>>

\* One node of the probe answers: the owner ends it, another is crossed off.
askNode(r, n) ==
    LET s == ClaimID(req[r].id)
    IN \/ /\ Live(s) /\ claim[s].node = n /\ n \in listed
          /\ req' = [req EXCEPT ![r].pc = "put", ![r].todo = {}]
       \/ /\ ~(Live(s) /\ claim[s].node = n)
          /\ req' = [req EXCEPT ![r].todo = @ \ {n}]

\* No answer within probeTimeout, or the node's inventory went meanwhile.
nodeSilent(r, n) ==
    req' = [req EXCEPT ![r].todo = @ \ {n}, ![r].excused = @ \/ claim[ClaimID(req[r].id)].node = n]

probe(r) ==
    /\ req[r].pc = "probe"
    /\ \/ \E n \in req[r].todo : askNode(r, n) \/ nodeSilent(r, n)
       \/ req[r].todo = {} /\ Answer(r, "unavailable")
    /\ UNCHANGED <<nodeVars, recent, budget>>

\* The owner is cached before the caller is judged.
put(r) ==
    /\ req[r].pc \in {"put", "late"}
    /\ recent' = [id \in withRoom \cup {req[r].id} |-> IF id = req[r].id THEN TTL ELSE recent[id]]
    /\ req' = [req EXCEPT ![r] = Admitted(@)]
    /\ UNCHANGED <<nodeVars, budget>>

\* The token a relay opens with: the claim's, or for a signed URL the fleet's.
relayToken(cred) == IF cred = "signed" THEN "fleet" ELSE "claim"

\* The node wakes a paused sandbox for its own token only; with the fleet's it
\* answers 409.  It answers 404 for a claim that is over.
relay(r) ==
    /\ req[r].pc = "relay"
    /\ LET s == ClaimID(req[r].id)
       IN \/ /\ Live(s) /\ (claim[s].paused => relayToken(req[r].cred) = "claim")
             /\ claim' = [claim EXCEPT ![s].paused = FALSE]
             /\ Answer(r, "relayed")
          \/ /\ Live(s) /\ claim[s].paused /\ relayToken(req[r].cred) = "fleet"
             /\ Answer(r, "paused")
             /\ UNCHANGED claim
          \/ /\ ~Live(s)
             /\ Answer(r, "refused")
             /\ UNCHANGED claim
    /\ UNCHANGED <<rows, listed, over, recent, budget>>

\* The node does not serve the port, or cannot be reached.
relayFails(r) ==
    /\ req[r].pc = "relay"
    /\ Answer(r, "unreachable")
    /\ UNCHANGED <<nodeVars, recent, budget>>

Handle(r) ==
    \/ \E id \in Ids, cred \in Creds : serve(r, id, cred)
    \/ find(r) \/ InventoryFails(r) \/ readOwner(r) \/ probe(r) \/ put(r)
    \/ relay(r) \/ relayFails(r)

Environment ==
    \/ \E s \in Sandboxes, n \in Nodes : ClaimMade(s, n)
    \/ \E s \in Sandboxes : ClaimOver(s) \/ Pause(s)
    \/ \E n \in Nodes : Publish(n) \/ Unlist(n)
    \/ Refill \/ Tick

Next == (\E r \in Requests : Handle(r)) \/ Environment

Spec == Init /\ [][Next]_vars

-----------------------------------------------------------------------------
\* The cache never outgrows recentOwnerMax, though unauthenticated callers
\* fill it: recentOwners.put makes room for what it stores.
CacheBounded == TypeOK /\ Cardinality(DOMAIN recent) <= MaxEntries

\* A caller with another token never gets a relay opened, on a cached owner, a
\* published one or a probed one, whoever cached it and whenever.
AdmittedByToken ==
    \A r \in Requests : req[r].cred \notin {"own", "signed"} =>
        req[r].pc # "relay" /\ req[r].answer \in {"none", "unavailable", "denied"}

\* A paused sandbox is woken by a request that carries its own access token
\* and by nothing else: a signed URL relays with the fleet's token.
WokenOnlyByItsToken ==
    [][\A s \in Sandboxes : (claim[s].paused /\ ~claim'[s].paused /\ claim'[s].state = "live") =>
           \E r \in Requests : Names(r, s) /\ req[r].cred = "own" /\ req[r].pc = "relay"]_vars

\* The cache sends a request to a sandbox that is over only within
\* recentOwnerTTL of its end, a node's answer in flight at that time added:
\* what writeUpstreamError reads a 404 or 401 of the relay as.
StaleWithinTTL ==
    [][\A r \in Requests :
           (req[r].pc = "done" /\ req'[r].pc = "relay") =>
               over[ClaimID(req'[r].id)] <= TTL + 1]_vars

\* A sandbox that is live throughout is reached, published or not, under
\* either spelling of its id: its own token or a signed URL is never denied,
\* refused or answered "unavailable" while the fleet answers and the probe
\* budget lasts.
LiveIsReached ==
    \A r \in Requests :
        (req[r].pc = "done" /\ req[r].held /\ ~req[r].excused) =>
            req[r].answer \notin {"unavailable", "denied", "refused"}

Symmetry ==
    UNION {Permutations(S) : S \in {Sandboxes, Spellings, Nodes, Requests}}

=============================================================================
