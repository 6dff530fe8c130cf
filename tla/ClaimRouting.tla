---------------------------- MODULE ClaimRouting ----------------------------
(***************************************************************************)
(* SandboxStore.Claim (src/pkg/scale/sandboxstore_impl.go): a claim call   *)
(* takes one snapshot of the nodes' advertised capacity, picks a candidate *)
(* and asks its sandboxd for a microVM.  A node that delivered nothing is  *)
(* dropped and another is sampled; a node that redirects is followed once  *)
(* to the peers it names.  Any other failure ends the call, because the    *)
(* node may have delivered.                                                *)
(*                                                                         *)
(* sandboxd is not part of the repository.  It is modelled by the answers  *)
(* sandboxd.Client.Claim tells apart.  Its warm pools are shared with      *)
(* other clients and refilled at any time, so any node may deliver or      *)
(* refuse any request; the snapshot is seconds old, so it is any set of    *)
(* nodes.  An address is a node here, and an address the snapshot does not *)
(* hold is a node outside it.                                              *)
(***************************************************************************)
EXTENDS Integers, Sequences, FiniteSets

CONSTANTS
    Calls,      \* concurrent Claim calls
    Nodes,      \* nodes running sandboxd
    NoNode,     \* no node
    MaxTargets  \* bound: peers one redirect names

ASSUME NoNodeAssumption == NoNode \notin Nodes
ASSUME MaxTargetsAssumption == MaxTargets \in Nat \ {0}

VARIABLES
    pc,         \* "idle", "pick", "wait", "hop" or "done"
    snap,       \* the snapshot: nodes it holds, candidates, how they were found
    cand,       \* candidates not dropped yet
    from,       \* the candidate picked last
    at,         \* the node asked last
    redirect,   \* the peers `from` named, <<>> when it did not redirect
    left,       \* the named peers not tried yet
    wire,       \* requests no node has handled yet
    reply,      \* what the client made of the last request
    delivered,  \* the nodes that delivered a microVM to each call
    silent,     \* history: nodes each call knows delivered it nothing
    index,      \* the node remembered for each call's claim id
    result      \* what Claim returned

vars == <<pc, snap, cand, from, at, redirect, left, wire, reply, delivered,
          silent, index, result>>

\* The peers a redirect names, in the order they are to be tried.
TargetLists ==
    {s \in UNION {[1..n -> Nodes] : n \in 1..MaxTargets} :
        \A i, j \in DOMAIN s : s[i] = s[j] => i = j}

\* The answers sandboxd.Client.Claim tells apart.  "lost" is every error that
\* arises after the request went out: a timeout, a cancelled caller, a broken
\* connection, an answer that does not decode.
Failures == {"atCapacity", "redirect", "dial", "serverError", "notFound",
             "clientError", "lost"}
Kinds == {"none", "ok"} \cup Failures

Reply(kind, targets) == [kind |-> kind, targets |-> targets]
NoReply == Reply("none", <<>>)

Result(kind, node) == [kind |-> kind, node |-> node]
ResultKinds == {"none", "ok", "noWarm", "failed"}

TypeOK ==
    /\ pc \in [Calls -> {"idle", "pick", "wait", "hop", "done"}]
    /\ snap \in [Calls -> [known : SUBSET Nodes, cand : SUBSET Nodes, promoted : BOOLEAN]]
    /\ cand \in [Calls -> SUBSET Nodes]
    /\ from \in [Calls -> Nodes \cup {NoNode}]
    /\ at \in [Calls -> Nodes \cup {NoNode}]
    /\ redirect \in [Calls -> Seq(Nodes)]
    /\ left \in [Calls -> Seq(Nodes)]
    /\ wire \in SUBSET [call : Calls, node : Nodes]
    /\ reply \in [Calls -> [kind : Kinds, targets : Seq(Nodes)]]
    /\ delivered \in [Calls -> Seq(Nodes)]
    /\ silent \in [Calls -> SUBSET Nodes]
    /\ index \in [Calls -> Nodes \cup {NoNode}]
    /\ result \in [Calls -> [kind : ResultKinds, node : Nodes \cup {NoNode}]]

Init ==
    /\ pc = [c \in Calls |-> "idle"]
    /\ snap = [c \in Calls |-> [known |-> {}, cand |-> {}, promoted |-> FALSE]]
    /\ cand = [c \in Calls |-> {}]
    /\ from = [c \in Calls |-> NoNode]
    /\ at = [c \in Calls |-> NoNode]
    /\ redirect = [c \in Calls |-> <<>>]
    /\ left = [c \in Calls |-> <<>>]
    /\ wire = {}
    /\ reply = [c \in Calls |-> NoReply]
    /\ delivered = [c \in Calls |-> <<>>]
    /\ silent = [c \in Calls |-> {}]
    /\ index = [c \in Calls |-> NoNode]
    /\ result = [c \in Calls |-> Result("none", NoNode)]

\* The elements of a list of addresses.
Named(s) == {s[i] : i \in DOMAIN s}

-----------------------------------------------------------------------------
\* Mutated forms of the definitions below, each a slip a maintainer could make.

\* The picked node stays a candidate after a redirect that led nowhere.
remainingKeepsPicked(c) ==
    cand[c] \ (IF redirect[c] = <<>> THEN {from[c]} ELSE Named(redirect[c]))

\* The call gives up at the first node that delivered nothing.
remainingGivesUp(c) == {}

-----------------------------------------------------------------------------
\* Which failures mean that the node delivered nothing.  A redirect is one: a
\* RedirectError is an ErrNodeAtCapacity.
claimUndelivered(kind) == kind \in {"atCapacity", "redirect", "dial", "serverError"}

\* An advertiser that no longer holds the template.
templateGone(kind) == kind = "notFound"

\* The candidates left once the picked node, and every peer it named, is
\* dropped.
remaining(c) == cand[c] \ ({from[c]} \cup Named(redirect[c]))

Finish(c, kind) ==
    /\ pc' = [pc EXCEPT ![c] = "done"]
    /\ result' = [result EXCEPT ![c] = Result(kind, NoNode)]

\* The candidates of a snapshot: the nodes warm for the pool, else, when the
\* caller opted in, the nodes that hold it as a promoted template.
Snapshots(optIn) ==
    {s \in [known : SUBSET Nodes, cand : SUBSET Nodes, promoted : BOOLEAN] :
        s.cand \subseteq s.known /\ (s.promoted => optIn)}

\* NodeCapacities fails: nothing has been asked of any node yet.
ClaimWithoutInventory(c) ==
    /\ pc[c] = "idle"
    /\ Finish(c, "failed")
    /\ UNCHANGED <<snap, cand, from, at, redirect, left, wire, reply, delivered,
                   silent, index>>

\* Claim starts: it reads the capacities once and lists its candidates.
StartClaim(c, s) ==
    /\ snap' = [snap EXCEPT ![c] = s]
    /\ cand' = [cand EXCEPT ![c] = s.cand]
    /\ silent' = [silent EXCEPT ![c] = {}]
    /\ \/ /\ s.cand = {}
          /\ Finish(c, "noWarm")
       \/ /\ s.cand # {}
          /\ pc' = [pc EXCEPT ![c] = "pick"]
          /\ result' = [result EXCEPT ![c] = Result("none", NoNode)]
    /\ UNCHANGED <<from, at, redirect, left, wire, reply, delivered, index>>

Claim(c) ==
    /\ pc[c] = "idle"
    /\ \E optIn \in BOOLEAN : \E s \in Snapshots(optIn) : StartClaim(c, s)

Ask(c, n) ==
    /\ at' = [at EXCEPT ![c] = n]
    /\ wire' = wire \cup {[call |-> c, node |-> n]}
    /\ reply' = [reply EXCEPT ![c] = NoReply]
    /\ pc' = [pc EXCEPT ![c] = "wait"]

\* pickPowerOfTwo may sample one candidate twice, so any candidate may win.
pickPowerOfTwo(c, n) ==
    /\ pc[c] = "pick"
    /\ n \in cand[c]
    /\ from' = [from EXCEPT ![c] = n]
    /\ redirect' = [redirect EXCEPT ![c] = <<>>]
    /\ left' = [left EXCEPT ![c] = <<>>]
    /\ Ask(c, n)
    /\ UNCHANGED <<snap, cand, delivered, silent, index, result>>

-----------------------------------------------------------------------------
(* The network and the nodes.                                              *)

\* Whether call c still waits for the answer of node n.
Waits(c, n) == pc[c] = "wait" /\ at[c] = n /\ reply[c] = NoReply

Answer(m, r) ==
    /\ wire' = wire \ {m}
    /\ reply' = IF Waits(m.call, m.node) THEN [reply EXCEPT ![m.call] = r] ELSE reply

\* The node hands out a microVM, even to a caller that has given up on it.
NodeDelivers(m) ==
    /\ m \in wire
    /\ Answer(m, Reply("ok", <<>>))
    /\ delivered' = [delivered EXCEPT ![m.call] = Append(@, m.node)]
    /\ UNCHANGED <<pc, snap, cand, from, at, redirect, left, silent, index, result>>

\* The node answers without a microVM, or the connection to it is refused.
NodeRefuses(m) ==
    /\ m \in wire
    /\ \/ \E kind \in Failures \ {"redirect", "lost"} : Answer(m, Reply(kind, <<>>))
       \/ \E ts \in TargetLists : /\ m.node \notin Named(ts)
                                  /\ Answer(m, Reply("redirect", ts))
    /\ UNCHANGED <<pc, snap, cand, from, at, redirect, left, delivered, silent, index,
                   result>>

\* The client gives up, or its node's answer does not reach it; the request
\* may still be handled.
AnswerLost(c) ==
    /\ pc[c] = "wait"
    /\ reply[c].kind # "lost"
    /\ reply' = [reply EXCEPT ![c] = Reply("lost", <<>>)]
    /\ UNCHANGED <<pc, snap, cand, from, at, redirect, left, wire, delivered, silent,
                   index, result>>

-----------------------------------------------------------------------------
(* The call handles the outcome of its request.                            *)

\* Claim remembers the node that delivered and returns the assignment.
claimSucceeds(c) ==
    /\ index' = [index EXCEPT ![c] = at[c]]
    /\ result' = [result EXCEPT ![c] = Result("ok", at[c])]
    /\ pc' = [pc EXCEPT ![c] = "done"]
    /\ UNCHANGED <<snap, cand, from, at, redirect, left, wire, reply, delivered, silent>>

\* Drop the picked node and the peers it named, and sample the rest.
dropPicked(c) ==
    /\ cand' = [cand EXCEPT ![c] = remaining(c)]
    /\ \/ /\ remaining(c) = {}
          /\ Finish(c, "noWarm")
       \/ /\ remaining(c) # {}
          /\ pc' = [pc EXCEPT ![c] = "pick"]
          /\ UNCHANGED result

Delivered(c) ==
    /\ pc[c] = "wait"
    /\ reply[c].kind = "ok"
    /\ claimSucceeds(c)

\* The picked node names peers: claimRedirected tries them in turn.
Redirected(c) ==
    /\ pc[c] = "wait"
    /\ reply[c].kind = "redirect"
    /\ redirect[c] = <<>>
    /\ redirect' = [redirect EXCEPT ![c] = reply[c].targets]
    /\ left' = [left EXCEPT ![c] = reply[c].targets]
    /\ silent' = [silent EXCEPT ![c] = @ \cup {at[c]}]
    /\ pc' = [pc EXCEPT ![c] = "hop"]
    /\ UNCHANGED <<snap, cand, from, at, wire, reply, delivered, index, result>>

\* The picked node delivered nothing and named nobody.
PickDeliversNothing(c) ==
    /\ pc[c] = "wait"
    /\ redirect[c] = <<>>
    /\ reply[c].kind # "redirect"
    /\ claimUndelivered(reply[c].kind)
    /\ silent' = [silent EXCEPT ![c] = @ \cup {at[c]}]
    /\ dropPicked(c)
    /\ UNCHANGED <<snap, from, at, redirect, left, wire, reply, delivered, index>>

\* A promoted claim whose node, picked or named, answers that it does not
\* hold the template.
TemplateGone(c) ==
    /\ pc[c] = "wait"
    /\ templateGone(reply[c].kind)
    /\ snap[c].promoted
    /\ silent' = [silent EXCEPT ![c] = @ \cup {at[c]}]
    /\ dropPicked(c)
    /\ UNCHANGED <<snap, from, at, redirect, left, wire, reply, delivered, index>>

\* A named peer delivered nothing: claimRedirected goes on to the next.
PeerDeliversNothing(c) ==
    /\ pc[c] = "wait"
    /\ redirect[c] # <<>>
    /\ claimUndelivered(reply[c].kind)
    /\ silent' = [silent EXCEPT ![c] = @ \cup {at[c]}]
    /\ pc' = [pc EXCEPT ![c] = "hop"]
    /\ UNCHANGED <<snap, cand, from, at, redirect, left, wire, reply, delivered, index,
                   result>>

\* Any other failure is returned as it is.
Fails(c) ==
    /\ pc[c] = "wait"
    /\ reply[c].kind \in Failures
    /\ ~claimUndelivered(reply[c].kind)
    /\ ~(snap[c].promoted /\ templateGone(reply[c].kind))
    /\ Finish(c, "failed")
    /\ UNCHANGED <<snap, cand, from, at, redirect, left, wire, reply, delivered, silent,
                   index>>

\* claimRedirected skips an address the snapshot does not hold.
SkipUnknownPeer(c) ==
    /\ pc[c] = "hop"
    /\ left[c] # <<>>
    /\ Head(left[c]) \notin snap[c].known
    /\ left' = [left EXCEPT ![c] = Tail(@)]
    /\ UNCHANGED <<pc, snap, cand, from, at, redirect, wire, reply, delivered, silent,
                   index, result>>

AskPeer(c) ==
    /\ pc[c] = "hop"
    /\ left[c] # <<>>
    /\ Head(left[c]) \in snap[c].known
    /\ left' = [left EXCEPT ![c] = Tail(@)]
    /\ Ask(c, Head(left[c]))
    /\ UNCHANGED <<snap, cand, from, redirect, delivered, silent, index, result>>

\* No named peer delivered: the redirect itself is the outcome.
RedirectExhausted(c) ==
    /\ pc[c] = "hop"
    /\ left[c] = <<>>
    /\ dropPicked(c)
    /\ UNCHANGED <<snap, from, at, redirect, left, wire, reply, delivered, silent, index>>

-----------------------------------------------------------------------------
Handle(c) ==
    \/ \E n \in Nodes : pickPowerOfTwo(c, n)
    \/ Delivered(c) \/ Redirected(c) \/ PickDeliversNothing(c) \/ TemplateGone(c)
    \/ PeerDeliversNothing(c) \/ Fails(c)
    \/ SkipUnknownPeer(c) \/ AskPeer(c) \/ RedirectExhausted(c)

Network == \E m \in wire : NodeDelivers(m) \/ NodeRefuses(m)

\* Every call has returned and every request is settled.
Quiescent ==
    /\ \A c \in Calls : pc[c] = "done"
    /\ wire = {}
    /\ UNCHANGED vars

Next ==
    \/ \E c \in Calls : \/ Claim(c) \/ ClaimWithoutInventory(c)
                        \/ Handle(c) \/ AnswerLost(c)
    \/ Network
    \/ Quiescent

Spec == Init /\ [][Next]_vars

-----------------------------------------------------------------------------
Outstanding(c) == {m \in wire : m.call = c}

\* One Claim call never costs two microVMs, whatever is lost or late: a node
\* that may still deliver is never followed by a request to another node
\* (claimUndelivered's comment at sandboxstore_impl.go:961).  It holds of an
\* e2b create too, which runs up to two claims under one name.
AtMostOneDelivery == \A c \in Calls : Len(delivered[c]) <= 1

\* The assignment returned, and the index entry that routes every later verb,
\* both name the node that delivered, after a redirect too.
SuccessNamesDeliverer ==
    \A c \in Calls : result[c].kind = "ok" =>
        /\ delivered[c] = <<result[c].node>>
        /\ index[c] = result[c].node

\* "No warm capacity" is answered as a retryable 503, so it must mean that the
\* call got nothing and can get nothing any more: no microVM delivered, and no
\* request a node may still serve.
NoWarmIsClean ==
    \A c \in Calls : result[c].kind = "noWarm" =>
        /\ delivered[c] = <<>>
        /\ Outstanding(c) = {}

\* The call gives up on capacity only after every candidate of its snapshot
\* said it delivered nothing, for a claim on the warm pools.
WarmCandidatesExhausted ==
    \A c \in Calls : result[c].kind = "noWarm" /\ ~snap[c].promoted =>
        snap[c].cand \subseteq silent[c]

=============================================================================
