------------------------------ MODULE Snapshots ------------------------------
(***************************************************************************)
(* The e2b snapshot endpoints: createSnapshot, listSnapshots, snapshotsOf  *)
(* and deleteSnapshot (src/pkg/e2bcompat/lifecycle.go) over the store's    *)
(* Snapshot, Snapshots and DeleteSnapshot.  A listing asks every listed    *)
(* node, in parallel and in no order, and skips one that fails; a delete   *)
(* looks the id up in such a listing first and then calls the node that    *)
(* holds it.                                                               *)
(*                                                                         *)
(* The nodes are external: a checkpoint lives on the node that took it,    *)
(* under a fresh id and the name stamped with its owner's namespace.  The  *)
(* requests modelled are those of one namespace, Own; another namespace's  *)
(* snapshots are there beside them.                                        *)
(***************************************************************************)
EXTENDS Integers, FiniteSets

CONSTANTS
    Nodes,     \* nodes running sandboxd
    Reqs,      \* requests, each made once
    Ids        \* snapshot ids, never reused

VARIABLES
    snap,      \* each snapshot: where and whose; of nobody before and after
    q          \* the snapshot requests

snapVars == <<snap, q>>

\* Namespaces, and a snapshot not yet taken or deleted.
Namespaces == {"own", "other"}
Snapshot == [node : Nodes, ns : Namespaces]
Unborn == [node |-> "none", ns |-> "none"]
Gone == [node |-> "none", ns |-> "gone"]

\* A request: the nodes it has still to ask, the ones that failed, the caller's
\* snapshots found so far, its answer; and, for the properties, those there were
\* on the listed nodes when it began.
Idle == [pc |-> "idle", op |-> "none", id |-> "none", ask |-> {}, silent |-> {},
         found |-> {}, before |-> {}, code |-> 0]

SnapTypeOK ==
    /\ snap \in [Ids -> Snapshot \cup {Unborn, Gone}]
    /\ q \in [Reqs -> [pc : {"idle", "ask", "delete", "done"},
                       op : {"none", "create", "list", "delete"},
                       id : Ids \cup {"none"}, ask : SUBSET Nodes,
                       silent : SUBSET Nodes, found : SUBSET Ids,
                       before : SUBSET Ids, code : {0, 200, 201, 204, 400, 404, 500}]]

SnapInit ==
    /\ snap = [i \in Ids |-> Unborn]
    /\ q = [r \in Reqs |-> Idle]

Held(i) == snap[i].ns \in Namespaces

\* CheckpointNameIn: the snapshot's stamp names the caller's namespace.
CheckpointNameIn(i) == snap[i].ns = "own"

\* The caller's snapshots on one node.
OwnOn(n) == {i \in Ids : CheckpointNameIn(i) /\ snap[i].node = n}

-----------------------------------------------------------------------------
\* createSnapshot: the sandbox is not found, the name does not fit, or its node
\* takes the checkpoint; a failed call may have taken it all the same.
createSnapshot(r) ==
    /\ q[r].pc = "idle"
    /\ \E code \in {201, 400, 404, 500} :
         /\ q' = [q EXCEPT ![r] = [Idle EXCEPT !.pc = "done", !.op = "create", !.code = code]]
         /\ \/ /\ code \in {201, 500}
               /\ \E i \in Ids, n \in Nodes :
                     /\ snap[i] = Unborn
                     /\ snap' = [snap EXCEPT ![i] = [node |-> n, ns |-> "own"]]
            \/ code # 201 /\ UNCHANGED snap

\* snapshotsOf asks the nodes the inventory source lists; without a listing the request fails.
snapshotsOf(r, op, i, listed) ==
    \/ q' = [q EXCEPT ![r] = [Idle EXCEPT !.pc = "ask", !.op = op, !.id = i, !.ask = listed,
                              !.before = UNION {OwnOn(n) : n \in listed}]]
    \/ q' = [q EXCEPT ![r] = [Idle EXCEPT !.pc = "done", !.op = op, !.id = i, !.code = 500]]

listSnapshots(r, listed) ==
    /\ q[r].pc = "idle"
    /\ snapshotsOf(r, "list", "none", listed)
    /\ UNCHANGED snap

deleteSnapshot(r, i, listed) ==
    /\ q[r].pc = "idle"
    /\ snapshotsOf(r, "delete", i, listed)
    /\ UNCHANGED snap

\* One node answers with its checkpoints, or fails and is skipped.
askNode(r, n) ==
    /\ q[r].pc = "ask"
    /\ n \in q[r].ask
    /\ \/ q' = [q EXCEPT ![r].ask = @ \ {n}, ![r].found = @ \cup OwnOn(n)]
       \/ q' = [q EXCEPT ![r].ask = @ \ {n}, ![r].silent = @ \cup {n}]
    /\ UNCHANGED snap

\* Mutated form of complete: a node that failed counts as having none.
completeAlways(r) == TRUE

\* complete is false when a node did not answer.
complete(r) == q[r].silent = {}

\* Every node was asked: a listing is the answer; a delete goes to the node that
\* holds the id, and an id nobody listed is gone only if everybody answered.
allAsked(r) ==
    /\ q[r].pc = "ask"
    /\ q[r].ask = {}
    /\ \/ /\ q[r].op = "list"
          /\ q' = [q EXCEPT ![r].pc = "done", ![r].code = 200]
       \/ /\ q[r].op = "delete" /\ q[r].id \in q[r].found
          /\ q' = [q EXCEPT ![r].pc = "delete"]
       \/ /\ q[r].op = "delete" /\ q[r].id \notin q[r].found
          /\ q' = [q EXCEPT ![r].pc = "done", ![r].code = IF complete(r) THEN 404 ELSE 500]
    /\ UNCHANGED snap

\* DeleteSnapshot on the holding node, where one already gone counts as
\* deleted; a failed call may have deleted it.
DeleteSnapshot(r) ==
    /\ q[r].pc = "delete"
    /\ \E code \in {204, 500} :
         /\ q' = [q EXCEPT ![r].pc = "done", ![r].code = code]
         /\ \/ snap' = [snap EXCEPT ![q[r].id] = Gone]
            \/ code = 500 /\ UNCHANGED snap

SnapStep(r) ==
    \/ \E n \in Nodes : askNode(r, n)
    \/ allAsked(r)
    \/ DeleteSnapshot(r)

\* Another namespace takes a snapshot; bound: while a request that could see it
\* asks the nodes, since one taken earlier looks the same to it.
OtherSnapshot ==
    /\ \E r \in Reqs : q[r].pc = "ask"
    /\ \E i \in Ids, n \in Nodes :
         /\ snap[i] = Unborn
         /\ snap' = [snap EXCEPT ![i] = [node |-> n, ns |-> "other"]]
    /\ UNCHANGED q

-----------------------------------------------------------------------------
\* What an answer says of the caller's snapshots was true while the request
\* ran.  404 to a delete: none of the nodes listed held the id all along ("so
\* an outage never reads as already gone", docs/e2b-compat.md:160); 204: it is
\* gone; a listing leaves out none of a node that answered and holds it still,
\* and shows none that never was the caller's.
SnapshotAnswersAreTrue ==
    /\ SnapTypeOK
    /\ \A r \in Reqs :
         /\ q[r].op = "delete" /\ q[r].code = 404 =>
                q[r].id \notin q[r].before \/ snap[q[r].id] = Gone
         /\ q[r].op = "delete" /\ q[r].code = 204 => snap[q[r].id] = Gone
         /\ q[r].op = "list" /\ q[r].code = 200 =>
                \A i \in q[r].before :
                    CheckpointNameIn(i) /\ snap[i].node \notin q[r].silent => i \in q[r].found
    /\ \A r \in Reqs : \A i \in q[r].found : Held(i) => snap[i].ns = "own"
=============================================================================
