------------------------- MODULE E2BLifecycleProofs -------------------------
(***************************************************************************)
(* The calls of the e2b surface: snapshots, template tags and template     *)
(* deletes for any nodes, requests, tags and builds, and the calls on one  *)
(* sandbox for any number of calls, timeouts and instants to the second.   *)
(*                                                                         *)
(* SnapInv follows what each snapshot request has asked, found and missed. *)
(* TagInv follows a tag from its acknowledgement: two requests that write  *)
(* or delete the latest build at once know that they race, so one that     *)
(* knows of no race has written every holder, and a write under way that   *)
(* began after the acknowledgement carries the tag.  LeaseInv says what    *)
(* phases a call on a sandbox has met, and that what a connect read of the *)
(* lease is still so unless another call moved it.                         *)
(***************************************************************************)
EXTENDS TemplateTags, E2BLeases, TLAPS

-----------------------------------------------------------------------------
(* The snapshots.                                                          *)

\* A request that has nobody left to ask has asked nobody, or everybody.
AskingAsks ==
    \A r \in Reqs : /\ q[r].pc # "ask" => q[r].ask = {}
                    /\ q[r].pc # "done" => q[r].code = 0
                    /\ q[r].pc = "delete" => q[r].op = "delete"
                    /\ q[r].op = "delete" => q[r].id \in Ids

\* What there was at the beginning is found, gone, or at a node that is still to
\* be asked or has failed.
BeforeIsAccounted ==
    \A r \in Reqs : \A i \in q[r].before :
        \/ snap[i] = Gone
        \/ snap[i].ns = "own" /\ (i \in q[r].found \/ snap[i].node \in q[r].ask \cup q[r].silent)

FoundIsOwn == \A r \in Reqs : \A i \in q[r].found : snap[i] = Gone \/ snap[i].ns = "own"

DeletedIsGone ==
    \A r \in Reqs : q[r].op = "delete" =>
        /\ q[r].code = 404 => q[r].id \notin q[r].before \/ snap[q[r].id] = Gone
        /\ q[r].code = 204 => snap[q[r].id] = Gone

SnapInv ==
    /\ SnapTypeOK
    /\ AskingAsks
    /\ BeforeIsAccounted
    /\ FoundIsOwn
    /\ DeletedIsGone

-----------------------------------------------------------------------------
SnapPcs == {"idle", "ask", "delete", "done"}
SnapOps == {"none", "create", "list", "delete"}
SnapIds == Ids \cup {"none"}
SnapCodes == {0, 200, 201, 204, 400, 404, 500}
IdSets == SUBSET Ids
NodeSets == SUBSET Nodes
SnapRequests ==
    [pc : SnapPcs, op : SnapOps, id : SnapIds, ask : NodeSets, silent : NodeSets,
     found : IdSets, before : IdSets, code : SnapCodes]

\* What the invariant says of one request, over the snapshots as they are.
Answering(R) ==
    /\ R.pc # "ask" => R.ask = {}
    /\ R.pc # "done" => R.code = 0
    /\ R.pc = "delete" => R.op = "delete"
    /\ R.op = "delete" => R.id \in Ids
    /\ \A i \in R.before :
          \/ snap[i] = Gone
          \/ snap[i].ns = "own" /\ (i \in R.found \/ snap[i].node \in R.ask \cup R.silent)
    /\ \A i \in R.found : snap[i] = Gone \/ snap[i].ns = "own"
    /\ R.op = "delete" => /\ R.code = 404 => R.id \notin R.before \/ snap[R.id] = Gone
                          /\ R.code = 204 => snap[R.id] = Gone

LEMMA SnapInvByRequest ==
    SnapInv <=> /\ snap \in [Ids -> Snapshot \cup {Unborn, Gone}]
                /\ q \in [Reqs -> SnapRequests]
                /\ \A r \in Reqs : Answering(q[r])
BY DEF SnapInv, SnapTypeOK, SnapRequests, SnapPcs, SnapOps, SnapIds, SnapCodes, IdSets,
       NodeSets, AskingAsks, BeforeIsAccounted, FoundIsOwn, DeletedIsGone, Answering

\* Snapshots are taken once and, once gone, stay so: nothing an answer says of
\* them is undone.
SnapGrows ==
    \A i \in Ids : \/ snap'[i] = snap[i]
                   \/ snap[i] = Unborn
                   \/ snap'[i] = Gone

LEMMA AnsweringStays ==
    ASSUME snap \in [Ids -> Snapshot \cup {Unborn, Gone}], SnapGrows,
           NEW R \in SnapRequests, Answering(R)
    PROVE  Answering(R)'
<1>1. Unborn.ns # "own" /\ Unborn # Gone
  BY DEF Unborn, Gone
<1>2. \A i \in Ids : snap[i] = Gone \/ snap[i].ns = "own" => snap'[i] = Gone \/ snap'[i] = snap[i]
  BY <1>1 DEF SnapGrows
<1>3. R.before \subseteq Ids /\ R.found \subseteq Ids
  BY DEF SnapRequests, IdSets
<1>4. \A i \in R.before :
         \/ snap'[i] = Gone
         \/ snap'[i].ns = "own" /\ (i \in R.found \/ snap'[i].node \in R.ask \cup R.silent)
  BY <1>2, <1>3 DEF Answering
<1>5. \A i \in R.found : snap'[i] = Gone \/ snap'[i].ns = "own"
  BY <1>2, <1>3 DEF Answering
<1>6. R.op = "delete" => /\ R.code = 404 => R.id \notin R.before \/ snap'[R.id] = Gone
                         /\ R.code = 204 => snap'[R.id] = Gone
  BY <1>2 DEF Answering
<1> QED
  BY <1>4, <1>5, <1>6 DEF Answering

\* One request takes a step, or none does.
LEMMA SnapStepInv ==
    ASSUME SnapInv, SnapGrows, snap' \in [Ids -> Snapshot \cup {Unborn, Gone}],
           NEW r \in Reqs, NEW R \in SnapRequests, q' = [q EXCEPT ![r] = R], Answering(R)'
    PROVE  SnapInv'
<1>1. /\ snap \in [Ids -> Snapshot \cup {Unborn, Gone}]
      /\ q \in [Reqs -> SnapRequests]
      /\ \A o \in Reqs : Answering(q[o])
  BY SnapInvByRequest
<1>2. q' \in [Reqs -> SnapRequests]
  BY <1>1
<1>3. ASSUME NEW o \in Reqs PROVE Answering(q[o])'
  <2>1. CASE o = r
    <3>1. q'[o] = R
      BY <1>1, <2>1
    <3> QED
      BY <3>1 DEF Answering
  <2>2. CASE o # r
    <3>1. q'[o] = q[o] /\ q[o] \in SnapRequests /\ Answering(q[o])
      BY <1>1, <2>2
    <3>2. ASSUME NEW Q \in SnapRequests, Q = q[o], Q = q'[o] PROVE Answering(q[o])'
      <4>1. Answering(Q)
        BY <3>1, <3>2
      <4>2. Answering(Q)'
        BY <1>1, <4>1, AnsweringStays
      <4> QED
        BY <3>2, <4>2 DEF Answering
    <3> QED
      BY <3>1, <3>2
  <2> QED
    BY <2>1, <2>2
<1> QED
  BY <1>2, <1>3
     DEF SnapInv, SnapTypeOK, SnapRequests, SnapPcs, SnapOps, SnapIds, SnapCodes, IdSets,
         NodeSets, AskingAsks, BeforeIsAccounted, FoundIsOwn, DeletedIsGone, Answering

-----------------------------------------------------------------------------
\* A request of which nothing is known yet.
LEMMA IdleType == Idle \in SnapRequests
BY DEF Idle, SnapRequests, SnapPcs, SnapOps, SnapIds, SnapCodes, IdSets, NodeSets

LEMMA createSnapshotInv ==
    ASSUME SnapInv, NEW r \in Reqs, createSnapshot(r)
    PROVE  SnapInv'
<1>1. PICK c \in {201, 400, 404, 500} :
         /\ q' = [q EXCEPT ![r] = [Idle EXCEPT !.pc = "done", !.op = "create", !.code = c]]
         /\ \/ /\ c \in {201, 500}
               /\ \E i \in Ids, n \in Nodes :
                     /\ snap[i] = Unborn
                     /\ snap' = [snap EXCEPT ![i] = [node |-> n, ns |-> "own"]]
            \/ c # 201 /\ UNCHANGED snap
  BY DEF createSnapshot
<1>2. snap' \in [Ids -> Snapshot \cup {Unborn, Gone}] /\ SnapGrows
  <2>1. CASE \E i \in Ids, n \in Nodes :
                     /\ snap[i] = Unborn
                     /\ snap' = [snap EXCEPT ![i] = [node |-> n, ns |-> "own"]]
    BY <2>1 DEF SnapGrows, Snapshot, Namespaces, SnapInv, SnapTypeOK
  <2>2. CASE UNCHANGED snap
    BY <2>2 DEF SnapGrows, SnapInv, SnapTypeOK
  <2> QED
    BY <1>1, <2>1, <2>2
<1>3. PICK R : R = [Idle EXCEPT !.pc = "done", !.op = "create", !.code = c]
  OBVIOUS
<1>4. "done" \in SnapPcs /\ "create" \in SnapOps /\ c \in SnapCodes
  BY DEF SnapPcs, SnapOps, SnapCodes
<1>5. R \in SnapRequests
  BY <1>3, <1>4, IdleType DEF SnapRequests
<1>6. R.pc = "done" /\ R.ask = {} /\ R.before = {} /\ R.found = {} /\ R.op = "create"
  BY <1>3 DEF Idle
<1>7. q' = [q EXCEPT ![r] = R]
  BY <1>1, <1>3
<1>8. Answering(R)'
  BY <1>6 DEF Answering
<1> QED
  BY <1>2, <1>5, <1>7, <1>8, SnapStepInv

LEMMA snapshotsOfInv ==
    ASSUME SnapInv, NEW r \in Reqs, NEW op, NEW i, NEW L \in SUBSET Nodes,
           \/ op = "list" /\ i = "none"
           \/ op = "delete" /\ i \in Ids,
           snapshotsOf(r, op, i, L), UNCHANGED snap
    PROVE  SnapInv'
<1>1. snap \in [Ids -> Snapshot \cup {Unborn, Gone}] /\ snap' = snap /\ SnapGrows
  BY DEF SnapInv, SnapTypeOK, SnapGrows
<1>2. op \in SnapOps /\ i \in SnapIds /\ L \in NodeSets
  BY DEF SnapOps, SnapIds, NodeSets
<1>3. /\ "ask" \in SnapPcs /\ "done" \in SnapPcs /\ 500 \in SnapCodes
      /\ op \in {"list", "delete"} /\ (op = "delete" => i \in Ids)
  BY DEF SnapPcs, SnapCodes
<1>4. PICK B : B = UNION {OwnOn(n) : n \in L}
  OBVIOUS
<1>5. B \subseteq Ids /\ \A j \in B : snap[j].ns = "own" /\ snap[j].node \in L
  BY <1>4 DEF OwnOn, CheckpointNameIn
<1>6. CASE q' = [q EXCEPT ![r] = [Idle EXCEPT !.pc = "ask", !.op = op, !.id = i, !.ask = L,
                                              !.before = B]]
  <2>1. PICK R : R = [Idle EXCEPT !.pc = "ask", !.op = op, !.id = i, !.ask = L, !.before = B]
    OBVIOUS
  <2>2. B \in IdSets
    BY <1>5 DEF IdSets
  <2>3. R \in SnapRequests
    BY <1>2, <1>3, <2>1, <2>2, IdleType DEF SnapRequests
  <2>4. /\ R.pc = "ask" /\ R.op = op /\ R.id = i /\ R.code = 0
        /\ R.ask = L /\ R.before = B /\ R.found = {}
    BY <2>1 DEF Idle
  <2>5. q' = [q EXCEPT ![r] = R]
    BY <1>6, <2>1
  <2>6. Answering(R)'
    BY <1>1, <1>3, <1>5, <2>4 DEF Answering
  <2> QED
    BY <1>1, <2>3, <2>5, <2>6, SnapStepInv
<1>7. CASE q' = [q EXCEPT ![r] = [Idle EXCEPT !.pc = "done", !.op = op, !.id = i, !.code = 500]]
  <2>0. PICK p \in SnapPcs, c \in SnapCodes : p = "done" /\ c = 500
    BY <1>3
  <2>1. PICK R : R = [Idle EXCEPT !.pc = p, !.op = op, !.id = i, !.code = c]
    OBVIOUS
  <2>2. R \in SnapRequests
    BY <1>2, <2>1, IdleType DEF SnapRequests
  <2>3. /\ R.pc = p /\ R.ask = {} /\ R.before = {} /\ R.found = {}
        /\ R.op = op /\ R.code = c /\ R.id = i
    BY <2>1 DEF Idle
  <2>4. q' = [q EXCEPT ![r] = R]
    BY <1>7, <2>0, <2>1
  <2>5. Answering(R)'
    BY <1>3, <2>0, <2>3 DEF Answering
  <2> QED
    BY <1>1, <2>2, <2>4, <2>5, SnapStepInv
<1> QED
  BY <1>4, <1>6, <1>7 DEF snapshotsOf

LEMMA askNodeInv ==
    ASSUME SnapInv, NEW r \in Reqs, NEW n \in Nodes, askNode(r, n)
    PROVE  SnapInv'
<1>1. /\ snap \in [Ids -> Snapshot \cup {Unborn, Gone}]
      /\ q \in [Reqs -> SnapRequests] /\ Answering(q[r])
  BY SnapInvByRequest
<1>2. snap' = snap /\ SnapGrows /\ q[r] \in SnapRequests /\ q[r].pc = "ask"
  BY <1>1 DEF SnapGrows, askNode
<1>3. PICK Q \in SnapRequests : Q = q[r]
  BY <1>2
<1>4. PICK O : O = OwnOn(n)
  OBVIOUS
<1>5. O \subseteq Ids /\ \A j \in Ids : j \in O <=> snap[j].ns = "own" /\ snap[j].node = n
  BY <1>4 DEF OwnOn, CheckpointNameIn
<1>6. /\ Q.ask \ {n} \in NodeSets /\ Q.silent \cup {n} \in NodeSets
      /\ Q.found \cup O \in IdSets /\ Q.before \subseteq Ids
  BY <1>5 DEF SnapRequests, NodeSets, IdSets
<1>7. CASE q' = [q EXCEPT ![r].ask = @ \ {n}, ![r].found = @ \cup OwnOn(n)]
  <2>1. PICK R : R = [Q EXCEPT !.ask = Q.ask \ {n}, !.found = Q.found \cup O]
    OBVIOUS
  <2>2. R \in SnapRequests
    BY <1>6, <2>1 DEF SnapRequests
  <2>3. /\ R.pc = Q.pc /\ R.op = Q.op /\ R.id = Q.id /\ R.before = Q.before
        /\ R.code = Q.code /\ R.silent = Q.silent
        /\ R.ask = Q.ask \ {n} /\ R.found = Q.found \cup O
    BY <2>1 DEF SnapRequests
  <2>4. q' = [q EXCEPT ![r] = R]
    BY <1>1, <1>3, <1>4, <1>7, <2>1
  <2>5. Answering(R)'
    BY <1>1, <1>2, <1>3, <1>5, <1>6, <2>3 DEF Answering
  <2> QED
    BY <1>1, <1>2, <2>2, <2>4, <2>5, SnapStepInv
<1>8. CASE q' = [q EXCEPT ![r].ask = @ \ {n}, ![r].silent = @ \cup {n}]
  <2>1. PICK R : R = [Q EXCEPT !.ask = Q.ask \ {n}, !.silent = Q.silent \cup {n}]
    OBVIOUS
  <2>2. R \in SnapRequests
    BY <1>6, <2>1 DEF SnapRequests
  <2>3. /\ R.pc = Q.pc /\ R.op = Q.op /\ R.id = Q.id /\ R.before = Q.before
        /\ R.code = Q.code /\ R.silent = Q.silent \cup {n}
        /\ R.ask = Q.ask \ {n} /\ R.found = Q.found
    BY <2>1 DEF SnapRequests
  <2>4. q' = [q EXCEPT ![r] = R]
    BY <1>1, <1>3, <1>8, <2>1
  <2>5. Answering(R)'
    BY <1>1, <1>2, <1>3, <1>6, <2>3 DEF Answering
  <2> QED
    BY <1>1, <1>2, <2>2, <2>4, <2>5, SnapStepInv
<1> QED
  BY <1>7, <1>8 DEF askNode

\* The step and the code a request may take next.
Fits(r, p, c) ==
    /\ p = "done" \/ (p = "delete" /\ q[r].op = "delete" /\ c = 0)
    /\ q[r].op = "delete" => /\ c = 404 => q[r].id \notin q[r].before \/ snap'[q[r].id] = Gone
                             /\ c = 204 => snap'[q[r].id] = Gone

\* A request is answered, or goes on to its delete.
LEMMA SnapMoves ==
    ASSUME SnapInv, NEW r \in Reqs, q[r].ask = {},
           NEW p \in SnapPcs, NEW c \in SnapCodes,
           q' = [q EXCEPT ![r].pc = p, ![r].code = c], Fits(r, p, c),
           SnapGrows, snap' \in [Ids -> Snapshot \cup {Unborn, Gone}]
    PROVE  SnapInv'
<1>1. /\ snap \in [Ids -> Snapshot \cup {Unborn, Gone}]
      /\ q \in [Reqs -> SnapRequests] /\ Answering(q[r])
  BY SnapInvByRequest
<1>2. PICK Q \in SnapRequests : Q = q[r]
  BY <1>1
<1>3. Answering(Q)'
  BY <1>1, <1>2, AnsweringStays
<1>4. PICK R : R = [Q EXCEPT !.pc = p, !.code = c]
  OBVIOUS
<1>5. R \in SnapRequests
  BY <1>4 DEF SnapRequests
<1>6. /\ R.pc = p /\ R.op = Q.op /\ R.id = Q.id /\ R.before = Q.before
      /\ R.code = c /\ R.silent = Q.silent /\ R.ask = Q.ask /\ R.found = Q.found
  BY <1>4 DEF SnapRequests
<1>7. q' = [q EXCEPT ![r] = R]
  BY <1>1, <1>2, <1>4
<1>8. \A i \in R.before :
        \/ snap'[i] = Gone
        \/ snap'[i].ns = "own" /\ (i \in R.found \/ snap'[i].node \in R.ask \cup R.silent)
  BY <1>3, <1>6 DEF Answering
<1>9. \A i \in R.found : snap'[i] = Gone \/ snap'[i].ns = "own"
  BY <1>3, <1>6 DEF Answering
<1>10. R.op = "delete" => /\ R.code = 404 => R.id \notin R.before \/ snap'[R.id] = Gone
                          /\ R.code = 204 => snap'[R.id] = Gone
  BY <1>2, <1>6 DEF Fits
<1>11. /\ R.pc # "ask" => R.ask = {}
       /\ R.pc # "done" => R.code = 0
       /\ R.pc = "delete" => R.op = "delete"
       /\ R.op = "delete" => R.id \in Ids
  BY <1>2, <1>3, <1>6 DEF Answering, Fits
<1>12. Answering(R)'
  BY <1>8, <1>9, <1>10, <1>11 DEF Answering
<1> QED
  BY <1>5, <1>7, <1>12, SnapStepInv

LEMMA allAskedInv ==
    ASSUME SnapInv, NEW r \in Reqs, allAsked(r)
    PROVE  SnapInv'
<1>1. /\ snap \in [Ids -> Snapshot \cup {Unborn, Gone}]
      /\ q \in [Reqs -> SnapRequests] /\ Answering(q[r])
  BY SnapInvByRequest
<1>2. /\ snap' \in [Ids -> Snapshot \cup {Unborn, Gone}] /\ SnapGrows
      /\ snap' = snap /\ q[r] \in SnapRequests /\ q[r].ask = {} /\ q[r].code = 0
  BY <1>1 DEF SnapGrows, allAsked, Answering
<1>3. CASE q' = [q EXCEPT ![r].pc = "done", ![r].code = 200]
  <2>1. PICK p \in SnapPcs, c \in SnapCodes : p = "done" /\ c = 200
    BY DEF SnapPcs, SnapCodes
  <2>2. q' = [q EXCEPT ![r].pc = p, ![r].code = c]
    BY <1>3, <2>1
  <2>3. Fits(r, p, c)
    BY <2>1 DEF Fits
  <2> QED
    BY <1>2, <2>2, <2>3, SnapMoves
<1>4. CASE q' = [q EXCEPT ![r].pc = "delete"] /\ q[r].op = "delete"
  <2>1. PICK p \in SnapPcs, c \in SnapCodes : p = "delete" /\ c = 0
    BY DEF SnapPcs, SnapCodes
  <2>2. [q[r] EXCEPT !.pc = p] = [q[r] EXCEPT !.pc = p, !.code = c]
    BY <1>2, <2>1 DEF SnapRequests
  <2>3. q' = [q EXCEPT ![r] = [q[r] EXCEPT !.pc = p]]
    BY <1>1, <1>4, <2>1
  <2>4. q' = [q EXCEPT ![r] = [q[r] EXCEPT !.pc = p, !.code = c]]
    BY <2>2, <2>3
  <2>5. q' = [q EXCEPT ![r].pc = p, ![r].code = c]
    BY <1>1, <2>4
  <2>6. Fits(r, p, c)
    BY <1>4, <2>1 DEF Fits
  <2> QED
    BY <1>2, <2>5, <2>6, SnapMoves
<1>5. CASE /\ q[r].id \notin q[r].found /\ complete(r)
           /\ q' = [q EXCEPT ![r].pc = "done", ![r].code = 404]
  <2>1. PICK p \in SnapPcs, c \in SnapCodes : p = "done" /\ c = 404
    BY DEF SnapPcs, SnapCodes
  <2>2. q' = [q EXCEPT ![r].pc = p, ![r].code = c]
    BY <1>5, <2>1
  <2>3. Fits(r, p, c)
    BY <1>1, <1>2, <1>5, <2>1 DEF Fits, Answering, complete
  <2> QED
    BY <1>2, <2>2, <2>3, SnapMoves
<1>6. CASE q' = [q EXCEPT ![r].pc = "done", ![r].code = 500]
  <2>1. PICK p \in SnapPcs, c \in SnapCodes : p = "done" /\ c = 500
    BY DEF SnapPcs, SnapCodes
  <2>2. q' = [q EXCEPT ![r].pc = p, ![r].code = c]
    BY <1>6, <2>1
  <2>3. Fits(r, p, c)
    BY <2>1 DEF Fits
  <2> QED
    BY <1>2, <2>2, <2>3, SnapMoves
<1> QED
  BY <1>3, <1>4, <1>5, <1>6 DEF allAsked

LEMMA DeleteSnapshotInv ==
    ASSUME SnapInv, NEW r \in Reqs, DeleteSnapshot(r)
    PROVE  SnapInv'
<1>1. /\ snap \in [Ids -> Snapshot \cup {Unborn, Gone}]
      /\ q \in [Reqs -> SnapRequests] /\ Answering(q[r])
  BY SnapInvByRequest
<1>2. q[r].op = "delete" /\ q[r].id \in Ids /\ q[r].ask = {}
  BY <1>1 DEF DeleteSnapshot, Answering
<1>3. PICK c \in {204, 500} :
         /\ q' = [q EXCEPT ![r].pc = "done", ![r].code = c]
         /\ \/ snap' = [snap EXCEPT ![q[r].id] = Gone]
            \/ c = 500 /\ UNCHANGED snap
  BY DEF DeleteSnapshot
<1>4. snap' \in [Ids -> Snapshot \cup {Unborn, Gone}] /\ SnapGrows
  BY <1>1, <1>2, <1>3 DEF SnapGrows
<1>5. c = 204 => snap'[q[r].id] = Gone
  BY <1>1, <1>2, <1>3
<1>6. PICK p \in SnapPcs, d \in SnapCodes : p = "done" /\ d = c /\ d # 404
  BY DEF SnapPcs, SnapCodes
<1>7. q' = [q EXCEPT ![r].pc = p, ![r].code = d]
  BY <1>3, <1>6
<1>8. Fits(r, p, d)
  BY <1>5, <1>6 DEF Fits
<1> HIDE <1>3, <1>6
<1> QED
  BY <1>2, <1>4, <1>7, <1>8, SnapMoves

LEMMA SnapTaken ==
    ASSUME SnapInv, SnapGrows, snap' \in [Ids -> Snapshot \cup {Unborn, Gone}], q' = q
    PROVE  SnapInv'
<1>1. /\ snap \in [Ids -> Snapshot \cup {Unborn, Gone}]
      /\ q \in [Reqs -> SnapRequests]
      /\ \A r \in Reqs : Answering(q[r])
  BY SnapInvByRequest
<1>2. ASSUME NEW r \in Reqs, NEW Q \in SnapRequests, Q = q[r] PROVE Answering(q[r])'
  <2>1. Answering(Q)'
    BY <1>1, <1>2, AnsweringStays
  <2> QED
    BY <1>2, <2>1 DEF Answering
<1>3. \A r \in Reqs : Answering(q[r])'
  BY <1>1, <1>2
<1> QED
  BY <1>1, <1>3
     DEF SnapInv, SnapTypeOK, SnapRequests, SnapPcs, SnapOps, SnapIds, SnapCodes, IdSets,
         NodeSets, AskingAsks, BeforeIsAccounted, FoundIsOwn, DeletedIsGone, Answering

LEMMA OtherSnapshotInv ==
    ASSUME SnapInv, OtherSnapshot
    PROVE  SnapInv'
<1>1. PICK i \in Ids, n \in Nodes :
         snap[i] = Unborn /\ snap' = [snap EXCEPT ![i] = [node |-> n, ns |-> "other"]]
  BY DEF OtherSnapshot
<1>2. snap' \in [Ids -> Snapshot \cup {Unborn, Gone}] /\ SnapGrows
  BY <1>1 DEF SnapGrows, Snapshot, Namespaces, SnapInv, SnapTypeOK
<1> QED
  BY <1>2, SnapTaken DEF OtherSnapshot

LEMMA SnapRests ==
    ASSUME SnapInv, UNCHANGED snapVars
    PROVE  SnapInv'
BY DEF SnapInv, SnapTypeOK, AskingAsks, BeforeIsAccounted, FoundIsOwn, DeletedIsGone, snapVars

LEMMA SnapInitInv == Init => SnapInv
<1> SUFFICES ASSUME Init PROVE SnapInv
  OBVIOUS
<1>1. snap = [i \in Ids |-> Unborn] /\ q = [r \in Reqs |-> Idle]
  BY DEF Init, SnapInit
<1>2. /\ snap \in [Ids -> Snapshot \cup {Unborn, Gone}]
      /\ q \in [Reqs -> SnapRequests] /\ \A r \in Reqs : q[r] = Idle
  BY <1>1, IdleType
<1>3. Answering(Idle)
  BY DEF Answering, Idle
<1> QED
  BY <1>2, <1>3, SnapInvByRequest

LEMMA SnapNextInv == SnapInv /\ [Next]_vars => SnapInv'
<1> SUFFICES ASSUME SnapInv, [Next]_vars PROVE SnapInv'
  OBVIOUS
<1>1. listed \in SUBSET Nodes
  BY DEF listed
<1>2. CASE UNCHANGED vars
  BY <1>2, SnapRests DEF vars
<1>3. ASSUME NEW r \in Reqs, TagRequest(r) PROVE SnapInv'
  <2>1. CASE deleteTemplate(r)
    <3>1. CASE \E i \in Ids : deleteSnapshot(r, i, listed)
      BY <1>1, <3>1, snapshotsOfInv DEF deleteSnapshot
    <3>2. CASE UNCHANGED snapVars
      BY <3>2, SnapRests
    <3> QED
      BY <2>1, <3>1, <3>2 DEF deleteTemplate
  <2>2. CASE UNCHANGED snapVars
    BY <2>2, SnapRests
  <2> QED
    BY <1>3, <2>1, <2>2 DEF TagRequest, Begin, ReadTags, writeTags, deleteHolder, forEachHolder
<1>4. ASSUME NEW r \in Reqs, SnapshotRequest(r) PROVE SnapInv'
  <2>1. CASE createSnapshot(r)
    BY <2>1, createSnapshotInv
  <2>2. CASE listSnapshots(r, listed)
    BY <1>1, <2>2, snapshotsOfInv DEF listSnapshots
  <2>3. CASE SnapStep(r)
    BY <2>3, askNodeInv, allAskedInv, DeleteSnapshotInv DEF SnapStep
  <2> QED
    BY <1>4, <2>1, <2>2, <2>3 DEF SnapshotRequest
<1>5. CASE OtherSnapshot
  BY <1>5, OtherSnapshotInv
<1>6. CASE publishBuild
  BY <1>6, SnapRests DEF publishBuild, ListHolders, DeleteOlder, LabelBuild
<1>7. ASSUME NEW n \in Nodes, Promote(n) \/ Publish(n) \/ Unlist(n) PROVE SnapInv'
  BY <1>7, SnapRests DEF Promote, Publish, Unlist
<1> QED
  BY <1>2, <1>3, <1>4, <1>5, <1>6, <1>7 DEF Next

\* Snapshot listings and deletes keep account of what there was when they began.
THEOREM SnapshotInvariant == Spec => []SnapInv
BY SnapInitInv, SnapNextInv, PTL DEF Spec

\* An answer of the snapshot endpoints was true while its request ran: a delete
\* answers 404 only for an id that none of the listed nodes held all along, also
\* when other requests and other namespaces take and delete snapshots meanwhile.
THEOREM SnapshotAnswers == Spec => []SnapshotAnswersAreTrue
<1>1. SnapInv => SnapshotAnswersAreTrue
  <2> SUFFICES ASSUME SnapInv PROVE SnapshotAnswersAreTrue
    OBVIOUS
  <2>1. ASSUME NEW r \in Reqs, q[r].op = "list", q[r].code = 200, NEW i \in q[r].before,
               CheckpointNameIn(i), snap[i].node \notin q[r].silent
        PROVE  i \in q[r].found
    BY <2>1 DEF SnapInv, AskingAsks, BeforeIsAccounted, CheckpointNameIn, Gone
  <2>2. ASSUME NEW r \in Reqs, NEW i \in q[r].found, Held(i) PROVE snap[i].ns = "own"
    BY <2>2 DEF SnapInv, FoundIsOwn, Held, Namespaces, Gone
  <2> QED
    BY <2>1, <2>2 DEF SnapshotAnswersAreTrue, SnapInv, DeletedIsGone
<1> QED
  BY <1>1, SnapshotInvariant, PTL
-----------------------------------------------------------------------------
(* The template.                                                           *)

TPcs == {"idle", "read", "write", "delete", "answered", "refused"}
TOps == {"none", "assign", "untag", "get", "delete"}
TagNames == Tags \cup {"none"}
Curs == Nodes \cup {"none"}
Holders == SUBSET Nodes
Sinces == 0..MaxBuilds
TagSets == SUBSET Tags
Flags == BOOLEAN
Requests ==
    [pc : TPcs, op : TOps, tag : TagNames, view : Views, cur : Curs, tags : Labels,
     todo : Holders, ok : Flags, since : Sinces, raced : Flags, owed : TagSets, missed : TagSets]

TagTypeOK ==
    /\ rec \in [Nodes -> Record]
    /\ pub \in [Nodes -> Record \cup {Unlisted}]
    /\ latest \in Builds
    /\ pubrun \in [pc : {"none", "list", "delete", "label"}, node : Nodes \cup {"none"},
                   todo : SUBSET (Nodes \X Builds)]
    /\ t \in [Reqs -> Requests]
    /\ acked \subseteq Tags

\* A request that found a holder of the latest build; one that writes tags, or
\* deletes; one that writes tags.
SeesLatest(r) == \E n \in DOMAIN t[r].view : t[r].view[n] = latest
Running(r) == t[r].pc \in {"read", "write", "delete"} /\ t[r].op # "get"
Tagging(r) == t[r].pc \in {"read", "write"} /\ t[r].op # "get"

\* A request's steps follow from what it found.
Shaped(R) ==
    /\ R.pc \in {"read", "write", "delete"} => DOMAIN R.view # {}
    /\ R.pc = "read" => /\ R.cur \in newest(R.view)
                        /\ R.op \in {"assign", "untag", "get"}
                        /\ R.op # "get" => R.tag \in Tags
    /\ R.pc = "write" =>
         /\ R.op \in {"assign", "untag"}
         /\ \A x \in DOMAIN R.tags : \E n \in DOMAIN R.view : R.view[n] = R.tags[x]
         /\ R.op = "assign" => R.tag \in Tags /\ R.tag \in DOMAIN R.tags
    /\ R.pc = "delete" => R.op = "delete"
    /\ R.pc \in {"write", "delete"} => R.todo \subseteq DOMAIN R.view
    /\ R.pc \notin {"read", "write", "delete"} => DOMAIN R.view = {}
    /\ R.missed = {}
    /\ R.since <= latest

RequestShape == \A r \in Reqs : Shaped(t[r])

\* Nothing is newer than the latest build, and builds after the first are on
\* one node.
Marked(n) ==
    \/ rec[n].build = latest
    \/ pub[n].build = latest
    \/ \E r \in Reqs : n \in DOMAIN t[r].view /\ t[r].view[n] = latest

BuildsAreKnown ==
    /\ \A n \in Nodes : rec[n].build <= latest /\ pub[n].build <= latest
    /\ \A r \in Reqs : \A n \in DOMAIN t[r].view : t[r].view[n] <= latest
    /\ latest > 1 => \A n, m \in Nodes : Marked(n) /\ Marked(m) => n = m

PublishShape ==
    /\ pubrun.pc # "none" => latest > 1 /\ pubrun.node \in Nodes
    /\ \A h \in pubrun.todo : h[2] < latest

\* Two requests that write the latest build at the same time know of it.
RacesAreKnown ==
    \A r, o \in Reqs :
        (r # o /\ Tagging(r) /\ Running(o) /\ SeesLatest(r) /\ SeesLatest(o)) => t[r].raced

\* Acknowledged tags are on every holder of the latest build.
AckedAreHeld ==
    \A x \in acked : \A n \in Nodes : rec[n].build = latest =>
        x \in DOMAIN rec[n].labels /\ rec[n].labels[x] = latest

\* A write under way of the latest build carries them.
HasHolder == \E n \in Nodes : rec[n].build = latest
Carries(r) ==
    t[r].pc = "write" /\ SeesLatest(r) /\ HasHolder =>
        \A x \in acked : x \in DOMAIN t[r].tags /\ t[r].tags[x] = latest
AckedAreCarried == \A r \in Reqs : Carries(r)

\* No write of a tag is under way while it is acknowledged.
Opens(r) == Tagging(r) /\ SeesLatest(r) => t[r].tag \notin acked
OwnTagIsOpen == \A r \in Reqs : Opens(r)

\* Of the first build, which any nodes may hold: while a tag is acknowledged
\* nobody deletes, and what is published or is to be read is held.
Respects(r) ==
    /\ t[r].pc # "delete"
    /\ t[r].pc = "read" /\ t[r].op # "get" => rec[t[r].cur].build = latest
FirstIsHeld ==
    latest = 1 /\ acked # {} =>
        /\ \A n \in Nodes : pub[n].build = latest => rec[n].build = latest
        /\ \A r \in Reqs : Respects(r)

\* What an assign that nobody races has done so far stands, and of the first
\* build it reaches every holder there is.
Assigning(r) ==
    t[r].pc \in {"read", "write"} /\ t[r].op = "assign" /\ ~t[r].raced /\ t[r].ok
Written(r) ==
    Assigning(r) /\ t[r].pc = "write" /\ SeesLatest(r) =>
        \A n \in DOMAIN t[r].view \ t[r].todo :
            rec[n].build = latest => rec[n].labels = t[r].tags
Covers(r) ==
    Assigning(r) /\ latest = 1 =>
        \A n \in Nodes : pub[n].build = latest =>
            \/ rec[n].build = latest
            \/ t[r].pc = "read" /\ n \in DOMAIN t[r].view
            \/ t[r].pc = "write" /\ n \in t[r].todo
AssignStands == \A r \in Reqs : Written(r) /\ Covers(r)

\* What a delete has done so far stands.
Deleted(R) ==
    R.op = "delete" =>
        /\ R.pc = "delete" /\ R.ok => \A n \in DOMAIN R.view \ R.todo :
               rec[n].build = 0 \/ rec[n].build > R.since
        /\ R.pc = "answered" => \A n \in R.todo : rec[n].build = 0 \/ rec[n].build > R.since
DeleteStands == \A r \in Reqs : Deleted(t[r])

RunInv ==
    /\ TagTypeOK
    /\ RequestShape
    /\ BuildsAreKnown
    /\ PublishShape
    /\ RacesAreKnown
    /\ AssignStands
    /\ DeleteStands

AckInv ==
    /\ AckedAreHeld
    /\ AckedAreCarried
    /\ OwnTagIsOpen
    /\ FirstIsHeld

TagInv == RunInv /\ AckInv

-----------------------------------------------------------------------------
(* What the types say.                                                     *)

LEMMA EmptyIsLabels == <<>> \in Labels /\ <<>> \in Views /\ DOMAIN <<>> = {}
<1>1. <<>> \in [{} -> Builds] /\ DOMAIN <<>> = {}
  OBVIOUS
<1>2. [{} -> Builds] \in {[H -> Builds] : H \in SUBSET Nodes}
  OBVIOUS
<1>3. [{} -> Builds] \in {[T -> Builds] : T \in SUBSET Tags}
  OBVIOUS
<1> QED
  BY <1>1, <1>2, <1>3 DEF Views, Labels

LEMMA LabelFacts ==
    ASSUME NEW g \in Labels
    PROVE  /\ DOMAIN g \subseteq Tags /\ \A x \in DOMAIN g : g[x] \in Builds
           /\ \A S \in SUBSET DOMAIN g : Only(g, S) \in Labels
           /\ \A tag \in Tags, d \in Builds : Pointing(g, tag, d) \in Labels
<1>1. DOMAIN g \subseteq Tags /\ \A x \in DOMAIN g : g[x] \in Builds
  BY DEF Labels
<1>2. ASSUME NEW S \in SUBSET DOMAIN g PROVE Only(g, S) \in Labels
  BY <1>1 DEF Labels, Only
<1>3. ASSUME NEW tag \in Tags, NEW d \in Builds PROVE Pointing(g, tag, d) \in Labels
  <2>1. DOMAIN g \cup {tag} \in SUBSET Tags
    BY <1>1
  <2>2. Pointing(g, tag, d) \in [DOMAIN g \cup {tag} -> Builds]
    BY <1>1 DEF Pointing
  <2> QED
    BY <2>1, <2>2 DEF Labels
<1> QED
  BY <1>1, <1>2, <1>3

LEMMA ViewFacts ==
    ASSUME NEW v \in Views
    PROVE  DOMAIN v \subseteq Nodes /\ \A n \in DOMAIN v : v[n] \in Builds
BY DEF Views

LEMMA BuildFacts == \A b \in Builds : b \in Nat /\ b \in Int /\ b > 0
BY MaxBuildsAssumption DEF Builds

LEMMA RecordFacts ==
    ASSUME TagTypeOK, NEW n \in Nodes
    PROVE  /\ rec[n] \in Record /\ rec[n].build \in Nat /\ rec[n].labels \in Labels
           /\ rec[n].build \in Builds \cup {0}
           /\ rec[n].build = 0 => rec[n] = NoRecord
           /\ pub[n] \in Record \cup {Unlisted}
           /\ pub[n].build \in Int /\ pub[n].build \in Builds \cup {0, -1}
<1>1. rec[n] \in Record /\ pub[n] \in Record \cup {Unlisted}
  BY DEF TagTypeOK
<1>2. NoRecord.build = 0 /\ NoRecord.labels = <<>> /\ Unlisted.build = -1
  BY DEF NoRecord, Unlisted
<1>3. ASSUME NEW R \in Record
      PROVE  /\ R.build \in Builds \cup {0} /\ R.labels \in Labels
             /\ R.build = 0 => R = NoRecord
  BY <1>2, EmptyIsLabels, BuildFacts DEF Record
<1>4. /\ rec[n].build \in Builds \cup {0} /\ rec[n].labels \in Labels
      /\ rec[n].build = 0 => rec[n] = NoRecord
  BY <1>1, <1>3
<1>5. pub[n].build \in Builds \cup {0, -1}
  BY <1>1, <1>2, <1>3
<1>6. rec[n].build \in Nat
  BY <1>4, BuildFacts
<1>7. pub[n].build \in Int
  BY <1>5, BuildFacts
<1> QED
  BY <1>1, <1>4, <1>5, <1>6, <1>7

LEMMA RequestTypes == Requests = Request
BY DEF Requests, Request, TPcs, TOps, TagNames, Curs, Holders, Sinces, TagSets, Flags

LEMMA TypesAgree == TypeOK <=> SnapTypeOK /\ TagTypeOK
BY RequestTypes DEF TypeOK, TagTypeOK

LEMMA RequestFacts ==
    ASSUME NEW R \in Requests
    PROVE  /\ R.view \in Views /\ R.tags \in Labels /\ R.todo \subseteq Nodes
           /\ R.ok \in BOOLEAN /\ R.raced \in BOOLEAN /\ R.since \in Nat
           /\ DOMAIN R.view \subseteq Nodes /\ \A n \in DOMAIN R.view : R.view[n] \in Builds
<1>1. R.view \in Views /\ R.tags \in Labels /\ R.todo \subseteq Nodes
  BY DEF Requests, Holders
<1>2. R.ok \in BOOLEAN /\ R.raced \in BOOLEAN
  BY DEF Requests, Flags
<1>3. R.since \in Nat
  BY MaxBuildsAssumption DEF Requests, Sinces
<1> QED
  BY <1>1, <1>2, <1>3, ViewFacts

LEMMA NoRequestType == NoRequest \in Requests /\ NoRequest.view = <<>>
<1>1. /\ "idle" \in TPcs /\ "none" \in TOps /\ "none" \in TagNames /\ "none" \in Curs
      /\ {} \in Holders /\ 0 \in Sinces /\ {} \in TagSets /\ TRUE \in Flags /\ FALSE \in Flags
  BY MaxBuildsAssumption DEF TPcs, TOps, TagNames, Curs, Holders, Sinces, TagSets, Flags
<1>2. NoRequest \in Requests
  BY <1>1, EmptyIsLabels DEF NoRequest, Requests
<1> QED
  BY <1>2 DEF NoRequest

-----------------------------------------------------------------------------
(* What a step leaves of the requests that do not take it: they may learn  *)
(* that they race.                                                         *)

Keeps(o) ==
    /\ t'[o].pc = t[o].pc /\ t'[o].op = t[o].op /\ t'[o].tag = t[o].tag
    /\ t'[o].view = t[o].view /\ t'[o].cur = t[o].cur /\ t'[o].tags = t[o].tags
    /\ t'[o].todo = t[o].todo /\ t'[o].ok = t[o].ok /\ t'[o].since = t[o].since
    /\ t'[o].missed = t[o].missed
    /\ t[o].raced => t'[o].raced

\* The requests in S step.
Steps(S) == t' \in [Reqs -> Requests] /\ \A o \in Reqs \ S : Keeps(o)

LEMMA OneSteps ==
    ASSUME t \in [Reqs -> Requests], NEW r \in Reqs, NEW R \in Requests,
           t' = [t EXCEPT ![r] = R]
    PROVE  Steps({r}) /\ t'[r] = R /\ \A o \in Reqs \ {r} : t'[o] = t[o]
BY DEF Steps, Keeps

\* Marking a request changes only its mark.
LEMMA MarkFacts ==
    ASSUME NEW Q \in Requests, NEW M, M = [Q EXCEPT !.raced = TRUE]
    PROVE  /\ M \in Requests /\ M.raced
           /\ M.pc = Q.pc /\ M.op = Q.op /\ M.tag = Q.tag /\ M.view = Q.view /\ M.cur = Q.cur
           /\ M.tags = Q.tags /\ M.todo = Q.todo /\ M.ok = Q.ok /\ M.since = Q.since
           /\ M.missed = Q.missed
<1>1. PICK b \in Flags : b = TRUE
  BY DEF Flags
<1>2. M = [Q EXCEPT !.raced = b]
  BY <1>1
<1>3. M \in Requests
  BY <1>2 DEF Requests
<1>4. /\ M.pc = Q.pc /\ M.op = Q.op /\ M.tag = Q.tag /\ M.view = Q.view /\ M.cur = Q.cur
      /\ M.tags = Q.tags /\ M.todo = Q.todo /\ M.ok = Q.ok /\ M.since = Q.since
      /\ M.missed = Q.missed /\ M.raced = b
  BY <1>2 DEF Requests
<1>5. M.raced
  BY <1>1, <1>4
<1> QED
  BY <1>3, <1>4, <1>5

LEMMA MarkedSteps ==
    ASSUME t \in [Reqs -> Requests], NEW S, t' = MarkRaced(t, S)
    PROVE  Steps({}) /\ \A o \in Reqs : o \in S => t'[o].raced
<1>1. ASSUME NEW o \in Reqs PROVE t'[o] \in Requests /\ Keeps(o) /\ (o \in S => t'[o].raced)
  <2>1. CASE o \in S
    <3>1. t'[o] = [t[o] EXCEPT !.raced = TRUE]
      BY <2>1 DEF MarkRaced
    <3>2. PICK Q \in Requests : Q = t[o]
      OBVIOUS
    <3>3. PICK M : M = [Q EXCEPT !.raced = TRUE]
      OBVIOUS
    <3>4. t'[o] = M
      BY <3>1, <3>2, <3>3
    <3> QED
      BY <3>2, <3>3, <3>4, MarkFacts DEF Keeps
  <2>2. CASE o \notin S
    BY <2>2 DEF MarkRaced, Keeps
  <2> QED
    BY <2>1, <2>2
<1>2. t' = [o \in Reqs |-> t'[o]]
  BY DEF MarkRaced
<1> QED
  BY <1>1, <1>2 DEF Steps

LEMMA MarkedOneSteps ==
    ASSUME t \in [Reqs -> Requests], NEW r \in Reqs, NEW R \in Requests, NEW S,
           t' = [MarkRaced(t, S) EXCEPT ![r] = R]
    PROVE  Steps({r}) /\ t'[r] = R /\ \A o \in Reqs \ {r} : o \in S => t'[o].raced
<1>1. ASSUME NEW o \in Reqs \ {r}
      PROVE  t'[o] \in Requests /\ Keeps(o) /\ (o \in S => t'[o].raced)
  <2>1. CASE o \in S
    <3>1. t'[o] = [t[o] EXCEPT !.raced = TRUE]
      BY <2>1 DEF MarkRaced
    <3>2. PICK Q \in Requests : Q = t[o]
      OBVIOUS
    <3>3. PICK M : M = [Q EXCEPT !.raced = TRUE]
      OBVIOUS
    <3>4. t'[o] = M
      BY <3>1, <3>2, <3>3
    <3> QED
      BY <3>2, <3>3, <3>4, MarkFacts DEF Keeps
  <2>2. CASE o \notin S
    BY <2>2 DEF MarkRaced, Keeps
  <2> QED
    BY <2>1, <2>2
<1>2. t' = [o \in Reqs |-> t'[o]] /\ t'[r] = R
  BY DEF MarkRaced
<1> QED
  BY <1>1, <1>2 DEF Steps

LEMMA NoneSteps ==
    ASSUME t \in [Reqs -> Requests], t' = t
    PROVE  Steps({})
BY DEF Steps, Keeps

\* What a bystander sees and does.
LEMMA Bystander ==
    ASSUME NEW o \in Reqs, Keeps(o), latest' = latest
    PROVE  /\ SeesLatest(o)' <=> SeesLatest(o)
           /\ Running(o)' <=> Running(o)
           /\ Tagging(o)' <=> Tagging(o)
           /\ Assigning(o)' => Assigning(o) /\ ~t'[o].raced
BY DEF Keeps, SeesLatest, Running, Tagging, Assigning

-----------------------------------------------------------------------------
(* What each part of the invariant asks of a step.                         *)

LEMMA BuildsStay ==
    ASSUME TagTypeOK, BuildsAreKnown, latest' = latest,
           \A n \in Nodes : rec'[n].build = rec[n].build \/ rec'[n].build = 0,
           \A n \in Nodes : \/ pub'[n].build = pub[n].build
                            \/ pub'[n].build = rec[n].build
                            \/ pub'[n].build = -1,
           \A r \in Reqs : \A n \in DOMAIN t'[r].view :
               \/ n \in DOMAIN t[r].view /\ t'[r].view[n] = t[r].view[n]
               \/ n \in Nodes /\ t'[r].view[n] = pub[n].build
    PROVE  BuildsAreKnown'
<1>1. latest \in Nat /\ latest > 0
  BY BuildFacts DEF TagTypeOK
<1>2. \A n \in Nodes : rec'[n].build <= latest' /\ pub'[n].build <= latest'
  BY <1>1 DEF BuildsAreKnown
<1>3. \A r \in Reqs : \A n \in DOMAIN t'[r].view : t'[r].view[n] <= latest'
  BY DEF BuildsAreKnown
<1>4. ASSUME NEW n \in Nodes, Marked(n)' PROVE Marked(n)
  <2>1. CASE rec'[n].build = latest
    BY <1>1, <2>1 DEF Marked
  <2>2. CASE pub'[n].build = latest
    BY <1>1, <2>2 DEF Marked
  <2>3. CASE \E r \in Reqs : n \in DOMAIN t'[r].view /\ t'[r].view[n] = latest
    BY <2>3 DEF Marked
  <2> QED
    BY <1>4, <2>1, <2>2, <2>3 DEF Marked
<1>5. latest' > 1 => \A n, m \in Nodes : Marked(n)' /\ Marked(m)' => n = m
  BY <1>4 DEF BuildsAreKnown
<1> QED
  BY <1>2, <1>3, <1>5 DEF BuildsAreKnown

LEMMA ShapesStay ==
    ASSUME TagTypeOK, RequestShape, NEW S \in SUBSET Reqs, Steps(S), latest' = latest,
           \A r \in S : Shaped(t[r])'
    PROVE  RequestShape'
<1>1. ASSUME NEW o \in Reqs \ S PROVE Shaped(t[o])'
  <2>1. Keeps(o) /\ Shaped(t[o])
    BY DEF Steps, RequestShape
  <2> QED
    BY <2>1 DEF Keeps, Shaped, newest
<1> QED
  BY <1>1 DEF RequestShape

LEMMA ShapedAs ==
    ASSUME NEW r \in Reqs, NEW R, t'[r] = R, Shaped(R)'
    PROVE  Shaped(t[r])'
BY DEF Shaped

LEMMA RacesStay ==
    ASSUME RacesAreKnown, NEW S \in SUBSET Reqs, Steps(S), latest' = latest,
           \A r \in S : (Running(r)' /\ SeesLatest(r)') =>
               /\ Running(r) /\ SeesLatest(r)
               /\ Tagging(r)' => Tagging(r)
               /\ t[r].raced => t'[r].raced
    PROVE  RacesAreKnown'
<1>1. ASSUME NEW o \in Reqs, Running(o)', SeesLatest(o)'
      PROVE  /\ Running(o) /\ SeesLatest(o)
             /\ Tagging(o)' => Tagging(o)
             /\ t[o].raced => t'[o].raced
  <2>1. CASE o \in S
    BY <1>1, <2>1
  <2>2. CASE o \notin S
    BY <1>1, <2>2, Bystander DEF Steps, Keeps
  <2> QED
    BY <2>1, <2>2
<1>2. \A o \in Reqs : Tagging(o)' => Running(o)'
  BY DEF Tagging, Running
<1> QED
  BY <1>1, <1>2 DEF RacesAreKnown

LEMMA AssignsStand ==
    ASSUME AssignStands, NEW S \in SUBSET Reqs, Steps(S), latest' = latest,
           \A o \in Reqs \ S : (Assigning(o) /\ ~t'[o].raced /\ SeesLatest(o)) =>
               \A n \in DOMAIN t[o].view : rec'[n].build = latest =>
                   rec[n].build = latest /\ rec'[n].labels = rec[n].labels,
           latest = 1 => \A o \in Reqs \ S : (Assigning(o) /\ ~t'[o].raced) =>
               \A n \in Nodes : pub'[n].build = latest =>
                   \/ rec'[n].build = latest
                   \/ pub[n].build = latest /\ rec[n].build # latest,
           \A r \in S : Written(r)' /\ Covers(r)'
    PROVE  AssignStands'
<1>1. ASSUME NEW o \in Reqs \ S PROVE Written(o)' /\ Covers(o)'
  <2>1. Keeps(o) /\ Written(o) /\ Covers(o)
    BY DEF Steps, AssignStands
  <2>2. /\ SeesLatest(o)' <=> SeesLatest(o)
        /\ Assigning(o)' => Assigning(o) /\ ~t'[o].raced
    BY <2>1, Bystander
  <2>3. Written(o)'
    BY <2>1, <2>2 DEF Written, Keeps
  <2>4. Covers(o)'
    BY <2>1, <2>2 DEF Covers, Keeps
  <2> QED
    BY <2>3, <2>4
<1> QED
  BY <1>1 DEF AssignStands

LEMMA DeletesStand ==
    ASSUME TagTypeOK, RequestShape, DeleteStands, NEW S \in SUBSET Reqs, Steps(S),
           \A n \in Nodes : \/ rec'[n].build = rec[n].build
                            \/ rec'[n].build = 0
                            \/ rec'[n].build = latest + 1,
           \A r \in S : Deleted(t[r])'
    PROVE  DeleteStands'
<1>1. ASSUME NEW o \in Reqs \ S PROVE Deleted(t[o])'
  <2>1. Keeps(o) /\ Deleted(t[o]) /\ t[o].since <= latest
    BY DEF Steps, DeleteStands, RequestShape, Shaped
  <2>2. /\ DOMAIN t[o].view \subseteq Nodes /\ t[o].todo \subseteq Nodes
        /\ t[o].since \in Nat /\ latest \in Nat
    BY RequestFacts, BuildFacts DEF TagTypeOK
  <2>3. latest + 1 > t[o].since
    BY <2>1, <2>2
  <2>4. \A n \in Nodes : (rec[n].build = 0 \/ rec[n].build > t[o].since) =>
                            (rec'[n].build = 0 \/ rec'[n].build > t[o].since)
    BY <2>3
  <2> QED
    BY <2>1, <2>2, <2>4 DEF Deleted, Keeps
<1> QED
  BY <1>1 DEF DeleteStands

LEMMA AcksStay ==
    ASSUME TagTypeOK, RequestShape, AckInv, NEW S \in SUBSET Reqs, Steps(S),
           latest' = latest, acked' \subseteq acked,
           \A n \in Nodes : rec'[n].build = latest =>
               /\ rec[n].build = latest
               /\ \/ rec'[n].labels = rec[n].labels
                  \/ \A x \in acked :
                        x \in DOMAIN rec'[n].labels /\ rec'[n].labels[x] = latest,
           latest = 1 /\ acked # {} =>
               /\ \A n \in Nodes : rec[n].build = latest => rec'[n].build = latest
               /\ \A n \in Nodes : pub'[n].build = latest => rec'[n].build = latest,
           \A r \in S : Carries(r)' /\ Opens(r)' /\ (latest = 1 /\ acked' # {} => Respects(r)')
    PROVE  AckInv'
<1>1. AckedAreHeld'
  BY DEF AckInv, AckedAreHeld
<1>2. HasHolder' => HasHolder
  BY DEF HasHolder
<1>3. ASSUME NEW o \in Reqs \ S
      PROVE  Carries(o)' /\ Opens(o)' /\ (latest = 1 /\ acked' # {} => Respects(o)')
  <2>1. Keeps(o) /\ Carries(o) /\ Opens(o) /\ Shaped(t[o]) /\ t[o] \in Requests
    BY DEF Steps, AckInv, AckedAreCarried, OwnTagIsOpen, RequestShape, TagTypeOK
  <2>2. /\ SeesLatest(o)' <=> SeesLatest(o)
        /\ Tagging(o)' <=> Tagging(o)
    BY <2>1, Bystander
  <2>3. Carries(o)' /\ Opens(o)'
    BY <1>2, <2>1, <2>2 DEF Carries, Opens, Keeps
  <2>4. t[o].pc = "read" => t[o].cur \in Nodes
    BY <2>1, RequestFacts DEF Shaped, newest
  <2>5. ASSUME latest = 1, acked' # {} PROVE Respects(o)'
    <3>1. Respects(o) /\ acked # {}
      BY <2>5 DEF AckInv, FirstIsHeld
    <3> QED
      BY <2>1, <2>4, <2>5, <3>1 DEF Respects, Keeps
  <2> QED
    BY <2>3, <2>5
<1>4. AckedAreCarried' /\ OwnTagIsOpen'
  BY <1>3 DEF AckedAreCarried, OwnTagIsOpen
<1>5. FirstIsHeld'
  BY <1>3 DEF FirstIsHeld
<1> QED
  BY <1>1, <1>4, <1>5 DEF AckInv

LEMMA TagRests ==
    ASSUME TagInv, UNCHANGED templateVars
    PROVE  TagInv'
<1>1. UNCHANGED <<rec, pub, latest, pubrun, t, acked>>
  BY DEF templateVars
<1>2. RunInv'
  BY <1>1 DEF TagInv, RunInv, TagTypeOK, RequestShape, Shaped, BuildsAreKnown, Marked, PublishShape,
              RacesAreKnown, Tagging, Running, SeesLatest, AssignStands, Assigning, Written, Covers,
              DeleteStands, Deleted
<1>3. AckInv'
  BY <1>1 DEF TagInv, AckInv, AckedAreHeld, AckedAreCarried, Carries, HasHolder, SeesLatest,
              OwnTagIsOpen, Opens, Tagging, FirstIsHeld, Respects
<1> QED
  BY <1>2, <1>3 DEF TagInv

-----------------------------------------------------------------------------
(* A request ends.                                                         *)

Ended(R) ==
    /\ R.pc \in {"idle", "answered", "refused"} /\ DOMAIN R.view = {} /\ R.missed = {}
    /\ R.since <= latest

LEMMA EndRuns ==
    ASSUME RunInv, UNCHANGED <<rec, pub, latest, pubrun>>, acked' \subseteq Tags,
           NEW r \in Reqs, NEW R \in Requests, t' = [t EXCEPT ![r] = R], Ended(R), Deleted(R)
    PROVE  RunInv'
<1>1. /\ TagTypeOK /\ RequestShape /\ BuildsAreKnown /\ PublishShape /\ RacesAreKnown
      /\ AssignStands /\ DeleteStands
  BY DEF RunInv
<1>2. Steps({r}) /\ t'[r] = R /\ (\A o \in Reqs \ {r} : t'[o] = t[o]) /\ {r} \in SUBSET Reqs
  BY <1>1, OneSteps DEF TagTypeOK
<1>3. TagTypeOK'
  BY <1>1, <1>2 DEF TagTypeOK, Steps
<1>4. RequestShape'
  <2>1. Shaped(t[r])'
    BY <1>2 DEF Shaped, Ended
  <2> QED
    BY <1>1, <1>2, <2>1, ShapesStay
<1>5. BuildsAreKnown'
  <2>1. \A o \in Reqs : \A n \in DOMAIN t'[o].view :
           n \in DOMAIN t[o].view /\ t'[o].view[n] = t[o].view[n]
    BY <1>2 DEF Ended
  <2> QED
    BY <1>1, <2>1, BuildsStay
<1>6. RacesAreKnown'
  <2>1. ~Running(r)'
    BY <1>2 DEF Running, Ended
  <2> QED
    BY <1>1, <1>2, <2>1, RacesStay
<1>7. AssignStands'
  <2>1. Written(r)' /\ Covers(r)'
    BY <1>2 DEF Written, Covers, Assigning, Ended
  <2> QED
    BY <1>1, <1>2, <2>1, AssignsStand
<1>8. DeleteStands'
  <2>1. Deleted(t[r])'
    BY <1>2 DEF Deleted
  <2> QED
    BY <1>1, <1>2, <2>1, DeletesStand
<1>9. PublishShape'
  BY <1>1 DEF PublishShape
<1> QED
  BY <1>3, <1>4, <1>5, <1>6, <1>7, <1>8, <1>9 DEF RunInv

LEMMA EndAcks ==
    ASSUME TagInv, UNCHANGED <<rec, pub, latest, pubrun, acked>>,
           NEW r \in Reqs, NEW R \in Requests, t' = [t EXCEPT ![r] = R], Ended(R), Deleted(R)
    PROVE  TagInv'
<1>1. TagTypeOK /\ RequestShape /\ AckInv /\ RunInv /\ acked' \subseteq Tags
  BY DEF TagInv, RunInv, TagTypeOK
<1>2. Steps({r}) /\ t'[r] = R /\ {r} \in SUBSET Reqs
  BY <1>1, OneSteps DEF TagTypeOK
<1>3. Carries(r)' /\ Opens(r)' /\ Respects(r)'
  BY <1>2 DEF Carries, Opens, Respects, Tagging, Ended
<1>4. latest = 1 /\ acked # {} => \A n \in Nodes : pub[n].build = latest => rec[n].build = latest
  BY <1>1 DEF AckInv, FirstIsHeld
<1>5. AckInv'
  BY <1>1, <1>2, <1>3, <1>4, AcksStay
<1> QED
  BY <1>1, <1>5, EndRuns DEF TagInv

LEMMA RefuseInv ==
    ASSUME TagInv, NEW r \in Reqs, Refuse(r), UNCHANGED <<rec, pub, latest, pubrun, acked>>
    PROVE  TagInv'
<1>1. PICK p \in TPcs : p = "refused"
  BY DEF TPcs
<1>2. PICK R : R = [NoRequest EXCEPT !.pc = p]
  OBVIOUS
<1>3. R \in Requests
  BY <1>2, NoRequestType DEF Requests
<1>4. /\ R.pc = "refused" /\ R.op = "none" /\ R.view = <<>> /\ R.missed = {} /\ R.since = 0
  BY <1>1, <1>2 DEF NoRequest
<1>5. latest \in Nat
  BY BuildFacts DEF TagInv, RunInv, TagTypeOK
<1>6. Ended(R) /\ Deleted(R)
  BY <1>4, <1>5, EmptyIsLabels DEF Ended, Deleted
<1>7. t' = [t EXCEPT ![r] = R]
  BY <1>1, <1>2 DEF Refuse
<1> QED
  BY <1>3, <1>6, <1>7, EndAcks

\* The tags read are those of the record, as far as the builds they point at
\* were found.
LEMMA liveTagsFacts ==
    ASSUME RunInv, NEW r \in Reqs, t[r].pc = "read"
    PROVE  /\ t[r].cur \in Nodes /\ t[r].cur \in DOMAIN t[r].view
           /\ liveTags(r) \in Labels
           /\ \A x \in DOMAIN liveTags(r) :
                 \E n \in DOMAIN t[r].view : t[r].view[n] = liveTags(r)[x]
           /\ SeesLatest(r) => /\ t[r].view[t[r].cur] = latest
                               /\ \A x \in DOMAIN rec[t[r].cur].labels :
                                     rec[t[r].cur].labels[x] = latest =>
                                         x \in DOMAIN liveTags(r) /\ liveTags(r)[x] = latest
<1>1. t[r] \in Requests /\ Shaped(t[r]) /\ TagTypeOK /\ BuildsAreKnown
  BY DEF RunInv, TagTypeOK, RequestShape
<1>2. t[r].cur \in Nodes /\ t[r].cur \in newest(t[r].view) /\ t[r].cur \in DOMAIN t[r].view
  BY <1>1, RequestFacts DEF Shaped, newest
<1>3. PICK g \in Labels : g = rec[t[r].cur].labels
  BY <1>1, <1>2, RecordFacts
<1>4. PICK T : T = {x \in DOMAIN g : \E n \in DOMAIN t[r].view : t[r].view[n] = g[x]}
  OBVIOUS
<1>5. liveTags(r) = Only(g, T) /\ T \in SUBSET DOMAIN g
  BY <1>3, <1>4 DEF liveTags, liveOnly
<1>6. liveTags(r) \in Labels
  BY <1>5, LabelFacts
<1>7. DOMAIN liveTags(r) = T /\ \A x \in T : liveTags(r)[x] = g[x]
  BY <1>5 DEF Only
<1>8. SeesLatest(r) => t[r].view[t[r].cur] = latest
  <2>1. SUFFICES ASSUME SeesLatest(r) PROVE t[r].view[t[r].cur] = latest
    OBVIOUS
  <2>2. t[r].view[t[r].cur] \in Nat /\ latest \in Nat /\ t[r].view[t[r].cur] <= latest
    BY <1>1, <1>2, RequestFacts, BuildFacts DEF TagTypeOK, BuildsAreKnown
  <2>3. latest <= t[r].view[t[r].cur]
    BY <1>2, <2>1 DEF SeesLatest, newest
  <2> QED
    BY <2>2, <2>3
<1>9. ASSUME SeesLatest(r), NEW x \in DOMAIN g, g[x] = latest
      PROVE  x \in DOMAIN liveTags(r) /\ liveTags(r)[x] = latest
  BY <1>4, <1>7, <1>9 DEF SeesLatest
<1> QED
  BY <1>2, <1>3, <1>4, <1>6, <1>7, <1>8, <1>9

LEMMA templateSubInv ==
    ASSUME TagInv, NEW r \in Reqs, templateSub(r), UNCHANGED <<rec, pub, latest, pubrun, acked>>
    PROVE  TagInv'
<1>1. RunInv /\ AckedAreHeld /\ t[r].pc = "read" /\ TagTypeOK /\ latest \in Nat
  BY BuildFacts DEF TagInv, RunInv, AckInv, templateSub, Reading, TagTypeOK
<1>2. PICK m : m = IF t[r].view[t[r].cur] = latest /\ rec[t[r].cur].build = latest
                   THEN (t[r].owed \cap acked) \ DOMAIN liveTags(r) ELSE {}
  OBVIOUS
<1>3. m = {}
  <2>1. SUFFICES ASSUME t[r].view[t[r].cur] = latest, rec[t[r].cur].build = latest,
                        NEW x \in acked
                 PROVE  x \in DOMAIN liveTags(r)
    BY <1>2
  <2>2. SeesLatest(r) /\ t[r].cur \in Nodes
    BY <1>1, <2>1, liveTagsFacts DEF SeesLatest
  <2>3. x \in DOMAIN rec[t[r].cur].labels /\ rec[t[r].cur].labels[x] = latest
    BY <1>1, <2>1, <2>2 DEF AckedAreHeld
  <2> QED
    BY <1>1, <2>2, <2>3, liveTagsFacts
<1>4. PICK p \in TPcs, op \in TOps, e \in TagSets : p = "answered" /\ op = "get" /\ e = m
  BY <1>3 DEF TPcs, TOps, TagSets
<1>5. PICK R : R = [NoRequest EXCEPT !.pc = p, !.op = op, !.missed = e]
  OBVIOUS
<1>6. R \in Requests
  BY <1>5, NoRequestType DEF Requests
<1>7. R.pc = p /\ R.op = op /\ R.missed = e /\ R.view = <<>> /\ R.since = 0
  BY <1>5 DEF NoRequest
<1>8. Ended(R) /\ Deleted(R)
  BY <1>1, <1>3, <1>4, <1>7, EmptyIsLabels DEF Ended, Deleted
<1>9. t' = [t EXCEPT ![r] = R]
  BY <1>2, <1>4, <1>5 DEF templateSub
<1> QED
  BY <1>6, <1>8, <1>9, EndAcks

\* Of the first build, everybody under way has found it.
LEMMA FirstIsSeen ==
    ASSUME RunInv, latest = 1, NEW r \in Reqs, t[r].pc \in {"read", "write", "delete"}
    PROVE  SeesLatest(r) /\ \A n \in DOMAIN t[r].view : t[r].view[n] = latest
<1>1. t[r] \in Requests /\ Shaped(t[r]) /\ BuildsAreKnown
  BY DEF RunInv, TagTypeOK, RequestShape
<1>2. \A n \in DOMAIN t[r].view : t[r].view[n] \in Nat /\ t[r].view[n] > 0 /\ t[r].view[n] <= 1
  BY <1>1, RequestFacts, BuildFacts DEF BuildsAreKnown
<1>3. \A n \in DOMAIN t[r].view : t[r].view[n] = 1
  BY <1>2
<1> QED
  BY <1>1, <1>3 DEF Shaped, SeesLatest

\* An assign that nobody raced is acknowledged.
LEMMA AcknowledgeInv ==
    ASSUME TagInv, UNCHANGED <<rec, pub, latest, pubrun>>, NEW r \in Reqs, NEW R \in Requests,
           t' = [t EXCEPT ![r] = R], Ended(R),
           t[r].pc = "write", t[r].todo = {}, t[r].op = "assign", t[r].ok, ~t[r].raced,
           CoversLatest(r), t[r].tags[t[r].tag] = latest, acked' = acked \cup {t[r].tag}
    PROVE  AckInv'
<1>1. /\ RunInv /\ AckInv /\ TagTypeOK /\ Shaped(t[r]) /\ RacesAreKnown /\ AckedAreHeld
      /\ Written(r) /\ Covers(r) /\ AckedAreCarried /\ OwnTagIsOpen
  BY DEF TagInv, RunInv, AckInv, RequestShape, AssignStands
<1>2. Steps({r}) /\ t'[r] = R /\ (\A o \in Reqs \ {r} : t'[o] = t[o])
  BY <1>1, OneSteps DEF TagTypeOK
<1>3. t[r].tag \in DOMAIN t[r].tags /\ SeesLatest(r) /\ Tagging(r) /\ Assigning(r)
  BY <1>1 DEF Shaped, SeesLatest, Tagging, Assigning
<1>4. \A o \in Reqs \ {r} : ~(Running(o) /\ SeesLatest(o))
  BY <1>1, <1>3 DEF RacesAreKnown
<1>5. AckedAreHeld'
  <2>1. ASSUME NEW n \in Nodes, rec[n].build = latest PROVE rec[n].labels = t[r].tags
    BY <1>1, <1>3, <2>1 DEF CoversLatest, Written
  <2> QED
    BY <1>1, <1>3, <2>1 DEF AckedAreHeld
<1>6. ASSUME NEW o \in Reqs
      PROVE  Carries(o)' /\ Opens(o)' /\ (latest = 1 => Respects(o)')
  <2>1. CASE o = r
    BY <1>2, <2>1 DEF Carries, Opens, Respects, Tagging, Ended
  <2>2. CASE o # r
    <3>1. t'[o] = t[o] /\ ~(Running(o) /\ SeesLatest(o)) /\ Shaped(t[o])
      BY <1>1, <1>2, <1>4, <2>2 DEF RunInv, RequestShape
    <3>2. SeesLatest(o)' <=> SeesLatest(o)
      BY <3>1 DEF SeesLatest
    <3>3. Carries(o)' /\ Opens(o)'
      BY <3>1, <3>2 DEF Carries, Opens, Tagging, Running, Shaped
    <3>4. latest = 1 => ~Running(o)
      BY <1>1, <3>1, FirstIsSeen DEF Running
    <3>5. latest = 1 => Respects(o)'
      BY <3>1, <3>4 DEF Respects, Running, Shaped
    <3> QED
      BY <3>3, <3>5
  <2> QED
    BY <2>1, <2>2
<1>7. latest = 1 => \A n \in Nodes : pub[n].build = latest => rec[n].build = latest
  BY <1>1, <1>3 DEF Covers
<1>8. FirstIsHeld'
  BY <1>6, <1>7 DEF FirstIsHeld
<1> QED
  BY <1>5, <1>6, <1>8 DEF AckInv, AckedAreCarried, OwnTagIsOpen

LEMMA forEachHolderInv ==
    ASSUME TagInv, NEW r \in Reqs, forEachHolder(r)
    PROVE  TagInv'
<1>1. /\ RunInv /\ TagTypeOK /\ Shaped(t[r]) /\ Deleted(t[r]) /\ t[r] \in Requests
      /\ t[r].pc \in {"write", "delete"} /\ t[r].todo = {}
      /\ UNCHANGED <<rec, pub, latest, pubrun>>
  BY DEF TagInv, RunInv, TagTypeOK, RequestShape, DeleteStands, forEachHolder
<1>2. CASE ~t[r].ok
  BY <1>1, <1>2, RefuseInv DEF forEachHolder
<1>3. CASE t[r].ok
  <2>1. PICK p \in TPcs, D \in Holders, op \in TOps, s \in Sinces :
           /\ p = "answered" /\ D = (IF t[r].op = "delete" THEN DOMAIN t[r].view ELSE {})
           /\ op = t[r].op /\ s = t[r].since
    <3>1. "answered" \in TPcs
      BY DEF TPcs
    <3>2. DOMAIN t[r].view \in Holders /\ {} \in Holders
      BY <1>1, RequestFacts DEF Holders
    <3>3. t[r].op \in TOps /\ t[r].since \in Sinces
      BY <1>1 DEF Requests
    <3> QED
      BY <3>1, <3>2, <3>3
  <2>2. PICK R : R = [NoRequest EXCEPT !.pc = p, !.op = op, !.todo = D, !.since = s]
    OBVIOUS
  <2>3. R \in Requests
    BY <2>2, NoRequestType DEF Requests
  <2>4. R.pc = p /\ R.op = op /\ R.todo = D /\ R.since = s /\ R.view = <<>> /\ R.missed = {}
    BY <2>2 DEF NoRequest
  <2>5. Ended(R)
    BY <1>1, <2>1, <2>4, EmptyIsLabels DEF Ended, Shaped
  <2>6. Deleted(R)
    <3>1. op = "delete" => t[r].pc = "delete" /\ D = DOMAIN t[r].view \ t[r].todo
      BY <1>1, <2>1 DEF Shaped
    <3> QED
      BY <1>1, <1>3, <2>1, <2>4, <3>1 DEF Deleted
  <2>7. t' = [t EXCEPT ![r] = R]
    BY <1>3, <2>1, <2>2 DEF forEachHolder
  <2>8. CASE acked' = acked
    BY <1>1, <2>3, <2>5, <2>6, <2>7, <2>8, EndAcks
  <2>9. CASE /\ t[r].op = "assign" /\ ~t[r].raced /\ CoversLatest(r)
             /\ t[r].tags[t[r].tag] = latest /\ acked' = acked \cup {t[r].tag}
    <3>1. t[r].pc = "write" /\ t[r].tag \in Tags
      BY <1>1, <2>9 DEF Shaped
    <3>2. acked' \subseteq Tags
      BY <1>1, <2>9, <3>1 DEF TagTypeOK
    <3>3. RunInv'
      BY <1>1, <2>3, <2>5, <2>6, <2>7, <3>2, EndRuns
    <3>4. AckInv'
      BY <1>1, <1>3, <2>3, <2>5, <2>7, <2>9, <3>1, AcknowledgeInv
    <3> QED
      BY <3>3, <3>4 DEF TagInv
  <2> QED
    BY <2>8, <2>9 DEF forEachHolder
<1> QED
  BY <1>2, <1>3

-----------------------------------------------------------------------------
(* A tag request has read the tags and goes on to write its map.           *)

\* It has read every acknowledged tag.
LEMMA AckedAreRead ==
    ASSUME TagInv, NEW r \in Reqs, t[r].pc = "read", t[r].op # "get", SeesLatest(r), HasHolder,
           NEW x \in acked
    PROVE  x # t[r].tag /\ x \in DOMAIN liveTags(r) /\ liveTags(r)[x] = latest
<1>1. RunInv /\ AckedAreHeld /\ Opens(r) /\ FirstIsHeld /\ BuildsAreKnown /\ latest \in Builds
  BY DEF TagInv, RunInv, AckInv, OwnTagIsOpen, TagTypeOK
<1>2. t[r].cur \in Nodes /\ t[r].cur \in DOMAIN t[r].view /\ t[r].view[t[r].cur] = latest
  BY <1>1, liveTagsFacts
<1>3. rec[t[r].cur].build = latest
  <2>1. CASE latest = 1
    BY <1>1, <2>1 DEF FirstIsHeld, Respects
  <2>2. CASE latest > 1
    <3>1. PICK m \in Nodes : rec[m].build = latest
      BY DEF HasHolder
    <3>2. Marked(m) /\ Marked(t[r].cur)
      BY <1>2, <3>1 DEF Marked
    <3> QED
      BY <1>1, <1>2, <2>2, <3>1, <3>2 DEF BuildsAreKnown
  <2> QED
    BY <1>1, <2>1, <2>2, BuildFacts
<1>4. x \in DOMAIN rec[t[r].cur].labels /\ rec[t[r].cur].labels[x] = latest
  BY <1>1, <1>2, <1>3 DEF AckedAreHeld
<1>5. x \in DOMAIN liveTags(r) /\ liveTags(r)[x] = latest
  BY <1>1, <1>4, liveTagsFacts
<1>6. x # t[r].tag
  BY <1>1 DEF Opens, Tagging
<1> QED
  BY <1>5, <1>6

LEMMA GoesToWrite ==
    ASSUME TagInv, UNCHANGED <<rec, pub, latest, pubrun, acked>>,
           NEW r \in Reqs, t[r].pc = "read", t[r].op \in {"assign", "untag"}, NEW g \in Labels,
           \A x \in DOMAIN g : \E n \in DOMAIN t[r].view : t[r].view[n] = g[x],
           t[r].op = "assign" => t[r].tag \in DOMAIN g,
           \A x \in DOMAIN liveTags(r) \ {t[r].tag} : x \in DOMAIN g /\ g[x] = liveTags(r)[x],
           t' = [t EXCEPT ![r].pc = "write", ![r].cur = "none", ![r].todo = DOMAIN t[r].view,
                          ![r].tags = g]
    PROVE  TagInv'
<1>1. /\ TagTypeOK /\ RequestShape /\ BuildsAreKnown /\ PublishShape /\ RacesAreKnown
      /\ AssignStands /\ DeleteStands /\ RunInv /\ AckInv
  BY DEF TagInv, RunInv
<1>2. PICK Q \in Requests : Q = t[r]
  BY <1>1 DEF TagTypeOK
<1>3. PICK p \in TPcs, c \in Curs, D \in Holders : p = "write" /\ c = "none" /\ D = DOMAIN Q.view
  BY RequestFacts DEF TPcs, Curs, Holders
<1>4. PICK R : R = [Q EXCEPT !.pc = p, !.cur = c, !.todo = D, !.tags = g]
  OBVIOUS
<1>5. R \in Requests
  BY <1>4 DEF Requests
<1>6. /\ R.pc = p /\ R.todo = D /\ R.tags = g
      /\ R.op = Q.op /\ R.tag = Q.tag /\ R.view = Q.view /\ R.ok = Q.ok /\ R.since = Q.since
      /\ R.raced = Q.raced /\ R.missed = Q.missed
  BY <1>4 DEF Requests
<1>7. t' = [t EXCEPT ![r] = R]
  BY <1>1, <1>2, <1>3, <1>4 DEF TagTypeOK
<1>8. Steps({r}) /\ t'[r] = R /\ (\A o \in Reqs \ {r} : t'[o] = t[o]) /\ {r} \in SUBSET Reqs
  BY <1>1, <1>5, <1>7, OneSteps DEF TagTypeOK
<1>9. /\ t'[r].pc = "write" /\ t'[r].todo = DOMAIN t[r].view /\ t'[r].tags = g
      /\ t'[r].op = t[r].op /\ t'[r].tag = t[r].tag /\ t'[r].view = t[r].view
      /\ t'[r].ok = t[r].ok /\ t'[r].since = t[r].since /\ t'[r].missed = t[r].missed
      /\ t'[r].raced = t[r].raced
  BY <1>2, <1>3, <1>6, <1>8
<1>10. SeesLatest(r)' <=> SeesLatest(r)
  BY <1>9 DEF SeesLatest
<1>11. TagTypeOK'
  BY <1>1, <1>8 DEF TagTypeOK, Steps
<1>12. RequestShape'
  <2>1. DOMAIN t[r].view # {} /\ t[r].tag \in Tags /\ t[r].missed = {} /\ t[r].since <= latest
    BY <1>1 DEF RequestShape, Shaped
  <2>2. /\ \A x \in DOMAIN R.tags : \E n \in DOMAIN R.view : R.view[n] = R.tags[x]
        /\ R.op = "assign" => R.tag \in DOMAIN R.tags
    BY <1>2, <1>6
  <2>3. /\ R.pc = "write" /\ DOMAIN R.view # {} /\ R.op \in {"assign", "untag"} /\ R.tag \in Tags
        /\ R.missed = {} /\ R.since <= latest /\ R.todo = DOMAIN R.view
    BY <1>2, <1>3, <1>6, <2>1
  <2>4. Shaped(R)'
    BY <2>2, <2>3 DEF Shaped
  <2>5. Shaped(t[r])'
    BY <1>8, <2>4, ShapedAs
  <2> QED
    BY <1>1, <1>8, <2>5, ShapesStay
<1>13. BuildsAreKnown'
  <2>1. \A o \in Reqs : t'[o].view = t[o].view
    BY <1>8, <1>9
  <2> QED
    BY <1>1, <2>1, BuildsStay
<1>14. RacesAreKnown'
  <2>1. Tagging(r) /\ Running(r)
    BY DEF Tagging, Running
  <2> QED
    BY <1>1, <1>8, <1>9, <1>10, <2>1, RacesStay
<1>15. AssignStands'
  <2>1. Written(r)'
    BY <1>9 DEF Written
  <2>2. Covers(r) /\ (Assigning(r)' => Assigning(r))
    BY <1>1, <1>9 DEF AssignStands, Assigning
  <2>3. Covers(r)'
    BY <1>9, <2>2 DEF Covers
  <2> QED
    BY <1>1, <1>8, <2>1, <2>3, AssignsStand
<1>16. DeleteStands'
  <2>1. Deleted(t[r])'
    BY <1>9 DEF Deleted
  <2> QED
    BY <1>1, <1>8, <2>1, DeletesStand
<1>17. AckInv'
  <2>1. HasHolder' <=> HasHolder
    BY DEF HasHolder
  <2>2. Carries(r)'
    <3>1. SUFFICES ASSUME SeesLatest(r), HasHolder, NEW x \in acked
                   PROVE  x \in DOMAIN g /\ g[x] = latest
      BY <1>9, <1>10, <2>1 DEF Carries
    <3>2. x # t[r].tag /\ x \in DOMAIN liveTags(r) /\ liveTags(r)[x] = latest
      BY <3>1, AckedAreRead
    <3> QED
      BY <3>2
  <2>3. Opens(r)'
    BY <1>1, <1>9, <1>10 DEF Opens, Tagging, AckInv, OwnTagIsOpen
  <2>4. Respects(r)'
    BY <1>9 DEF Respects
  <2>5. latest = 1 /\ acked # {} => \A n \in Nodes : pub[n].build = latest => rec[n].build = latest
    BY <1>1 DEF AckInv, FirstIsHeld
  <2> QED
    BY <1>1, <1>8, <2>2, <2>3, <2>4, <2>5, AcksStay
<1>18. PublishShape'
  BY <1>1 DEF PublishShape
<1> QED
  BY <1>11, <1>12, <1>13, <1>14, <1>15, <1>16, <1>17, <1>18 DEF TagInv, RunInv

LEMMA assignTemplateTagsInv ==
    ASSUME TagInv, NEW r \in Reqs, assignTemplateTags(r),
           UNCHANGED <<rec, pub, latest, pubrun, acked>>
    PROVE  TagInv'
<1>1. RunInv /\ t[r].pc = "read" /\ t[r].op = "assign" /\ t[r] \in Requests /\ t[r].tag \in Tags
  BY DEF TagInv, RunInv, assignTemplateTags, Reading, RequestShape, Shaped, TagTypeOK
<1>2. /\ t[r].cur \in DOMAIN t[r].view
      /\ \A x \in DOMAIN liveTags(r) : \E n \in DOMAIN t[r].view : t[r].view[n] = liveTags(r)[x]
  BY <1>1, liveTagsFacts
<1>3. PICK l \in Labels : l = liveTags(r)
  BY <1>1, liveTagsFacts
<1>4. PICK d \in {t[r].view[t[r].cur]} \cup {l[x] : x \in DOMAIN l} :
         t' = [t EXCEPT ![r].pc = "write", ![r].cur = "none", ![r].todo = DOMAIN t[r].view,
                        ![r].tags = Pointing(l, t[r].tag, d)]
  BY <1>3 DEF assignTemplateTags
<1>5. \E n \in DOMAIN t[r].view : t[r].view[n] = d
  BY <1>2, <1>3
<1>6. d \in Builds
  BY <1>1, <1>5, RequestFacts
<1>7. PICK g \in Labels : g = Pointing(l, t[r].tag, d)
  BY <1>1, <1>6, LabelFacts
<1>8. /\ DOMAIN g = DOMAIN l \cup {t[r].tag} /\ g[t[r].tag] = d
      /\ \A x \in DOMAIN l \ {t[r].tag} : g[x] = l[x]
  BY <1>7 DEF Pointing
<1>9. \A x \in DOMAIN g : \E n \in DOMAIN t[r].view : t[r].view[n] = g[x]
  BY <1>2, <1>3, <1>5, <1>8
<1>10. t' = [t EXCEPT ![r].pc = "write", ![r].cur = "none", ![r].todo = DOMAIN t[r].view,
                      ![r].tags = g]
  BY <1>4, <1>7
<1>11. /\ t[r].tag \in DOMAIN g
       /\ \A x \in DOMAIN liveTags(r) \ {t[r].tag} : x \in DOMAIN g /\ g[x] = liveTags(r)[x]
  BY <1>3, <1>8
<1> QED
  BY <1>1, <1>9, <1>10, <1>11, GoesToWrite

LEMMA deleteTemplateTagsInv ==
    ASSUME TagInv, NEW r \in Reqs, deleteTemplateTags(r),
           UNCHANGED <<rec, pub, latest, pubrun, acked>>
    PROVE  TagInv'
<1>1. RunInv /\ t[r].pc = "read" /\ t[r].op = "untag"
  BY DEF TagInv, deleteTemplateTags, Reading
<1>2. \A x \in DOMAIN liveTags(r) : \E n \in DOMAIN t[r].view : t[r].view[n] = liveTags(r)[x]
  BY <1>1, liveTagsFacts
<1>3. PICK l \in Labels : l = liveTags(r)
  BY <1>1, liveTagsFacts
<1>4. PICK g \in Labels : g = Only(l, DOMAIN l \ {t[r].tag})
  BY LabelFacts
<1>5. DOMAIN g = DOMAIN l \ {t[r].tag} /\ \A x \in DOMAIN g : g[x] = l[x]
  BY <1>4 DEF Only
<1>6. t' = [t EXCEPT ![r].pc = "write", ![r].cur = "none", ![r].todo = DOMAIN t[r].view,
                     ![r].tags = g]
  BY <1>3, <1>4 DEF deleteTemplateTags
<1>7. /\ \A x \in DOMAIN g : \E n \in DOMAIN t[r].view : t[r].view[n] = g[x]
      /\ \A x \in DOMAIN liveTags(r) \ {t[r].tag} : x \in DOMAIN g /\ g[x] = liveTags(r)[x]
  BY <1>2, <1>3, <1>5
<1> QED
  BY <1>1, <1>6, <1>7, GoesToWrite

LEMMA ReadTagsInv ==
    ASSUME TagInv, NEW r \in Reqs, ReadTags(r)
    PROVE  TagInv'
<1>1. UNCHANGED <<rec, pub, latest, pubrun, acked>>
  BY DEF ReadTags
<1> QED
  BY <1>1, templateSubInv, assignTemplateTagsInv, deleteTemplateTagsInv, RefuseInv DEF ReadTags

-----------------------------------------------------------------------------
(* A request begins with the holders the inventory lists.                  *)

LEMMA builtTemplatesFacts ==
    ASSUME TagTypeOK
    PROVE  /\ builtTemplates \in Views
           /\ DOMAIN builtTemplates = {n \in Nodes : pub[n].build \in Builds}
           /\ \A n \in DOMAIN builtTemplates : builtTemplates[n] = pub[n].build
           /\ builtTemplates # <<>> => DOMAIN builtTemplates # {}
<1>1. PICK H \in SUBSET Nodes : H = {n \in Nodes : pub[n].build \in Builds}
  OBVIOUS
<1>2. builtTemplates \in [H -> Builds] /\ \A n \in H : builtTemplates[n] = pub[n].build
  BY <1>1 DEF builtTemplates
<1>3. builtTemplates \in Views
  BY <1>2 DEF Views
<1>4. DOMAIN builtTemplates = {} => builtTemplates = <<>>
  BY DEF builtTemplates
<1> QED
  BY <1>1, <1>2, <1>3, <1>4

\* What a request that begins with these holders is, S the ones it races.
Begins(R, S) ==
    /\ R.view = builtTemplates /\ DOMAIN R.view # {} /\ R.missed = {} /\ R.since <= latest
    /\ \/ /\ R.pc = "read" /\ R.cur \in newest(R.view)
          /\ R.op \in {"assign", "untag", "get"}
          /\ R.op # "get" => R.tag \in Tags /\ (S # {} => R.raced)
       \/ R.pc = "delete" /\ R.op = "delete" /\ R.todo = DOMAIN R.view
    /\ R.op # "get" => S = Writing(Found)

LEMMA StartInv ==
    ASSUME TagInv, UNCHANGED <<rec, pub, latest, pubrun>>, acked' \subseteq acked,
           NEW r \in Reqs, NEW R \in Requests, NEW S,
           t' = [MarkRaced(t, S) EXCEPT ![r] = R], Begins(R, S),
           R.pc = "read" => R.tag \notin acked',
           R.pc = "delete" => acked' = {}
    PROVE  TagInv'
<1>1. /\ TagTypeOK /\ RequestShape /\ BuildsAreKnown /\ PublishShape /\ RacesAreKnown
      /\ AssignStands /\ DeleteStands /\ RunInv /\ AckInv /\ latest \in Nat
  BY BuildFacts DEF TagInv, RunInv, TagTypeOK
<1>2. /\ Steps({r}) /\ t'[r] = R /\ (\A o \in Reqs \ {r} : o \in S => t'[o].raced)
      /\ {r} \in SUBSET Reqs
  BY <1>1, MarkedOneSteps DEF TagTypeOK
<1>3. /\ DOMAIN R.view = {n \in Nodes : pub[n].build \in Builds}
      /\ \A n \in DOMAIN R.view : R.view[n] = pub[n].build
  BY <1>1, builtTemplatesFacts DEF Begins
<1>4. TagTypeOK'
  BY <1>1, <1>2 DEF TagTypeOK, Steps
<1>5. RequestShape'
  <2>1. Shaped(R)'
    BY DEF Begins, Shaped
  <2> QED
    BY <1>1, <1>2, <2>1, ShapesStay, ShapedAs
<1>6. BuildsAreKnown'
  <2>1. ASSUME NEW o \in Reqs, NEW n \in DOMAIN t'[o].view
        PROVE  \/ n \in DOMAIN t[o].view /\ t'[o].view[n] = t[o].view[n]
               \/ n \in Nodes /\ t'[o].view[n] = pub[n].build
    BY <1>2, <1>3 DEF Steps, Keeps
  <2> QED
    BY <1>1, <2>1, BuildsStay
<1>7. RacesAreKnown'
  <2>1. SUFFICES ASSUME NEW a \in Reqs, NEW b \in Reqs, a # b, Tagging(a)', Running(b)',
                        SeesLatest(a)', SeesLatest(b)'
                 PROVE  t'[a].raced
    BY DEF RacesAreKnown
  <2>2. SeesLatest(r)' => latest \in Found
    BY <1>2 DEF SeesLatest, Found, Begins
  <2>3. ASSUME NEW o \in Reqs \ {r}, Running(o)', SeesLatest(o)', latest \in Found
        PROVE  o \in Writing(Found)
    <3>1. Running(o) /\ SeesLatest(o)
      BY <1>2, <2>3, Bystander DEF Steps
    <3> QED
      BY <2>3, <3>1 DEF Running, SeesLatest, Writing
  <2>4. CASE a = r
    <3>1. R.pc = "read" /\ R.op # "get"
      BY <1>2, <2>1, <2>4 DEF Tagging, Begins
    <3>2. b \in S
      BY <2>1, <2>2, <2>3, <2>4, <3>1 DEF Begins
    <3>3. R.raced
      BY <3>1, <3>2 DEF Begins
    <3> QED
      BY <1>2, <2>4, <3>3
  <2>5. CASE b = r
    <3>1. R.op # "get"
      BY <1>2, <2>1, <2>5 DEF Running
    <3>2. Running(a)'
      BY <2>1 DEF Tagging, Running
    <3>3. a \in S
      BY <2>1, <2>2, <2>3, <2>5, <3>1, <3>2 DEF Begins
    <3> QED
      BY <1>2, <2>1, <2>5, <3>3
  <2>6. CASE a # r /\ b # r
    <3>1. Keeps(a) /\ Keeps(b)
      BY <1>2, <2>6 DEF Steps
    <3>2. Tagging(a) /\ Running(b) /\ SeesLatest(a) /\ SeesLatest(b)
      BY <2>1, <3>1, Bystander
    <3> QED
      BY <1>1, <2>1, <3>1, <3>2 DEF RacesAreKnown, Keeps
  <2> QED
    BY <2>4, <2>5, <2>6
<1>8. AssignStands'
  <2>1. Written(r)'
    BY <1>2 DEF Written, Assigning, Begins
  <2>2. Covers(r)'
    <3>1. ASSUME NEW n \in Nodes, pub[n].build = latest PROVE n \in DOMAIN R.view
      BY <1>1, <1>3, <3>1 DEF TagTypeOK
    <3> QED
      BY <1>2, <3>1 DEF Covers, Assigning, Begins
  <2> QED
    BY <1>1, <1>2, <2>1, <2>2, AssignsStand
<1>9. DeleteStands'
  <2>1. Deleted(t[r])'
    BY <1>2 DEF Deleted, Begins
  <2> QED
    BY <1>1, <1>2, <2>1, DeletesStand
<1>10. AckInv'
  <2>1. Carries(r)'
    BY <1>2 DEF Carries, Begins
  <2>2. Opens(r)'
    BY <1>2 DEF Opens, Tagging, Begins
  <2>3. latest = 1 /\ acked # {} => \A n \in Nodes : pub[n].build = latest => rec[n].build = latest
    BY <1>1 DEF AckInv, FirstIsHeld
  <2>4. ASSUME latest = 1, acked' # {} PROVE Respects(r)'
    <3>1. R.pc = "read" /\ R.cur \in Nodes /\ pub[R.cur].build \in Builds /\ acked # {}
      BY <1>3, <2>4 DEF Begins, newest
    <3>2. pub[R.cur].build \in Nat /\ pub[R.cur].build > 0 /\ pub[R.cur].build <= latest
      BY <1>1, <3>1, BuildFacts DEF BuildsAreKnown
    <3>3. pub[R.cur].build = latest
      BY <2>4, <3>2
    <3> QED
      BY <1>2, <2>3, <2>4, <3>1, <3>3 DEF Respects
  <2> QED
    BY <1>1, <1>2, <2>1, <2>2, <2>3, <2>4, AcksStay
<1>11. PublishShape'
  BY <1>1 DEF PublishShape
<1> QED
  BY <1>4, <1>5, <1>6, <1>7, <1>8, <1>9, <1>10, <1>11 DEF TagInv, RunInv

LEMMA BeginInv ==
    ASSUME TagInv, NEW r \in Reqs, NEW op \in {"assign", "untag", "get"}, NEW tag \in TagNames,
           op # "get" => tag \in Tags, Begin(r, op, tag)
    PROVE  TagInv'
<1>1. TagTypeOK /\ UNCHANGED <<rec, pub, latest, pubrun>> /\ latest \in Nat
  BY BuildFacts DEF TagInv, RunInv, TagTypeOK, Begin
<1>2. CASE Refuse(r) /\ UNCHANGED acked
  BY <1>1, <1>2, RefuseInv
<1>3. CASE ~(Refuse(r) /\ UNCHANGED acked)
  <2>1. PICK S : S = IF op = "get" THEN {} ELSE Writing(Found)
    OBVIOUS
  <2>2. PICK n \in newest(builtTemplates) :
           t' = [MarkRaced(t, S) EXCEPT ![r] =
                   [NoRequest EXCEPT !.pc = "read", !.op = op, !.tag = tag,
                       !.view = builtTemplates, !.cur = n, !.raced = S # {},
                       !.owed = IF op = "get" THEN acked ELSE {}]]
    BY <1>3, <2>1 DEF Begin
  <2>3. builtTemplates # <<>> /\ acked' = acked \ {tag}
    BY <1>3 DEF Begin
  <2>4. PICK v \in Views, p \in TPcs, o \in TOps, c \in Curs, e \in TagSets :
           /\ v = builtTemplates /\ p = "read" /\ o = op /\ c = n
           /\ e = IF op = "get" THEN acked ELSE {}
    <3>1. builtTemplates \in Views /\ n \in Nodes
      BY <1>1, builtTemplatesFacts DEF newest
    <3>2. "read" \in TPcs /\ op \in TOps /\ n \in Curs
      BY <3>1 DEF TPcs, TOps, Curs
    <3>3. acked \in TagSets /\ {} \in TagSets
      BY <1>1 DEF TagSets, TagTypeOK
    <3> QED
      BY <3>1, <3>2, <3>3
  <2>5. PICK f \in Flags : f <=> (S # {})
    BY DEF Flags
  <2>6. f = (S # {})
    BY <2>5 DEF Flags
  <2>7. PICK R : R = [NoRequest EXCEPT !.pc = p, !.op = o, !.tag = tag, !.view = v, !.cur = c,
                                       !.raced = f, !.owed = e]
    OBVIOUS
  <2>8. R \in Requests
    BY <2>7, NoRequestType DEF Requests
  <2>9. /\ R.pc = p /\ R.op = o /\ R.tag = tag /\ R.view = v /\ R.cur = c
        /\ R.missed = {} /\ R.since = 0 /\ R.raced = f
    BY <2>7 DEF NoRequest
  <2>10. t' = [MarkRaced(t, S) EXCEPT ![r] = R]
    BY <2>2, <2>4, <2>6, <2>7
  <2>11. Begins(R, S)
    <3>1. S # {} => R.raced
      BY <2>5, <2>9
    <3>2. DOMAIN R.view # {} /\ R.view = builtTemplates
      BY <1>1, <2>3, <2>4, <2>9, builtTemplatesFacts
    <3> QED
      BY <1>1, <2>1, <2>4, <2>9, <3>1, <3>2 DEF Begins
  <2> QED
    BY <1>1, <2>3, <2>4, <2>8, <2>9, <2>10, <2>11, StartInv
<1> QED
  BY <1>2, <1>3

LEMMA deleteTemplateInv ==
    ASSUME TagInv, NEW r \in Reqs, deleteTemplate(r)
    PROVE  TagInv'
<1>1. TagTypeOK /\ UNCHANGED <<rec, pub, latest, pubrun>> /\ latest \in Nat
  BY BuildFacts DEF TagInv, RunInv, TagTypeOK, deleteTemplate
<1>2. CASE Refuse(r) /\ UNCHANGED acked
  BY <1>1, <1>2, RefuseInv
<1>3. CASE UNCHANGED <<t, acked>>
  BY <1>1, <1>3, TagRests DEF templateVars
<1>4. CASE /\ builtTemplates # <<>> /\ acked' = {}
           /\ t' = [MarkRaced(t, Writing(Found)) EXCEPT ![r] =
                      [NoRequest EXCEPT !.pc = "delete", !.op = "delete", !.since = latest,
                          !.view = builtTemplates, !.todo = DOMAIN builtTemplates]]
  <2>1. PICK v \in Views, p \in TPcs, o \in TOps, D \in Holders, s \in Sinces :
           /\ v = builtTemplates /\ p = "delete" /\ o = "delete" /\ D = DOMAIN builtTemplates
           /\ s = latest
    <3>1. builtTemplates \in Views /\ DOMAIN builtTemplates \in Holders
      BY <1>1, builtTemplatesFacts DEF Holders
    <3>2. "delete" \in TPcs /\ "delete" \in TOps
      BY DEF TPcs, TOps
    <3>3. latest \in Sinces
      BY <1>1, MaxBuildsAssumption DEF TagTypeOK, Builds, Sinces
    <3> QED
      BY <3>1, <3>2, <3>3
  <2>2. PICK R : R = [NoRequest EXCEPT !.pc = p, !.op = o, !.since = s, !.view = v, !.todo = D]
    OBVIOUS
  <2>3. R \in Requests
    BY <2>2, NoRequestType DEF Requests
  <2>4. R.pc = p /\ R.op = o /\ R.since = s /\ R.view = v /\ R.todo = D /\ R.missed = {}
    BY <2>2 DEF NoRequest
  <2>5. PICK S : S = Writing(Found)
    OBVIOUS
  <2>6. t' = [MarkRaced(t, S) EXCEPT ![r] = R]
    BY <1>4, <2>1, <2>2, <2>5
  <2>7. Begins(R, S)
    <3>1. DOMAIN R.view # {} /\ R.view = builtTemplates /\ R.since <= latest
      BY <1>1, <1>4, <2>1, <2>4, builtTemplatesFacts
    <3> QED
      BY <2>1, <2>4, <2>5, <3>1 DEF Begins
  <2> QED
    BY <1>1, <1>4, <2>1, <2>3, <2>4, <2>6, <2>7, StartInv
<1> QED
  BY <1>2, <1>3, <1>4 DEF deleteTemplate

-----------------------------------------------------------------------------
(* A request calls one of its holders.                                     *)

\* A node takes a label map for a build it holds, or its record goes.
LEMMA LabelsSet ==
    ASSUME TagTypeOK, NEW n \in Nodes, NEW build \in Builds, NEW g \in Labels,
           SetTemplateLabels(n, build, g)
    PROVE  /\ rec' \in [Nodes -> Record] /\ rec[n].build = build
           /\ rec'[n].build = rec[n].build /\ rec'[n].labels = g
           /\ \A m \in Nodes \ {n} : rec'[m] = rec[m]
<1>1. rec[n].build = build /\ rec' = [rec EXCEPT ![n].labels = g]
  BY DEF SetTemplateLabels
<1>2. rec[n] \in [build : Builds, labels : Labels] /\ rec \in [Nodes -> Record]
  BY <1>1, BuildFacts DEF TagTypeOK, Record, NoRecord
<1>3. PICK B : B = [build : Builds, labels : Labels]
  OBVIOUS
<1>4. PICK Q \in B : Q = rec[n]
  BY <1>2, <1>3
<1>5. PICK R : R = [Q EXCEPT !.labels = g]
  OBVIOUS
<1>6. R \in B /\ R.build = Q.build /\ R.labels = g
  BY <1>3, <1>4, <1>5
<1>7. rec' = [rec EXCEPT ![n] = R]
  BY <1>1, <1>2, <1>4, <1>5
<1>8. R \in Record
  BY <1>3, <1>6 DEF Record
<1> QED
  BY <1>1, <1>2, <1>4, <1>6, <1>7, <1>8

LEMMA RecordCleared ==
    ASSUME TagTypeOK, NEW n \in Nodes, rec' = [rec EXCEPT ![n] = NoRecord]
    PROVE  /\ rec' \in [Nodes -> Record] /\ rec'[n].build = 0
           /\ \A m \in Nodes \ {n} : rec'[m] = rec[m]
BY DEF TagTypeOK, Record, NoRecord

LEMMA HolderCalled ==
    ASSUME TagTypeOK, NEW r \in Reqs, NEW n, NEW b \in BOOLEAN,
           t' = [t EXCEPT ![r].todo = @ \ {n}, ![r].ok = @ /\ b]
    PROVE  /\ Steps({r})
           /\ t'[r].todo = t[r].todo \ {n} /\ t'[r].ok = (t[r].ok /\ b)
           /\ t'[r].pc = t[r].pc /\ t'[r].op = t[r].op /\ t'[r].tag = t[r].tag
           /\ t'[r].view = t[r].view /\ t'[r].tags = t[r].tags /\ t'[r].raced = t[r].raced
           /\ t'[r].since = t[r].since /\ t'[r].missed = t[r].missed /\ t'[r].cur = t[r].cur
<1>1. PICK Q \in Requests : Q = t[r]
  BY DEF TagTypeOK
<1>2. PICK D \in Holders, k \in Flags : D = Q.todo \ {n} /\ k = (Q.ok /\ b)
  <2>1. Q.todo \ {n} \in Holders
    BY RequestFacts DEF Holders
  <2>2. (Q.ok /\ b) \in Flags
    BY DEF Flags
  <2> QED
    BY <2>1, <2>2
<1>3. PICK R : R = [Q EXCEPT !.todo = D, !.ok = k]
  OBVIOUS
<1>4. R \in Requests
  BY <1>3 DEF Requests
<1>5. /\ R.todo = D /\ R.ok = k /\ R.pc = Q.pc /\ R.op = Q.op /\ R.tag = Q.tag
      /\ R.view = Q.view /\ R.tags = Q.tags /\ R.raced = Q.raced /\ R.since = Q.since
      /\ R.missed = Q.missed /\ R.cur = Q.cur
  BY <1>3 DEF Requests
<1>6. t' = [t EXCEPT ![r] = R]
  BY <1>1, <1>2, <1>3 DEF TagTypeOK
<1>7. Steps({r}) /\ t'[r] = R
  BY <1>4, <1>6, OneSteps DEF TagTypeOK
<1> QED
  BY <1>1, <1>2, <1>5, <1>7

\* What does not depend on the call.
LEMMA CallRuns ==
    ASSUME RunInv, UNCHANGED <<pub, latest, pubrun, acked>>, rec' \in [Nodes -> Record],
           \A m \in Nodes : rec'[m].build = rec[m].build \/ rec'[m].build = 0,
           NEW r \in Reqs, t[r].pc \in {"write", "delete"}, Steps({r}),
           t'[r].todo \subseteq t[r].todo,
           t'[r].pc = t[r].pc, t'[r].op = t[r].op, t'[r].tag = t[r].tag,
           t'[r].view = t[r].view, t'[r].tags = t[r].tags, t'[r].raced = t[r].raced,
           t'[r].since = t[r].since, t'[r].missed = t[r].missed,
           AssignStands', DeleteStands'
    PROVE  RunInv'
<1>1. /\ TagTypeOK /\ RequestShape /\ BuildsAreKnown /\ PublishShape /\ RacesAreKnown
      /\ {r} \in SUBSET Reqs /\ Shaped(t[r])
  BY DEF RunInv, RequestShape
<1>2. TagTypeOK'
  BY <1>1 DEF TagTypeOK, Steps
<1>3. RequestShape'
  <2>1. Shaped(t[r])'
    BY <1>1 DEF Shaped
  <2> QED
    BY <1>1, <2>1, ShapesStay
<1>4. BuildsAreKnown'
  <2>1. \A o \in Reqs : t'[o].view = t[o].view
    BY DEF Steps, Keeps
  <2> QED
    BY <1>1, <2>1, BuildsStay
<1>5. RacesAreKnown'
  <2>1. /\ SeesLatest(r)' <=> SeesLatest(r)
        /\ Running(r)' <=> Running(r)
        /\ Tagging(r)' <=> Tagging(r)
    BY DEF SeesLatest, Running, Tagging
  <2> QED
    BY <1>1, <2>1, RacesStay
<1>6. PublishShape'
  BY <1>1 DEF PublishShape
<1> QED
  BY <1>2, <1>3, <1>4, <1>5, <1>6 DEF RunInv

\* The node took the map, or the write failed.
Took(r, n, b) ==
    \/ /\ rec[n].build = t[r].view[n]
       /\ rec'[n].build = rec[n].build /\ rec'[n].labels = t[r].tags
       /\ \A m \in Nodes \ {n} : rec'[m] = rec[m]
    \/ ~b /\ rec' = rec

LEMMA WrittenStands ==
    ASSUME RunInv, UNCHANGED <<pub, latest>>,
           NEW r \in Reqs, t[r].pc = "write", NEW n \in t[r].todo, NEW b \in BOOLEAN,
           Steps({r}), Took(r, n, b),
           t'[r].todo = t[r].todo \ {n}, t'[r].ok = (t[r].ok /\ b),
           t'[r].pc = t[r].pc, t'[r].op = t[r].op,
           t'[r].view = t[r].view, t'[r].tags = t[r].tags, t'[r].raced = t[r].raced
    PROVE  AssignStands'
<1>1. /\ TagTypeOK /\ RacesAreKnown /\ AssignStands /\ Written(r) /\ Covers(r)
      /\ {r} \in SUBSET Reqs /\ Shaped(t[r]) /\ t[r] \in Requests
  BY DEF RunInv, AssignStands, RequestShape, TagTypeOK
<1>2. n \in Nodes /\ n \in DOMAIN t[r].view /\ DOMAIN t[r].view \subseteq Nodes /\ Running(r)
  BY <1>1, RequestFacts DEF Shaped, Running
<1>3. \A m \in Nodes : rec'[m].build = rec[m].build
  BY <1>2 DEF Took
<1>4. ASSUME NEW o \in Reqs \ {r}, Assigning(o), ~t'[o].raced, SeesLatest(o),
             NEW m \in DOMAIN t[o].view, rec'[m].build = latest
      PROVE  rec[m].build = latest /\ rec'[m].labels = rec[m].labels
  <2>1. t[o] \in Requests
    BY <1>1 DEF TagTypeOK
  <2>2. m \in Nodes
    BY <2>1, RequestFacts
  <2>3. rec[m].build = latest
    BY <1>3, <1>4, <2>2
  <2>4. CASE m # n
    BY <2>2, <2>3, <2>4 DEF Took
  <2>5. CASE m = n /\ rec[n].build = t[r].view[n]
    <3>1. SeesLatest(r)
      BY <1>2, <2>3, <2>5 DEF SeesLatest
    <3>2. Tagging(o) /\ ~t[o].raced
      BY <1>4 DEF Tagging, Assigning
    <3> QED
      BY <1>1, <1>2, <1>4, <3>1, <3>2 DEF RacesAreKnown
  <2>6. CASE rec' = rec
    BY <2>3, <2>6
  <2> QED
    BY <2>4, <2>5, <2>6 DEF Took
<1>5. SeesLatest(r)' <=> SeesLatest(r)
  BY DEF SeesLatest
<1>6. Assigning(r)' => Assigning(r) /\ b
  BY DEF Assigning
<1>7. Written(r)'
  <2>1. SUFFICES ASSUME Assigning(r), b, SeesLatest(r), NEW m \in DOMAIN t[r].view,
                        m \notin t[r].todo \ {n}, rec'[m].build = latest
                 PROVE  rec'[m].labels = t[r].tags
    BY <1>5, <1>6 DEF Written
  <2>2. CASE m = n
    BY <2>1, <2>2 DEF Took
  <2>3. CASE m # n
    <3>1. rec'[m] = rec[m] /\ m \notin t[r].todo
      BY <1>2, <2>1, <2>3 DEF Took
    <3> QED
      BY <1>1, <2>1, <3>1 DEF Written
  <2> QED
    BY <2>2, <2>3
<1>8. Covers(r)'
  <2>1. SUFFICES ASSUME Assigning(r), b, latest = 1, NEW m \in Nodes, pub[m].build = latest,
                        m \notin t[r].todo \ {n}
                 PROVE  rec'[m].build = latest
    BY <1>6 DEF Covers
  <2>2. CASE m # n
    BY <1>1, <1>3, <2>1, <2>2 DEF Covers
  <2>3. CASE m = n
    <3>1. t[r].view[n] = latest
      BY <1>2, <2>1, FirstIsSeen
    <3> QED
      BY <2>1, <2>3, <3>1 DEF Took
  <2> QED
    BY <2>2, <2>3
<1> QED
  BY <1>1, <1>3, <1>4, <1>7, <1>8, AssignsStand

LEMMA writeTagsInv ==
    ASSUME TagInv, NEW r \in Reqs, NEW n \in Nodes, writeTags(r, n)
    PROVE  TagInv'
<1>1. /\ RunInv /\ AckInv /\ TagTypeOK /\ RequestShape /\ DeleteStands /\ AckedAreCarried
      /\ OwnTagIsOpen /\ FirstIsHeld /\ Shaped(t[r]) /\ {r} \in SUBSET Reqs
      /\ t[r].pc = "write" /\ n \in t[r].todo /\ UNCHANGED <<pub, latest, pubrun, acked>>
      /\ n \in DOMAIN t[r].view /\ t[r].op # "delete" /\ t[r] \in Requests
  BY DEF TagInv, RunInv, AckInv, RequestShape, Shaped, writeTags, TagTypeOK
<1>2. PICK b \in BOOLEAN :
         /\ t' = [t EXCEPT ![r].todo = @ \ {n}, ![r].ok = @ /\ b]
         /\ \/ SetTemplateLabels(n, t[r].view[n], t[r].tags)
            \/ ~b /\ UNCHANGED rec
  BY DEF writeTags
<1>3. /\ Steps({r})
      /\ t'[r].todo = t[r].todo \ {n} /\ t'[r].ok = (t[r].ok /\ b)
      /\ t'[r].pc = t[r].pc /\ t'[r].op = t[r].op /\ t'[r].tag = t[r].tag
      /\ t'[r].view = t[r].view /\ t'[r].tags = t[r].tags /\ t'[r].raced = t[r].raced
      /\ t'[r].since = t[r].since /\ t'[r].missed = t[r].missed
  BY <1>1, <1>2, HolderCalled
<1>4. Took(r, n, b) /\ rec' \in [Nodes -> Record]
  <2>1. CASE ~b /\ UNCHANGED rec
    BY <1>1, <2>1 DEF Took, TagTypeOK
  <2>2. CASE SetTemplateLabels(n, t[r].view[n], t[r].tags)
    BY <1>1, <2>2, LabelsSet, RequestFacts DEF Took
  <2> QED
    BY <1>2, <2>1, <2>2
<1>5. \A m \in Nodes : rec'[m].build = rec[m].build
  BY <1>4 DEF Took
<1>6. AssignStands'
  BY <1>1, <1>3, <1>4, WrittenStands
<1>7. DeleteStands'
  <2>1. Deleted(t[r])'
    BY <1>1, <1>3 DEF Deleted
  <2> QED
    BY <1>1, <1>3, <1>5, <2>1, DeletesStand
<1>8. RunInv'
  BY <1>1, <1>3, <1>4, <1>5, <1>6, <1>7, CallRuns
<1>9. AckInv'
  <2>1. HasHolder' <=> HasHolder
    BY <1>1, <1>5 DEF HasHolder
  <2>2. SeesLatest(r)' <=> SeesLatest(r)
    BY <1>1, <1>3 DEF SeesLatest
  <2>3. Carries(r)' /\ Opens(r)' /\ Respects(r)'
    BY <1>1, <1>3, <2>1, <2>2
       DEF Carries, Opens, Respects, Tagging, AckedAreCarried, OwnTagIsOpen
  <2>4. ASSUME NEW m \in Nodes, rec'[m].build = latest
        PROVE  /\ rec[m].build = latest
               /\ \/ rec'[m].labels = rec[m].labels
                  \/ \A x \in acked : x \in DOMAIN rec'[m].labels /\ rec'[m].labels[x] = latest
    <3>1. rec[m].build = latest
      BY <1>5, <2>4
    <3>2. CASE m = n /\ rec[n].build = t[r].view[n] /\ rec'[n].labels = t[r].tags
      <4>1. SeesLatest(r) /\ HasHolder
        BY <1>1, <3>1, <3>2 DEF SeesLatest, HasHolder
      <4> QED
        BY <1>1, <3>1, <3>2, <4>1 DEF AckedAreCarried, Carries
    <3>3. CASE rec'[m] = rec[m]
      BY <3>1, <3>3
    <3> QED
      BY <1>4, <3>2, <3>3 DEF Took
  <2>5. latest = 1 /\ acked # {} =>
           /\ \A m \in Nodes : rec[m].build = latest => rec'[m].build = latest
           /\ \A m \in Nodes : pub'[m].build = latest => rec'[m].build = latest
    BY <1>1, <1>5 DEF FirstIsHeld
  <2> QED
    BY <1>1, <1>3, <2>3, <2>4, <2>5, AcksStay
<1> QED
  BY <1>8, <1>9 DEF TagInv

LEMMA deleteHolderInv ==
    ASSUME TagInv, NEW r \in Reqs, NEW n \in Nodes, deleteHolder(r, n)
    PROVE  TagInv'
<1>1. /\ RunInv /\ AckInv /\ TagTypeOK /\ RequestShape /\ DeleteStands /\ RacesAreKnown
      /\ FirstIsHeld /\ AssignStands /\ Shaped(t[r]) /\ {r} \in SUBSET Reqs /\ Deleted(t[r])
      /\ t[r].pc = "delete" /\ n \in t[r].todo /\ UNCHANGED <<pub, latest, pubrun, acked>>
      /\ t[r].op = "delete" /\ t[r] \in Requests /\ latest > 0
  BY BuildFacts DEF TagInv, RunInv, AckInv, RequestShape, Shaped, deleteHolder, TagTypeOK, DeleteStands
<1>2. PICK b \in BOOLEAN :
         /\ t' = [t EXCEPT ![r].todo = @ \ {n}, ![r].ok = @ /\ b]
         /\ \/ DeleteTemplate(r, n)
            \/ ~b /\ UNCHANGED rec
  BY DEF deleteHolder
<1>3. /\ Steps({r})
      /\ t'[r].todo = t[r].todo \ {n} /\ t'[r].ok = (t[r].ok /\ b)
      /\ t'[r].pc = t[r].pc /\ t'[r].op = t[r].op /\ t'[r].tag = t[r].tag
      /\ t'[r].view = t[r].view /\ t'[r].tags = t[r].tags /\ t'[r].raced = t[r].raced
      /\ t'[r].since = t[r].since /\ t'[r].missed = t[r].missed
  BY <1>1, <1>2, HolderCalled
<1>4. /\ rec' \in [Nodes -> Record] /\ (\A m \in Nodes \ {n} : rec'[m] = rec[m])
      /\ \/ rec'[n].build = 0
         \/ ~b /\ rec' = rec
  BY <1>1, <1>2, RecordCleared DEF DeleteTemplate, TagTypeOK
<1>5. \A m \in Nodes : rec'[m].build = rec[m].build \/ rec'[m].build = 0
  BY <1>4
<1>6. AssignStands'
  <2>1. Written(r)' /\ Covers(r)'
    BY <1>1, <1>3 DEF Written, Covers, Assigning
  <2>2. \A m \in Nodes : rec'[m].build = latest => rec'[m] = rec[m]
    BY <1>1, <1>4
  <2>3. \A o \in Reqs : DOMAIN t[o].view \subseteq Nodes
    BY <1>1, RequestFacts DEF TagTypeOK
  <2>4. latest = 1 => \A o \in Reqs \ {r} : ~(Assigning(o) /\ ~t'[o].raced)
    <3>1. SUFFICES ASSUME latest = 1, NEW o \in Reqs \ {r}, Assigning(o) PROVE FALSE
      OBVIOUS
    <3>2. SeesLatest(r) /\ SeesLatest(o) /\ Tagging(o) /\ Running(r) /\ ~t[o].raced
      BY <1>1, <3>1, FirstIsSeen DEF Assigning, Tagging, Running
    <3> QED
      BY <1>1, <3>2 DEF RacesAreKnown
  <2> QED
    BY <1>1, <1>3, <2>1, <2>2, <2>3, <2>4, AssignsStand
<1>7. DeleteStands'
  <2>1. ASSUME t'[r].ok, NEW m \in DOMAIN t[r].view, m \notin t[r].todo \ {n}
        PROVE  rec'[m].build = 0 \/ rec'[m].build > t[r].since
    <3>1. t[r].ok /\ b
      BY <1>3, <2>1
    <3>2. m \in Nodes
      BY <1>1, RequestFacts
    <3>3. CASE m = n
      BY <1>4, <3>1, <3>3
    <3>4. CASE m # n
      BY <1>1, <1>4, <2>1, <3>1, <3>2, <3>4 DEF Deleted
    <3> QED
      BY <3>3, <3>4
  <2>2. Deleted(t[r])'
    BY <1>1, <1>3, <2>1 DEF Deleted
  <2> QED
    BY <1>1, <1>3, <1>5, <2>2, DeletesStand
<1>8. RunInv'
  BY <1>1, <1>3, <1>4, <1>5, <1>6, <1>7, CallRuns
<1>9. AckInv'
  <2>1. Carries(r)' /\ Opens(r)'
    BY <1>1, <1>3 DEF Carries, Opens, Tagging
  <2>2. ~(latest = 1 /\ acked # {})
    BY <1>1 DEF FirstIsHeld, Respects
  <2>3. \A m \in Nodes : rec'[m].build = latest =>
           rec[m].build = latest /\ rec'[m].labels = rec[m].labels
    BY <1>1, <1>4
  <2> QED
    BY <1>1, <1>3, <2>1, <2>2, <2>3, AcksStay
<1> QED
  BY <1>8, <1>9 DEF TagInv

-----------------------------------------------------------------------------
(* Builds are promoted and published, the inventory follows.               *)

LEMMA NothingAcked ==
    ASSUME acked' = {}
    PROVE  AckInv'
BY DEF AckInv, AckedAreHeld, AckedAreCarried, Carries, OwnTagIsOpen, Opens, FirstIsHeld

LEMMA PromoteInv ==
    ASSUME TagInv, NEW n \in Nodes, Promote(n)
    PROVE  TagInv'
<1>1. /\ TagTypeOK /\ RequestShape /\ BuildsAreKnown /\ RacesAreKnown /\ AssignStands
      /\ DeleteStands /\ latest \in Nat /\ latest > 0 /\ latest \in Builds
      /\ t \in [Reqs -> Requests]
  BY BuildFacts DEF TagInv, RunInv, TagTypeOK
<1>2. /\ latest' = latest + 1 /\ latest' \in Builds /\ latest' > 1 /\ latest' > latest
      /\ UNCHANGED <<pub, t>> /\ acked' = {}
      /\ pubrun' = [pc |-> "list", node |-> n, todo |-> {}]
  BY <1>1, MaxBuildsAssumption DEF Promote, Builds
<1>3. /\ rec' \in [Nodes -> Record] /\ rec'[n].build = latest + 1
      /\ \A m \in Nodes \ {n} : rec'[m] = rec[m]
  <2>1. PICK R : R = [build |-> latest + 1, labels |-> <<>>]
    OBVIOUS
  <2>2. R \in Record /\ R.build = latest + 1
    BY <1>2, <2>1, EmptyIsLabels DEF Record
  <2>3. rec' = [rec EXCEPT ![n] = R] /\ rec \in [Nodes -> Record]
    BY <1>1, <2>1 DEF Promote, TagTypeOK
  <2> QED
    BY <2>2, <2>3
<1>4. \A m \in Nodes : rec[m].build \in Nat /\ pub[m].build \in Int
  BY <1>1, RecordFacts
<1>5. /\ \A m \in Nodes : rec[m].build <= latest /\ pub[m].build <= latest
      /\ \A r \in Reqs : \A m \in DOMAIN t[r].view : t[r].view[m] <= latest
  BY <1>1 DEF BuildsAreKnown
<1>6. \A r \in Reqs : \A m \in DOMAIN t[r].view : t[r].view[m] \in Nat
  BY <1>1, RequestFacts, BuildFacts DEF TagTypeOK
<1>7. TagTypeOK'
  BY <1>1, <1>2, <1>3 DEF TagTypeOK
<1>8. RequestShape'
  <2>1. ASSUME NEW r \in Reqs PROVE Shaped(t[r])'
    <3>1. Shaped(t[r]) /\ t[r].since \in Nat /\ t'[r] = t[r]
      BY <1>1, <1>2, RequestFacts DEF RequestShape
    <3>2. t[r].since <= latest'
      BY <1>1, <1>2, <3>1 DEF Shaped
    <3> QED
      BY <3>1, <3>2 DEF Shaped
  <2> QED
    BY <2>1 DEF RequestShape
<1>9. BuildsAreKnown'
  <2>1. \A m \in Nodes : rec'[m].build <= latest' /\ pub'[m].build <= latest'
    BY <1>1, <1>2, <1>3, <1>4, <1>5
  <2>2. \A r \in Reqs : \A m \in DOMAIN t'[r].view : t'[r].view[m] <= latest'
    BY <1>1, <1>2, <1>5, <1>6
  <2>3. ASSUME NEW m \in Nodes, Marked(m)' PROVE m = n
    BY <1>1, <1>2, <1>3, <1>4, <1>5, <1>6, <2>3 DEF Marked
  <2> QED
    BY <2>1, <2>2, <2>3 DEF BuildsAreKnown
<1>10. PublishShape'
  BY <1>2 DEF PublishShape
<1>11. \A r \in Reqs : ~SeesLatest(r)'
  BY <1>1, <1>2, <1>5, <1>6 DEF SeesLatest
<1>12. RacesAreKnown'
  BY <1>11 DEF RacesAreKnown
<1>13. AssignStands'
  BY <1>2, <1>11 DEF AssignStands, Written, Covers
<1>14. DeleteStands'
  BY <1>1, <1>2, <1>3, NoneSteps, DeletesStand
<1>15. AckInv'
  BY <1>2, NothingAcked
<1> QED
  BY <1>7, <1>8, <1>9, <1>10, <1>12, <1>13, <1>14, <1>15 DEF TagInv, RunInv

\* A step of nobody's request.
LEMMA QuietRuns ==
    ASSUME RunInv, UNCHANGED latest, Steps({}), acked' \subseteq Tags,
           rec' \in [Nodes -> Record], pub' \in [Nodes -> Record \cup {Unlisted}],
           pubrun' \in [pc : {"none", "list", "delete", "label"}, node : Nodes \cup {"none"},
                        todo : SUBSET (Nodes \X Builds)],
           PublishShape',
           \A n \in Nodes : rec'[n].build = rec[n].build \/ rec'[n].build = 0,
           \A n \in Nodes : \/ pub'[n].build = pub[n].build
                            \/ pub'[n].build = rec[n].build
                            \/ pub'[n].build = -1,
           AssignStands'
    PROVE  RunInv'
<1>1. /\ TagTypeOK /\ RequestShape /\ BuildsAreKnown /\ RacesAreKnown /\ DeleteStands
      /\ {} \in SUBSET Reqs
  BY DEF RunInv
<1>2. TagTypeOK'
  BY <1>1 DEF TagTypeOK, Steps
<1>3. \A o \in Reqs : t'[o].view = t[o].view
  BY DEF Steps, Keeps
<1>4. BuildsAreKnown'
  BY <1>1, <1>3, BuildsStay
<1>5. RequestShape'
  BY <1>1, ShapesStay
<1>6. RacesAreKnown'
  BY <1>1, RacesStay
<1>7. DeleteStands'
  BY <1>1, DeletesStand
<1> QED
  BY <1>2, <1>4, <1>5, <1>6, <1>7 DEF RunInv

\* The publish of a build, when nothing but older records goes.
LEMMA PublishStepInv ==
    ASSUME TagInv, UNCHANGED <<pub, latest, t, acked>>, pubrun.pc # "none",
           rec' \in [Nodes -> Record],
           \A n \in Nodes : rec'[n] = rec[n] \/ (rec[n].build # latest /\ rec'[n].build = 0),
           pubrun' \in [pc : {"none", "list", "delete", "label"}, node : Nodes \cup {"none"},
                        todo : SUBSET (Nodes \X Builds)],
           PublishShape'
    PROVE  TagInv'
<1>1. /\ RunInv /\ AckInv /\ TagTypeOK /\ RequestShape /\ AssignStands /\ PublishShape
      /\ {} \in SUBSET Reqs /\ latest > 1 /\ latest \in Nat /\ acked' \subseteq Tags
      /\ pub' \in [Nodes -> Record \cup {Unlisted}]
  BY BuildFacts DEF TagInv, RunInv, PublishShape, TagTypeOK
<1>2. Steps({})
  BY <1>1, NoneSteps DEF TagTypeOK
<1>3. \A n \in Nodes : rec'[n].build = latest => rec'[n] = rec[n]
  BY <1>1
<1>4. \A o \in Reqs : DOMAIN t[o].view \subseteq Nodes
  BY <1>1, RequestFacts DEF TagTypeOK
<1>5. latest # 1
  BY <1>1
<1>6. AssignStands'
  BY <1>1, <1>2, <1>3, <1>4, <1>5, AssignsStand
<1>7. RunInv'
  BY <1>1, <1>2, <1>6, QuietRuns
<1>8. AckInv'
  BY <1>1, <1>2, <1>3, <1>5, AcksStay
<1> QED
  BY <1>7, <1>8 DEF TagInv

RunPcs == {"none", "list", "delete", "label"}
RunNodes == Nodes \cup {"none"}
RunTodos == SUBSET (Nodes \X Builds)
PublishRuns == [pc : RunPcs, node : RunNodes, todo : RunTodos]

LEMMA RunMoves ==
    ASSUME NEW P \in PublishRuns, NEW p \in RunPcs, NEW N, N = [P EXCEPT !.pc = p]
    PROVE  N \in PublishRuns /\ N.pc = p /\ N.node = P.node /\ N.todo = P.todo
BY DEF PublishRuns

LEMMA RunGoesOn ==
    ASSUME NEW P \in PublishRuns, NEW D \in RunTodos, NEW N, N = [P EXCEPT !.todo = D]
    PROVE  N \in PublishRuns /\ N.pc = P.pc /\ N.node = P.node /\ N.todo = D
BY DEF PublishRuns

LEMMA RunTurns ==
    ASSUME NEW P \in PublishRuns, NEW p \in RunPcs, NEW D \in RunTodos,
           NEW N, N = [P EXCEPT !.pc = p, !.todo = D]
    PROVE  N \in PublishRuns /\ N.pc = p /\ N.node = P.node /\ N.todo = D
BY DEF PublishRuns

LEMMA RunFacts ==
    /\ RunTodos = SUBSET (Nodes \X Builds)
    /\ PublishRuns = [pc : {"none", "list", "delete", "label"}, node : Nodes \cup {"none"},
                      todo : SUBSET (Nodes \X Builds)]
    /\ "none" \in RunPcs /\ "delete" \in RunPcs /\ {} \in RunTodos
BY DEF PublishRuns, RunPcs, RunNodes, RunTodos

LEMMA ListHoldersInv ==
    ASSUME TagInv, ListHolders
    PROVE  TagInv'
<1>1. /\ pubrun \in PublishRuns /\ pubrun.pc # "none" /\ PublishShape /\ rec \in [Nodes -> Record]
      /\ UNCHANGED <<rec, pub, latest, t, acked>> /\ latest > 1 /\ pubrun.node \in Nodes
  BY RunFacts DEF TagInv, RunInv, TagTypeOK, ListHolders, PublishShape
<1>2. PICK D \in RunTodos :
         D = {h \in Nodes \X Builds : rec[h[1]].build = h[2] /\ h[2] < latest}
  BY DEF RunTodos
<1>3. PICK P \in PublishRuns : P = pubrun
  BY <1>1
<1>4. CASE pubrun' = [P EXCEPT !.pc = "delete", !.todo = D]
  <2>1. pubrun' \in PublishRuns /\ pubrun'.node = P.node /\ pubrun'.todo = D
    BY <1>4, RunTurns, RunFacts
  <2>2. \A h \in D : h[2] < latest
    BY <1>2
  <2>3. PublishShape'
    BY <1>1, <1>3, <2>1, <2>2 DEF PublishShape
  <2> QED
    BY <1>1, <2>1, <2>3, PublishStepInv, RunFacts
<1>5. CASE pubrun' = [P EXCEPT !.pc = "none"]
  <2>1. pubrun' \in PublishRuns /\ pubrun'.node = P.node /\ pubrun'.todo = P.todo
    BY <1>5, RunMoves, RunFacts
  <2>2. PublishShape'
    BY <1>1, <1>3, <2>1 DEF PublishShape
  <2> QED
    BY <1>1, <2>1, <2>2, PublishStepInv, RunFacts
<1> QED
  BY <1>2, <1>3, <1>4, <1>5 DEF ListHolders

LEMMA DeleteOlderInv ==
    ASSUME TagInv, NEW h \in pubrun.todo, DeleteOlder(h)
    PROVE  TagInv'
<1>1. /\ pubrun \in PublishRuns /\ pubrun.pc # "none" /\ PublishShape /\ rec \in [Nodes -> Record]
      /\ UNCHANGED <<pub, latest, t, acked>> /\ latest > 1 /\ pubrun.node \in Nodes
      /\ h[2] < latest /\ TagTypeOK
  BY RunFacts DEF TagInv, RunInv, TagTypeOK, DeleteOlder, PublishShape
<1>2. PICK P \in PublishRuns : P = pubrun
  BY <1>1
<1>3. h \in Nodes \X Builds /\ P.todo \in RunTodos
  BY <1>2 DEF PublishRuns, RunTodos
<1>4. h[1] \in Nodes /\ h[2] \in Nat /\ h[2] # latest
  BY <1>1, <1>3, BuildFacts DEF TagTypeOK
<1>5. CASE /\ rec' = IF rec[h[1]].build = h[2] THEN [rec EXCEPT ![h[1]] = NoRecord] ELSE rec
           /\ pubrun' = [P EXCEPT !.todo = P.todo \ {h}]
  <2>1. PICK D \in RunTodos : D = P.todo \ {h}
    BY <1>3 DEF RunTodos
  <2>2. /\ pubrun' \in PublishRuns /\ pubrun'.node = P.node /\ pubrun'.todo = P.todo \ {h}
    <3>1. pubrun' = [P EXCEPT !.todo = D]
      BY <1>5, <2>1
    <3>2. pubrun' \in PublishRuns /\ pubrun'.node = P.node /\ pubrun'.todo = D
      BY <3>1, RunGoesOn
    <3> QED
      BY <2>1, <3>2
  <2>3. PublishShape'
    BY <1>1, <1>2, <2>2 DEF PublishShape
  <2>4. /\ rec' \in [Nodes -> Record]
        /\ \A n \in Nodes : rec'[n] = rec[n] \/ (rec[n].build # latest /\ rec'[n].build = 0)
    <3>1. CASE rec[h[1]].build = h[2]
      BY <1>1, <1>4, <1>5, <3>1, RecordCleared
    <3>2. CASE rec[h[1]].build # h[2]
      BY <1>1, <1>5, <3>2
    <3> QED
      BY <3>1, <3>2
  <2> QED
    BY <1>1, <2>2, <2>3, <2>4, PublishStepInv, RunFacts
<1>6. CASE UNCHANGED rec /\ pubrun' = [P EXCEPT !.pc = "none", !.todo = {}]
  <2>1. pubrun' \in PublishRuns /\ pubrun'.node = P.node /\ pubrun'.todo = {}
    BY <1>6, RunTurns, RunFacts
  <2>2. PublishShape'
    BY <1>1, <1>2, <2>1 DEF PublishShape
  <2> QED
    BY <1>1, <1>6, <2>1, <2>2, PublishStepInv, RunFacts
<1> QED
  BY <1>2, <1>5, <1>6 DEF DeleteOlder

LEMMA ConstantLabels ==
    ASSUME NEW T \in SUBSET Tags, NEW b \in Builds
    PROVE  [x \in T |-> b] \in Labels
BY DEF Labels

\* The build's own tags are acknowledged unless a request knows the build, and
\* only one node holds it.
LEMMA LabelBuildInv ==
    ASSUME TagInv, LabelBuild
    PROVE  TagInv'
<1>1. /\ pubrun \in PublishRuns /\ pubrun.pc # "none" /\ PublishShape /\ rec \in [Nodes -> Record]
      /\ UNCHANGED <<pub, latest>> /\ latest > 1 /\ pubrun.node \in Nodes /\ latest \in Builds
      /\ TagTypeOK /\ RunInv /\ AssignStands /\ BuildsAreKnown /\ RequestShape
      /\ t \in [Reqs -> Requests] /\ pub \in [Nodes -> Record \cup {Unlisted}]
  BY RunFacts DEF TagInv, RunInv, TagTypeOK, LabelBuild, PublishShape
<1>2. PICK P \in PublishRuns : P = pubrun
  BY <1>1
<1>3. pubrun' = [P EXCEPT !.pc = "none"]
  BY <1>2 DEF LabelBuild
<1>4. pubrun' \in PublishRuns /\ pubrun'.node = P.node /\ pubrun'.todo = P.todo
  BY <1>3, RunMoves, RunFacts
<1>5. PublishShape'
  BY <1>1, <1>2, <1>4 DEF PublishShape
<1>6. CASE UNCHANGED <<rec, t, acked>>
  BY <1>1, <1>4, <1>5, <1>6, PublishStepInv, RunFacts
<1>7. ASSUME NEW T \in SUBSET Tags, SetTemplateLabels(pubrun.node, latest, [x \in T |-> latest]),
             acked' = (IF Writing({latest}) = {} THEN T ELSE {}),
             t' = MarkRaced(t, Writing({latest}))
      PROVE  TagInv'
  <2>1. PICK g \in Labels : g = [x \in T |-> latest]
    BY <1>1, ConstantLabels
  <2>2. /\ rec' \in [Nodes -> Record] /\ rec[pubrun.node].build = latest
        /\ rec'[pubrun.node].build = latest /\ rec'[pubrun.node].labels = g
        /\ \A m \in Nodes \ {pubrun.node} : rec'[m] = rec[m]
    BY <1>1, <1>7, <2>1, LabelsSet
  <2>3. Steps({}) /\ \A o \in Reqs : o \in Writing({latest}) => t'[o].raced
    BY <1>1, <1>7, MarkedSteps
  <2>4. \A o \in Reqs : Tagging(o) /\ SeesLatest(o) => o \in Writing({latest})
    BY DEF Tagging, SeesLatest, Writing
  <2>5. \A o \in Reqs : Assigning(o) => Tagging(o)
    BY DEF Assigning, Tagging
  <2>6. latest # 1 /\ {} \in SUBSET Reqs
    BY <1>1
  <2>7. AssignStands'
    BY <1>1, <2>3, <2>4, <2>5, <2>6, AssignsStand
  <2>8. RunInv'
    BY <1>1, <1>4, <1>5, <1>7, <2>2, <2>3, <2>7, QuietRuns, RunFacts
  <2>9. CASE acked' = {}
    BY <2>8, <2>9, NothingAcked DEF TagInv
  <2>10. CASE Writing({latest}) = {} /\ acked' = T
    <3>1. ASSUME NEW m \in Nodes, rec'[m].build = latest PROVE m = pubrun.node
      <4>1. rec[m].build = latest
        BY <2>2, <3>1
      <4>2. Marked(m) /\ Marked(pubrun.node)
        BY <2>2, <4>1 DEF Marked
      <4> QED
        BY <1>1, <4>2 DEF BuildsAreKnown
    <3>2. AckedAreHeld'
      BY <1>1, <2>1, <2>2, <2>10, <3>1 DEF AckedAreHeld
    <3>3. ASSUME NEW o \in Reqs PROVE ~(Tagging(o)' /\ SeesLatest(o)')
      <4>1. Keeps(o)
        BY <2>3 DEF Steps
      <4> QED
        BY <1>1, <2>4, <2>10, <4>1, Bystander
    <3>4. ASSUME NEW o \in Reqs PROVE t'[o].pc = "write" => Tagging(o)'
      <4>1. Keeps(o) /\ Shaped(t[o])
        BY <1>1, <2>3 DEF Steps, RequestShape
      <4> QED
        BY <4>1 DEF Keeps, Shaped, Tagging
    <3>5. AckedAreCarried' /\ OwnTagIsOpen'
      BY <3>3, <3>4 DEF AckedAreCarried, Carries, OwnTagIsOpen, Opens
    <3>6. FirstIsHeld'
      BY <1>1, <2>6 DEF FirstIsHeld
    <3> QED
      BY <2>8, <3>2, <3>5, <3>6 DEF TagInv, AckInv
  <2> QED
    BY <1>7, <2>9, <2>10
<1> QED
  BY <1>6, <1>7 DEF LabelBuild

LEMMA InventoryStepInv ==
    ASSUME TagInv, NEW n \in Nodes, Publish(n) \/ Unlist(n)
    PROVE  TagInv'
<1>1. /\ RunInv /\ AckInv /\ TagTypeOK /\ RequestShape /\ AssignStands /\ {} \in SUBSET Reqs
      /\ UNCHANGED <<rec, latest, pubrun, t, acked>> /\ PublishShape' /\ latest \in Nat
      /\ acked' \subseteq Tags /\ FirstIsHeld
  BY BuildFacts DEF TagInv, RunInv, TagTypeOK, Publish, Unlist, PublishShape, AckInv
<1>2. Steps({})
  BY <1>1, NoneSteps DEF TagTypeOK
<1>3. /\ pub' \in [Nodes -> Record \cup {Unlisted}]
      /\ pub'[n].build = rec[n].build \/ pub'[n].build = -1
      /\ \A m \in Nodes \ {n} : pub'[m] = pub[m]
  BY <1>1 DEF TagTypeOK, Publish, Unlist, Unlisted
<1>4. \A m \in Nodes : pub'[m].build = latest => pub[m].build = latest \/ rec[m].build = latest
  BY <1>1, <1>3
<1>5. AssignStands'
  BY <1>1, <1>2, <1>4, AssignsStand
<1>6. RunInv'
  BY <1>1, <1>2, <1>3, <1>5, QuietRuns DEF TagTypeOK
<1>7. AckInv'
  <2>1. latest = 1 /\ acked # {} => \A m \in Nodes : pub'[m].build = latest => rec[m].build = latest
    BY <1>1, <1>4 DEF FirstIsHeld
  <2> QED
    BY <1>1, <1>2, <2>1, AcksStay
<1> QED
  BY <1>6, <1>7 DEF TagInv

-----------------------------------------------------------------------------
(* The theorems.                                                           *)

LEMMA TagInitInv == Init => TagInv
<1> SUFFICES ASSUME Init PROVE TagInv
  OBVIOUS
<1>1. PICK H \in (SUBSET Nodes) \ {{}} :
         rec = [n \in Nodes |-> IF n \in H THEN [build |-> 1, labels |-> <<>>] ELSE NoRecord]
  BY DEF Init
<1>2. /\ latest = 1 /\ pub = rec /\ acked = {} /\ t = [r \in Reqs |-> NoRequest]
      /\ pubrun = [pc |-> "none", node |-> "none", todo |-> {}]
  BY DEF Init
<1>3. latest \in Builds /\ 1 \in Builds
  BY <1>2, MaxBuildsAssumption DEF Builds
<1>4. rec \in [Nodes -> Record] /\ \A n \in Nodes : rec[n].build <= 1
  <2>1. PICK R : R = [build |-> 1, labels |-> <<>>]
    OBVIOUS
  <2>2. R \in Record /\ R.build = 1
    BY <1>3, <2>1, EmptyIsLabels DEF Record
  <2>3. NoRecord \in Record /\ NoRecord.build = 0
    BY DEF Record, NoRecord
  <2>4. rec = [n \in Nodes |-> IF n \in H THEN R ELSE NoRecord]
    BY <1>1, <2>1
  <2> QED
    BY <2>2, <2>3, <2>4
<1>5. t \in [Reqs -> Requests] /\ \A r \in Reqs : t[r] = NoRequest
  BY <1>2, NoRequestType
<1>6. /\ NoRequest.pc = "idle" /\ NoRequest.op = "none" /\ NoRequest.missed = {}
      /\ NoRequest.since = 0 /\ DOMAIN NoRequest.view = {}
  BY EmptyIsLabels DEF NoRequest
<1>7. TagTypeOK
  BY <1>2, <1>3, <1>4, <1>5 DEF TagTypeOK
<1>8. RequestShape
  <2>1. Shaped(NoRequest)
    BY <1>2, <1>6 DEF Shaped
  <2> QED
    BY <1>5, <2>1 DEF RequestShape
<1>9. BuildsAreKnown
  BY <1>2, <1>4, <1>5, <1>6 DEF BuildsAreKnown
<1>10. PublishShape
  BY <1>2 DEF PublishShape
<1>11. \A r \in Reqs : ~Tagging(r) /\ ~Assigning(r)
  BY <1>5, <1>6 DEF Tagging, Assigning
<1>12. RacesAreKnown /\ AssignStands
  BY <1>11 DEF RacesAreKnown, AssignStands, Written, Covers
<1>13. DeleteStands
  BY <1>5, <1>6 DEF DeleteStands, Deleted
<1>14. AckInv
  BY <1>2 DEF AckInv, AckedAreHeld, AckedAreCarried, Carries, OwnTagIsOpen, Opens, FirstIsHeld
<1> QED
  BY <1>7, <1>8, <1>9, <1>10, <1>12, <1>13, <1>14 DEF TagInv, RunInv

LEMMA TagNextInv == TagInv /\ [Next]_vars => TagInv'
<1> SUFFICES ASSUME TagInv, [Next]_vars PROVE TagInv'
  OBVIOUS
<1>1. CASE UNCHANGED templateVars
  BY <1>1, TagRests
<1>2. ASSUME NEW r \in Reqs, TagRequest(r) PROVE TagInv'
  <2>1. ASSUME NEW op \in {"assign", "untag"}, NEW tag \in Tags, Begin(r, op, tag) PROVE TagInv'
    BY <2>1, BeginInv DEF TagNames
  <2>2. CASE Begin(r, "get", "none")
    BY <2>2, BeginInv DEF TagNames
  <2>3. CASE ReadTags(r)
    BY <2>3, ReadTagsInv
  <2>4. CASE \E n \in Nodes : writeTags(r, n) \/ deleteHolder(r, n)
    BY <2>4, writeTagsInv, deleteHolderInv
  <2>5. CASE forEachHolder(r)
    BY <2>5, forEachHolderInv
  <2>6. CASE deleteTemplate(r)
    BY <2>6, deleteTemplateInv
  <2> QED
    BY <1>2, <2>1, <2>2, <2>3, <2>4, <2>5, <2>6 DEF TagRequest
<1>3. CASE publishBuild
  BY <1>3, ListHoldersInv, DeleteOlderInv, LabelBuildInv DEF publishBuild
<1>4. ASSUME NEW n \in Nodes, Promote(n) \/ Publish(n) \/ Unlist(n) PROVE TagInv'
  BY <1>4, PromoteInv, InventoryStepInv
<1> QED
  BY <1>1, <1>2, <1>3, <1>4 DEF Next, SnapshotRequest, vars

\* What the template's requests, its builds and the acknowledged tags keep of
\* each other.
THEOREM TagInvariant == Spec => []TagInv
BY TagInitInv, TagNextInv, PTL DEF Spec

\* Types, of the template's state and of the snapshots'.
THEOREM TagTypes == Spec => []TypeOK
<1>1. TagInv /\ SnapInv => TypeOK
  BY TypesAgree DEF TagInv, RunInv, SnapInv
<1> QED
  BY <1>1, TagInvariant, SnapshotInvariant, PTL

\* A tag acknowledged on the latest build stays on every holder of it, however
\* old the inventory other writes work from, until somebody asks for that very
\* tag or deletes the template; and a read that began after the acknowledgement
\* and found the build answers it.
THEOREM TagsAreKept == Spec => []TagsKept
<1>1. TagInv /\ TypeOK => TagsKept
  BY DEF TagInv, RunInv, AckInv, AckedAreHeld, RequestShape, Shaped, TagsKept
<1> QED
  BY <1>1, TagInvariant, TagTypes, PTL

\* An acknowledged delete leaves no build that was there when it began on any
\* holder the inventory listed.
THEOREM TemplateDeletesDelete == Spec => []DeletedTemplateIsGone
<1>1. TagInv => DeletedTemplateIsGone
  <2> SUFFICES ASSUME TagInv, NEW r \in Reqs, t[r].op = "delete", t[r].pc = "answered",
                      NEW n \in t[r].todo
               PROVE  rec[n] = NoRecord \/ rec[n].build > t[r].since
    BY DEF DeletedTemplateIsGone
  <2>1. TagTypeOK /\ t[r] \in Requests /\ Deleted(t[r])
    BY DEF TagInv, RunInv, TagTypeOK, DeleteStands
  <2>2. n \in Nodes
    BY <2>1, RequestFacts
  <2> QED
    BY <2>1, <2>2, RecordFacts DEF Deleted
<1> QED
  BY <1>1, TagInvariant, PTL

-----------------------------------------------------------------------------
(* The calls on one sandbox and its lease.                                 *)

CallRecords ==
    [pc : {"idle", "lookup", "check", "pause", "read", "wake", "reread", "extend", "renew",
           "release", "get", "metrics", "sample"},
     op : Ops, ttl : Nat, expire : Actions \cup {Keep}, paused : BOOLEAN, until : 0..LastDeadline]

\* Which calls take which steps.
Routed(r) ==
    /\ r.pc \in {"check", "pause"} => r.op = "pause"
    /\ r.pc \in {"read", "wake", "reread", "extend"} => r.op \in {"connect", "resume"}
    /\ r.pc = "renew" => r.op \in {"connect", "resume", "timeout"}
    /\ r.pc = "release" => r.op = "delete"
    /\ r.pc = "get" => r.op = "get"
    /\ r.pc \in {"metrics", "sample"} => r.op = "metrics"
    /\ r.op = "timeout" => ~r.paused

\* A connect or resume that has decided on the lease.
Extending(r) == r.pc \in {"extend", "renew"} /\ r.op # "timeout"

\* A call has met the phase there is, and one past its wake a running sandbox.
Met(c) ==
    /\ call[c].pc # "idle" => phase \in seen[c]
    /\ call[c].pc = "reread" \/ Extending(call[c]) => "running" \in seen[c]

\* What a connect knows of the lease is true until another call moves it, and
\* it asks for no less than the API server's clock sees of it.
KnowsLease(c) ==
    /\ Extending(call[c]) /\ c \notin touched => deadline \in {call[c].until, NoDeadline}
    /\ Extending(call[c]) /\ call[c].pc = "renew" =>
           call[c].until <= now + MaxSkew + call[c].ttl * PerSecond

\* No lease is longer than the node's cap.
Capped == Leased => deadline <= now + MaxTTL * PerSecond

LeaseInv ==
    /\ LeaseTypeOK
    /\ Capped
    /\ \A c \in Calls : Routed(call[c]) /\ Met(c) /\ KnowsLease(c)

-----------------------------------------------------------------------------
(* Seconds and instants.                                                   *)

LEMMA TimesGrows ==
    ASSUME NEW a \in Int, NEW b \in Int, NEW p \in Nat, a <= b
    PROVE  a * p \in Int /\ b * p \in Int /\ a * p <= b * p
OBVIOUS

LEMMA QuotientBounds ==
    ASSUME NEW x \in Int, NEW p \in Nat \ {0}
    PROVE  x \div p \in Int /\ (x \div p) * p <= x /\ x < (x \div p) * p + p
OBVIOUS

LEMMA TimesPredecessor ==
    ASSUME NEW a \in Int, NEW p \in Nat
    PROVE  (a - 1) * p = a * p - p /\ (-a) * p = -(a * p) /\ a * p \in Int
OBVIOUS

\* A grant is a lease of at least a second and no more than the cap.
LEMMA GrantBounds ==
    ASSUME NEW s \in Nat
    PROVE  /\ granted(s) \in 1..MaxTTL
           /\ granted(s) * PerSecond \in Nat
           /\ granted(s) * PerSecond >= PerSecond
           /\ granted(s) * PerSecond <= MaxTTL * PerSecond
           /\ MaxTTL * PerSecond \in Nat
<1>1. granted(s) \in 1..MaxTTL /\ MaxTTL \in Nat /\ PerSecond \in Nat /\ granted(s) \in Nat
  BY TTLAssumption, ClockAssumption DEF granted
<1>2. 1 * PerSecond <= granted(s) * PerSecond /\ granted(s) * PerSecond <= MaxTTL * PerSecond
      /\ granted(s) * PerSecond \in Int /\ MaxTTL * PerSecond \in Int
  BY <1>1, TimesGrows
<1> QED
  BY <1>1, <1>2

LEMMA WakeBounds ==
    /\ WakeTTL * PerSecond \in Nat /\ MaxTTL * PerSecond \in Nat
    /\ WakeTTL * PerSecond >= PerSecond /\ WakeTTL * PerSecond <= MaxTTL * PerSecond
<1>1. WakeTTL \in 1..MaxTTL /\ MaxTTL \in Nat /\ PerSecond \in Nat /\ WakeTTL \in Nat
  BY TTLAssumption, ClockAssumption
<1>2. 1 * PerSecond <= WakeTTL * PerSecond /\ WakeTTL * PerSecond <= MaxTTL * PerSecond
      /\ WakeTTL * PerSecond \in Int /\ MaxTTL * PerSecond \in Int
  BY <1>1, TimesGrows
<1> QED
  BY <1>1, <1>2

\* The seconds left, rounded up, cover the lease, and one second less does not,
\* as far as the API server's clock can tell; the zero time is past.
LEMMA LeftCovers ==
    ASSUME LeaseInv, NEW c \in Calls, NEW skew \in -MaxSkew..MaxSkew
    PROVE  /\ left(c, skew) \in Int
           /\ call[c].until = NoDeadline => left(c, skew) = -1
           /\ call[c].until # NoDeadline =>
                /\ call[c].until <= now + MaxSkew + left(c, skew) * PerSecond
                /\ call[c].until + MaxSkew > now + (left(c, skew) - 1) * PerSecond
<1>1. call[c].until \in Int /\ now \in Int /\ PerSecond \in Nat \ {0}
  BY ClockAssumption, RetentionAssumption, WakeBounds DEF LeaseInv, LeaseTypeOK, LastDeadline
<1>0. MaxSkew \in Nat /\ skew \in Int /\ -MaxSkew <= skew /\ skew <= MaxSkew
  BY SkewAssumption
<1>a. CASE call[c].until = NoDeadline
  BY <1>a DEF left
<1>b. CASE call[c].until # NoDeadline
  <2> DEFINE x == now + skew - call[c].until
             d == x \div PerSecond
  <2>2. x \in Int /\ left(c, skew) = -d
    BY <1>0, <1>1, <1>b DEF left
  <2>3. d \in Int /\ d * PerSecond <= x /\ x < d * PerSecond + PerSecond
    BY <1>1, <2>2, QuotientBounds
  <2>4. (-d) * PerSecond = -(d * PerSecond) /\ d * PerSecond \in Int
    BY <1>1, <2>3, TimesPredecessor
  <2>5. -d \in Int
    BY <2>3
  <2>6. (-d - 1) * PerSecond = (-d) * PerSecond - PerSecond
    BY <1>1, <2>5, TimesPredecessor
  <2> HIDE DEF d
  <2>7. call[c].until = now + skew - x
    BY <1>0, <1>1
  <2> HIDE DEF x
  <2>8. PICK y \in Int : y = d * PerSecond
    BY <2>4
  <2>9. call[c].until <= now + MaxSkew - y /\ call[c].until + MaxSkew > now - y - PerSecond
    BY <1>0, <1>1, <2>2, <2>3, <2>7, <2>8
  <2> QED
    BY <1>0, <1>1, <1>b, <2>2, <2>4, <2>5, <2>6, <2>8, <2>9
<1> QED
  BY <1>a, <1>b

-----------------------------------------------------------------------------
\* The node's part of the type invariant.
NodeTypeOK ==
    /\ phase \in Phases
    /\ deadline \in 0..LastDeadline
    /\ phase \in {"running", "hibernated"} => deadline # NoDeadline
    /\ phase = "gone" => deadline = NoDeadline
    /\ onExpire \in Actions
    /\ label \in {"running", "paused"}

LEMMA InvTypes ==
    ASSUME LeaseInv
    PROVE  /\ NodeTypeOK /\ now \in 1..MaxTime
           /\ call \in [Calls -> CallRecords]
           /\ seen \in [Calls -> SUBSET Phases] /\ touched \in SUBSET Calls
           /\ \A c \in Calls : call[c] \in CallRecords /\ seen[c] \subseteq Phases
BY DEF LeaseInv, LeaseTypeOK, NodeTypeOK, CallRecords

\* The histories of a call that does not move.
LEMMA OtherKeeps ==
    ASSUME LeaseInv, Track, NEW d \in Calls, call'[d] = call[d], now' \in Nat, now <= now'
    PROVE  Routed(call[d])' /\ Met(d)' /\ KnowsLease(d)'
<1>1. call[d] \in CallRecords /\ now \in Nat
  BY InvTypes, ClockAssumption
<1>2. Routed(call[d]) /\ Met(d) /\ KnowsLease(d)
  BY DEF LeaseInv
<1>3. seen'[d] = IF call[d].pc = "idle" THEN {} ELSE seen[d] \cup {phase'}
  BY DEF Track
<1>4. call[d].pc # "idle" /\ d \notin touched' =>
         d \notin touched /\ deadline' \in {deadline, NoDeadline}
  BY DEF Track
<1>5. Met(d)'
  BY <1>2, <1>3 DEF Met, Extending
<1>6. call[d].ttl * PerSecond \in Int /\ call[d].until \in Int
  BY <1>1, ClockAssumption, RetentionAssumption, WakeBounds DEF CallRecords, LastDeadline
<1>7. KnowsLease(d)'
  BY <1>1, <1>2, <1>4, <1>6, SkewAssumption DEF KnowsLease, Extending
<1> QED
  BY <1>2, <1>5, <1>7 DEF Routed

LEMMA HistoryTypes ==
    ASSUME LeaseInv, Track, phase' \in Phases
    PROVE  seen' \in [Calls -> SUBSET Phases] /\ touched' \in SUBSET Calls
BY InvTypes DEF Track

\* A call moves to the record r, and the node to another good state.
LEMMA CallMoves ==
    ASSUME LeaseInv, Track, NodeTypeOK', NEW c \in Calls, NEW r \in CallRecords,
           call' = [call EXCEPT ![c] = r], now' = now, reply' \in Answers \cup {"none"},
           Capped',
           r.pc = "reread" \/ Extending(r) => "running" \in seen[c] \cup {phase'},
           Routed(r),
           Extending(r) /\ c \notin touched' => deadline' \in {r.until, NoDeadline},
           Extending(r) /\ r.pc = "renew" => r.until <= now + MaxSkew + r.ttl * PerSecond
    PROVE  LeaseInv'
<1>1. call \in [Calls -> CallRecords] /\ now \in 1..MaxTime
  BY InvTypes
<1>2. call' \in [Calls -> CallRecords] /\ call'[c] = r
  BY <1>1
<1>3. seen'[c] = IF r.pc = "idle" THEN {} ELSE seen[c] \cup {phase'}
  BY <1>2 DEF Track
<1>4. Routed(call[c])' /\ Met(c)' /\ KnowsLease(c)'
  BY <1>2, <1>3 DEF Routed, Met, KnowsLease, Extending
<1>5. ASSUME NEW d \in Calls, d # c PROVE Routed(call[d])' /\ Met(d)' /\ KnowsLease(d)'
  <2>1. call'[d] = call[d] /\ now' \in Nat /\ now <= now'
    BY <1>1, <1>5
  <2> QED
    BY <2>1, OtherKeeps
<1>6. LeaseTypeOK'
  BY <1>1, <1>2, HistoryTypes DEF NodeTypeOK, LeaseTypeOK, CallRecords
<1> QED
  BY <1>4, <1>5, <1>6 DEF LeaseInv

LEMMA IdleIsRecord ==
    IdleCall \in CallRecords /\ IdleCall.pc = "idle" /\ ~IdleCall.paused /\ Routed(IdleCall)
BY WakeBounds, ClockAssumption, RetentionAssumption
DEF IdleCall, CallRecords, Routed, Ops, NoDeadline, Actions, Keep, LastDeadline

\* A call that is answered is forgotten.
LEMMA AnswerMoves ==
    ASSUME LeaseInv, Track, NodeTypeOK', NEW c \in Calls, NEW a \in Answers, Answer(c, a),
           now' = now, Capped'
    PROVE  LeaseInv'
<1>1. ~Extending(IdleCall)
  BY IdleIsRecord DEF Extending
<1> QED
  BY <1>1, IdleIsRecord, CallMoves DEF Answer

LEMMA QuietNode ==
    ASSUME LeaseInv, UNCHANGED <<now, nodeVars, label>>
    PROVE  NodeTypeOK' /\ now' = now /\ deadline' = deadline /\ phase' = phase
           /\ Capped'
BY InvTypes DEF nodeVars, NodeTypeOK, LeaseInv, Capped, Leased

LEMMA QuietAnswer ==
    ASSUME LeaseInv, Track, NEW c \in Calls, NEW a \in Answers, Answer(c, a),
           UNCHANGED <<now, nodeVars, label>>
    PROVE  LeaseInv'
BY QuietNode, AnswerMoves

\* A step of a call that decides nothing about the lease.
LEMMA QuietGoto ==
    ASSUME LeaseInv, Track, NEW c \in Calls, NEW r \in CallRecords, Becomes(c, r),
           r.pc # "reread", ~Extending(r), Routed(r), UNCHANGED <<now, nodeVars, label>>
    PROVE  LeaseInv'
BY QuietNode, CallMoves DEF Becomes

-----------------------------------------------------------------------------
(* One lemma per step of a call.                                           *)

LEMMA RequestedKeeps ==
    ASSUME LeaseInv, Track, NEW c \in Calls, Requested(c)
    PROVE  LeaseInv'
<1>1. PICK o \in Ops, s \in Timeouts, e \in Actions \cup {Keep} : Call(c, o, s, e)
  BY DEF Requested
<1>2. s \in Nat
  BY TimeoutsAssumption
<1>3. PICK r : r = [IdleCall EXCEPT !.pc = "lookup", !.op = o, !.ttl = s, !.expire = e]
  OBVIOUS
<1>4. r \in CallRecords /\ r.pc = "lookup" /\ ~r.paused
  BY <1>2, <1>3, IdleIsRecord DEF CallRecords
<1>5. Becomes(c, r) /\ UNCHANGED <<now, nodeVars, label>>
  BY <1>1, <1>3 DEF Call
<1> QED
  BY <1>4, <1>5, QuietGoto DEF Routed, Extending

LEMMA PhasesAreBoolean == IsPaused \in BOOLEAN /\ (label = "paused") \in BOOLEAN
BY DEF IsPaused

LEMMA LookupKeeps ==
    ASSUME LeaseInv, Track, NEW c \in Calls, lookup(c)
    PROVE  LeaseInv'
<1>1. UNCHANGED <<now, nodeVars, label>> /\ call[c] \in CallRecords /\ Routed(call[c])
  BY InvTypes DEF lookup, LeaseInv
<1>2. ASSUME NEW a \in Answers, Answer(c, a) PROVE LeaseInv'
  BY <1>1, <1>2, QuietAnswer
<1>3. CASE /\ call[c].op = "pause"
           /\ \E p \in {label = "paused", IsPaused} :
                 Becomes(c, [call[c] EXCEPT !.pc = "check", !.paused = p])
  <2>1. PICK p \in BOOLEAN : Becomes(c, [call[c] EXCEPT !.pc = "check", !.paused = p])
    BY <1>3, PhasesAreBoolean, Zenon
  <2>2. PICK r : r = [call[c] EXCEPT !.pc = "check", !.paused = p]
    OBVIOUS
  <2>3. r \in CallRecords /\ r.pc = "check" /\ r.op = "pause"
    BY <1>1, <1>3, <2>2 DEF CallRecords
  <2> QED
    BY <1>1, <2>1, <2>2, <2>3, QuietGoto DEF Routed, Extending
<1>4. ASSUME NEW l \in {"renew", "release", "get", "metrics", "read"}, Goto(c, l),
             l = "renew" => call[c].op = "timeout", l = "release" => call[c].op = "delete",
             l = "get" => call[c].op = "get", l = "metrics" => call[c].op = "metrics",
             l = "read" => call[c].op \in {"connect", "resume"}
      PROVE  LeaseInv'
  <2>1. PICK r : r = [call[c] EXCEPT !.pc = l]
    OBVIOUS
  <2>2. r \in CallRecords /\ r.pc = l /\ r.op = call[c].op /\ r.paused = call[c].paused
    BY <1>1, <2>1 DEF CallRecords
  <2>3. Routed(r) /\ ~Extending(r) /\ r.pc # "reread"
    BY <1>1, <1>4, <2>2 DEF Routed, Extending
  <2> QED
    BY <1>1, <1>4, <2>1, <2>2, <2>3, QuietGoto DEF Goto
<1>5. call[c].op \in Ops
  BY <1>1 DEF CallRecords
<1>6. \/ (\E a \in {"notfound", "missed", "error"} : Answer(c, a))
      \/ /\ call[c].op = "pause"
         /\ \E p \in {label = "paused", IsPaused} :
               Becomes(c, [call[c] EXCEPT !.pc = "check", !.paused = p])
      \/ call[c].op = "timeout" /\ Goto(c, "renew")
      \/ call[c].op = "delete" /\ Goto(c, "release")
      \/ call[c].op = "get" /\ Goto(c, "get")
      \/ call[c].op = "metrics" /\ Goto(c, "metrics")
      \/ call[c].op \in {"connect", "resume"} /\ Goto(c, "read")
  BY <1>5 DEF lookup, Ops
<1> QED
  BY <1>2, <1>3, <1>4, <1>6 DEF Answers

LEMMA IsPausedKeeps ==
    ASSUME LeaseInv, Track, NEW c \in Calls, isPaused(c)
    PROVE  LeaseInv'
<1>1. /\ UNCHANGED <<now, nodeVars, label>> /\ call[c] \in CallRecords
      /\ Routed(call[c]) /\ call[c].pc = "check"
  BY InvTypes DEF isPaused, LeaseInv, At
<1>2. ASSUME NEW a \in Answers, Answer(c, a) PROVE LeaseInv'
  BY <1>1, <1>2, QuietAnswer
<1>3. ASSUME Goto(c, "pause") PROVE LeaseInv'
  <2>1. PICK r : r = [call[c] EXCEPT !.pc = "pause"]
    OBVIOUS
  <2>2. r \in CallRecords /\ r.pc = "pause" /\ r.op = call[c].op /\ r.paused = call[c].paused
    BY <1>1, <2>1 DEF CallRecords
  <2>3. Routed(r) /\ ~Extending(r) /\ r.pc # "reread"
    BY <1>1, <2>2 DEF Routed, Extending
  <2> QED
    BY <1>1, <1>3, <2>1, <2>2, <2>3, QuietGoto DEF Goto
<1> QED
  BY <1>2, <1>3 DEF isPaused, Answers

LEMMA PauseKeeps ==
    ASSUME LeaseInv, Track, NEW c \in Calls, Pause(c)
    PROVE  LeaseInv'
<1>1. NodeTypeOK /\ UNCHANGED <<now, deadline, onExpire, label>> /\ Capped
  BY InvTypes DEF Pause, LeaseInv
<1>2. NodeTypeOK' /\ Capped'
  BY <1>1 DEF Pause, NodeTypeOK, Phases, Capped, Leased
<1>3. \E a \in {"ok", "error", "conflict", "notfound"} : Answer(c, a)
  BY DEF Pause
<1> QED
  BY <1>1, <1>2, <1>3, AnswerMoves DEF Answers

LEMMA LearnKeeps ==
    ASSUME LeaseInv, Track, NEW c \in Calls, Learn(c), UNCHANGED <<now, nodeVars, label>>,
           call[c].pc \in {"read", "reread"}, "running" \in seen[c] \cup {phase}
    PROVE  LeaseInv'
<1>1. call[c] \in CallRecords /\ Routed(call[c]) /\ NodeTypeOK
  BY InvTypes DEF LeaseInv
<1>2. PICK r : r = [call[c] EXCEPT !.pc = "extend", !.until = deadline]
  OBVIOUS
<1>3. r \in CallRecords /\ r.pc = "extend" /\ r.op = call[c].op /\ r.until = deadline
      /\ r.paused = call[c].paused
  BY <1>1, <1>2 DEF CallRecords, NodeTypeOK
<1>4. Routed(r) /\ r.pc # "renew"
  BY <1>1, <1>3 DEF Routed
<1>5. call' = [call EXCEPT ![c] = r] /\ reply' = "none"
  BY <1>2 DEF Learn, Becomes
<1> QED
  BY <1>3, <1>4, <1>5, QuietNode, CallMoves

LEMMA ReadKeeps ==
    ASSUME LeaseInv, Track, NEW c \in Calls, Read(c)
    PROVE  LeaseInv'
<1>1. /\ UNCHANGED <<now, nodeVars, label>> /\ call[c] \in CallRecords
      /\ Routed(call[c]) /\ call[c].pc = "read" /\ NodeTypeOK
  BY InvTypes DEF Read, LeaseInv, At
<1>2. ASSUME NEW a \in Answers, Answer(c, a) PROVE LeaseInv'
  BY <1>1, <1>2, QuietAnswer
<1>3. ASSUME Becomes(c, [call[c] EXCEPT !.pc = "wake", !.paused = TRUE]) PROVE LeaseInv'
  <2>1. PICK r : r = [call[c] EXCEPT !.pc = "wake", !.paused = TRUE]
    OBVIOUS
  <2>2. r \in CallRecords /\ r.pc = "wake" /\ r.op = call[c].op
    BY <1>1, <2>1 DEF CallRecords
  <2>3. Routed(r) /\ ~Extending(r)
    BY <1>1, <2>2 DEF Routed, Extending
  <2> QED
    BY <1>1, <1>3, <2>1, <2>2, <2>3, QuietGoto
<1>4. ASSUME Learn(c), phase = "running" PROVE LeaseInv'
  BY <1>1, <1>4, LearnKeeps
<1>5. Exists /\ ~IsPaused => phase = "running"
  BY <1>1 DEF Exists, IsPaused, NodeTypeOK, Phases
<1> QED
  BY <1>2, <1>3, <1>4, <1>5 DEF Read, Answers

LEMMA ResumeKeeps ==
    ASSUME LeaseInv, Track, NEW c \in Calls, Resume(c)
    PROVE  LeaseInv'
<1>1. /\ UNCHANGED <<now, label>> /\ call[c] \in CallRecords /\ now \in 1..MaxTime
      /\ Routed(call[c]) /\ call[c].pc = "wake" /\ NodeTypeOK /\ Capped
  BY InvTypes DEF Resume, LeaseInv, At
<1>2. NodeTypeOK' /\ Capped'
  <2>1. CASE UNCHANGED nodeVars
    BY <1>1, <2>1, QuietNode
  <2>2. CASE Woken /\ IsPaused
    <3>1. deadline' = (IF phase = "archived" THEN now + WakeTTL * PerSecond ELSE deadline)
          /\ phase' = "running" /\ onExpire' = onExpire
      BY <2>2 DEF Woken
    <3>2. now + WakeTTL * PerSecond \in 1..LastDeadline
          /\ now + WakeTTL * PerSecond <= now + MaxTTL * PerSecond
      BY <1>1, WakeBounds, ClockAssumption, RetentionAssumption DEF LastDeadline
    <3>3. phase \in {"hibernated", "archived"}
      BY <2>2 DEF IsPaused
    <3> QED
      BY <1>1, <3>1, <3>2, <3>3 DEF NodeTypeOK, Phases, NoDeadline, Capped, Leased
  <2> QED
    BY <2>1, <2>2 DEF Resume
<1>3. ASSUME NEW a \in Answers, Answer(c, a) PROVE LeaseInv'
  BY <1>1, <1>2, <1>3, AnswerMoves
<1>4. ASSUME Exists, IF IsPaused THEN Woken ELSE UNCHANGED nodeVars, Goto(c, "reread")
      PROVE  LeaseInv'
  <2>1. phase' = "running"
    BY <1>1, <1>4 DEF Exists, IsPaused, Woken, nodeVars, NodeTypeOK, Phases
  <2>2. PICK r : r = [call[c] EXCEPT !.pc = "reread"]
    OBVIOUS
  <2>3. r \in CallRecords /\ r.pc = "reread" /\ r.op = call[c].op /\ r.paused = call[c].paused
    BY <1>1, <2>2 DEF CallRecords
  <2>4. Routed(r) /\ ~Extending(r)
    BY <1>1, <2>3 DEF Routed, Extending
  <2>5. call' = [call EXCEPT ![c] = r] /\ reply' = "none"
    BY <1>4, <2>2 DEF Goto, Becomes
  <2> QED
    BY <1>1, <1>2, <2>1, <2>3, <2>4, <2>5, CallMoves
<1> QED
  BY <1>3, <1>4 DEF Resume, Answers

LEMMA RereadKeeps ==
    ASSUME LeaseInv, Track, NEW c \in Calls, reread(c)
    PROVE  LeaseInv'
<1>1. /\ UNCHANGED <<now, nodeVars, label>> /\ call[c] \in CallRecords
      /\ Routed(call[c]) /\ Met(c) /\ call[c].pc = "reread" /\ NodeTypeOK
  BY InvTypes DEF reread, LeaseInv, At
<1>2. ASSUME NEW a \in Answers, Answer(c, a) PROVE LeaseInv'
  BY <1>1, <1>2, QuietAnswer
<1>3. ASSUME Learn(c) PROVE LeaseInv'
  BY <1>1, <1>3, LearnKeeps DEF Met
<1> QED
  BY <1>2, <1>3 DEF reread, Answers

LEMMA ConnectKeeps ==
    ASSUME LeaseInv, Track, NEW c \in Calls, connect(c)
    PROVE  LeaseInv'
<1>1. /\ UNCHANGED <<now, nodeVars, label>> /\ call[c] \in CallRecords /\ now \in 1..MaxTime
      /\ Routed(call[c]) /\ Met(c) /\ KnowsLease(c) /\ call[c].pc = "extend" /\ NodeTypeOK
  BY InvTypes DEF connect, LeaseInv, At
<1>2. ASSUME NEW a \in Answers, Answer(c, a) PROVE LeaseInv'
  BY <1>1, <1>2, QuietAnswer
<1>3. Connected(c) \in Answers
  BY DEF Connected, Answers
<1>4. ASSUME NEW skew \in -MaxSkew..MaxSkew,
             Becomes(c, [call[c] EXCEPT !.pc = "renew",
                                        !.ttl = IF @ > left(c, skew) THEN @ ELSE left(c, skew)])
      PROVE  LeaseInv'
  <2>0. PICK v \in Int : v = left(c, skew)
    BY LeftCovers
  <2>1. /\ call[c].until # NoDeadline => call[c].until <= now + MaxSkew + v * PerSecond
        /\ call[c].ttl \in Nat /\ call[c].until \in Int /\ PerSecond \in Nat /\ now \in Nat
        /\ MaxSkew \in Nat
    BY <1>1, <2>0, LeftCovers, ClockAssumption, RetentionAssumption, SkewAssumption, WakeBounds
    DEF CallRecords, LastDeadline
  <2>2. PICK s \in Nat : s = (IF call[c].ttl > v THEN call[c].ttl ELSE v)
    BY <2>1
  <2>3. v <= s
    BY <2>1, <2>2
  <2>4. call[c].until <= now + MaxSkew + s * PerSecond
    <3>1. v * PerSecond <= s * PerSecond /\ v * PerSecond \in Int /\ s * PerSecond \in Int
      BY <2>1, <2>3, TimesGrows
    <3>2. s * PerSecond >= 0
      BY <2>1, TimesGrows
    <3>3. PICK y \in Int, z \in Int : y = v * PerSecond /\ z = s * PerSecond
      BY <3>1
    <3> QED
      BY <2>1, <3>1, <3>2, <3>3 DEF NoDeadline
  <2>5. PICK r : r = [call[c] EXCEPT !.pc = "renew", !.ttl = s]
    OBVIOUS
  <2>6. r \in CallRecords /\ r.pc = "renew" /\ r.op = call[c].op /\ r.ttl = s
        /\ r.until = call[c].until /\ r.paused = call[c].paused
    BY <1>1, <2>5 DEF CallRecords
  <2>7. call' = [call EXCEPT ![c] = r] /\ reply' = "none"
    BY <1>1, <1>4, <2>0, <2>2, <2>5 DEF Becomes, CallRecords
  <2>8. Routed(r) /\ Extending(r) /\ Extending(call[c]) /\ "running" \in seen[c]
    BY <1>1, <2>6 DEF Routed, Extending, Met
  <2>9. c \notin touched' => deadline' \in {r.until, NoDeadline}
    <3>1. call'[c].pc = "renew"
      BY <2>6, <2>7, InvTypes
    <3>2. c \in touched => c \in touched'
      BY <1>1, <3>1 DEF Track
    <3> QED
      BY <1>1, <2>6, <2>8, <3>2, QuietNode DEF KnowsLease
  <2> QED
    BY <1>1, <2>4, <2>6, <2>7, <2>8, <2>9, QuietNode, CallMoves
<1> QED
  BY <1>2, <1>3, <1>4 DEF connect

LEMMA RenewKeeps ==
    ASSUME LeaseInv, Track, NEW c \in Calls, Renew(c)
    PROVE  LeaseInv'
<1>1. /\ UNCHANGED <<now, label>> /\ call[c] \in CallRecords /\ now \in 1..MaxTime
      /\ NodeTypeOK /\ Capped
  BY InvTypes DEF Renew, LeaseInv
<1>2. \E a \in Answers : Answer(c, a)
  BY DEF Renew, Answers, Connected
<1>3. NodeTypeOK' /\ Capped'
  <2>1. CASE UNCHANGED nodeVars
    BY <1>1, <2>1, QuietNode
  <2>2. CASE /\ Leased /\ UNCHANGED phase
             /\ deadline' = now + granted(call[c].ttl) * PerSecond
             /\ onExpire' = IF call[c].expire = Keep THEN onExpire ELSE call[c].expire
    <3>1. call[c].ttl \in Nat /\ call[c].expire \in Actions \cup {Keep}
      BY <1>1 DEF CallRecords
    <3>2. deadline' \in 1..LastDeadline /\ deadline' <= now + MaxTTL * PerSecond
      BY <1>1, <2>2, <3>1, GrantBounds, ClockAssumption, RetentionAssumption DEF LastDeadline
    <3> QED
      BY <1>1, <2>2, <3>1, <3>2 DEF NodeTypeOK, Leased, NoDeadline, Capped
  <2> QED
    BY <2>1, <2>2 DEF Renew
<1> QED
  BY <1>1, <1>2, <1>3, AnswerMoves

LEMMA ReleaseKeeps ==
    ASSUME LeaseInv, Track, NEW c \in Calls, Release(c)
    PROVE  LeaseInv'
<1>1. /\ UNCHANGED <<now, onExpire, label>> /\ now \in 1..MaxTime
      /\ NodeTypeOK /\ Capped
  BY InvTypes DEF Release, LeaseInv
<1>2. \E a \in Answers : Answer(c, a)
  BY DEF Release, Answers
<1>3. NodeTypeOK' /\ Capped'
  BY <1>1, WakeBounds, ClockAssumption, RetentionAssumption
  DEF Release, NodeTypeOK, Phases, NoDeadline, LastDeadline, Capped, Leased
<1> QED
  BY <1>1, <1>2, <1>3, AnswerMoves

LEMMA GetKeeps ==
    ASSUME LeaseInv, Track, NEW c \in Calls, getSandbox(c)
    PROVE  LeaseInv'
<1>1. UNCHANGED <<now, nodeVars, label>> /\ \E a \in Answers : Answer(c, a)
  BY DEF getSandbox, Answers
<1> QED
  BY <1>1, QuietAnswer

LEMMA MetricsKeeps ==
    ASSUME LeaseInv, Track, NEW c \in Calls, readEnvdMetrics(c)
    PROVE  LeaseInv'
<1>1. /\ UNCHANGED <<now, nodeVars, label>> /\ call[c] \in CallRecords
      /\ Routed(call[c]) /\ call[c].pc \in {"metrics", "sample"}
  BY InvTypes DEF readEnvdMetrics, LeaseInv
<1>2. ASSUME NEW a \in Answers, Answer(c, a) PROVE LeaseInv'
  BY <1>1, <1>2, QuietAnswer
<1>3. ASSUME Goto(c, "sample") PROVE LeaseInv'
  <2>1. PICK r : r = [call[c] EXCEPT !.pc = "sample"]
    OBVIOUS
  <2>2. r \in CallRecords /\ r.pc = "sample" /\ r.op = call[c].op /\ r.paused = call[c].paused
    BY <1>1, <2>1 DEF CallRecords
  <2>3. Routed(r) /\ ~Extending(r) /\ r.pc # "reread"
    BY <1>1, <2>2 DEF Routed, Extending
  <2> QED
    BY <1>1, <1>3, <2>1, <2>2, <2>3, QuietGoto DEF Goto
<1> QED
  BY <1>2, <1>3 DEF readEnvdMetrics, Answers

\* The lease or the archive ends, the publisher or the clock moves.
LEMMA NodeKeeps ==
    ASSUME LeaseInv, Track, Lapse \/ Expire \/ PublishPhase \/ Tick
    PROVE  LeaseInv'
<1>1. /\ UNCHANGED call /\ reply' = "none" /\ call \in [Calls -> CallRecords]
      /\ now \in 1..MaxTime /\ NodeTypeOK /\ Capped
  BY InvTypes DEF Lapse, Expire, PublishPhase, Tick, LeaseInv
<1>2. NodeTypeOK' /\ now' \in 1..MaxTime /\ now <= now' /\ Capped'
  <2>1. CASE Lapse \/ Expire
    <3>1. now + Retention \in 0..LastDeadline /\ NoDeadline \in 0..LastDeadline
      BY <1>1, WakeBounds, ClockAssumption, RetentionAssumption DEF LastDeadline, NoDeadline
    <3>2. UNCHANGED <<now, onExpire, label>> /\ deadline' \in {NoDeadline, now + Retention}
          /\ (phase' = "archived" \/ (phase' = "gone" /\ deadline' = NoDeadline))
      BY <2>1 DEF Lapse, Expire
    <3> QED
      BY <1>1, <3>1, <3>2 DEF NodeTypeOK, Phases, Capped, Leased
  <2>2. CASE PublishPhase
    BY <1>1, <2>2 DEF PublishPhase, NodeTypeOK, nodeVars, Capped, Leased
  <2>3. CASE Tick
    <3>1. /\ deadline' = deadline /\ deadline \in Int /\ now' = now + 1 /\ now' \in 1..MaxTime
          /\ MaxTTL * PerSecond \in Int
      BY <1>1, <2>3, WakeBounds, ClockAssumption, RetentionAssumption
      DEF Tick, nodeVars, NodeTypeOK, LastDeadline
    <3> QED
      BY <1>1, <2>3, <3>1 DEF Tick, NodeTypeOK, nodeVars, Capped, Leased
  <2> QED
    BY <2>1, <2>2, <2>3
<1>3. \A d \in Calls : Routed(call[d])' /\ Met(d)' /\ KnowsLease(d)'
  BY <1>1, <1>2, OtherKeeps
<1>4. LeaseTypeOK'
  BY <1>1, <1>2, HistoryTypes DEF NodeTypeOK, LeaseTypeOK, CallRecords
<1> QED
  BY <1>2, <1>3, <1>4 DEF LeaseInv

\* Every call knows what it needs of the sandbox and its lease.
THEOREM LeaseInvariant == LeaseSpec => []LeaseInv
<1>1. LeaseInit => LeaseInv
  <2> SUFFICES ASSUME LeaseInit PROVE LeaseInv
    OBVIOUS
  <2>1. call \in [Calls -> CallRecords] /\ \A c \in Calls : call[c] = IdleCall
    BY IdleIsRecord DEF LeaseInit
  <2>2. deadline \in 1..LastDeadline /\ deadline <= now + MaxTTL * PerSecond /\ now \in 1..MaxTime
    BY WakeBounds, ClockAssumption, RetentionAssumption DEF LeaseInit, LastDeadline
  <2>3. LeaseTypeOK
    BY <2>1, <2>2 DEF LeaseInit, LeaseTypeOK, CallRecords, Phases, NoDeadline
  <2>4. ASSUME NEW c \in Calls PROVE Routed(call[c]) /\ Met(c) /\ KnowsLease(c)
    BY <2>1, IdleIsRecord DEF Met, KnowsLease, Extending
  <2> QED
    BY <2>2, <2>3, <2>4 DEF LeaseInv, Capped
<1>2. LeaseInv /\ [LeaseNext]_leaseVars => LeaseInv'
  <2> SUFFICES ASSUME LeaseInv, [LeaseNext]_leaseVars PROVE LeaseInv'
    OBVIOUS
  <2>1. CASE UNCHANGED leaseVars
    <3>1. UNCHANGED <<now, phase, deadline, onExpire, label, call, reply, seen, touched>>
      BY <2>1 DEF leaseVars, nodeVars
    <3> QED
      BY <3>1 DEF LeaseInv, LeaseTypeOK, Capped, Leased, Routed, Met, KnowsLease, Extending
  <2>2. CASE LeaseNext
    <3>1. Track
      BY <2>2 DEF LeaseNext
    <3>2. ASSUME NEW c \in Calls, Requested(c) \/ Handle(c) PROVE LeaseInv'
      BY <3>1, <3>2, RequestedKeeps, LookupKeeps, IsPausedKeeps, PauseKeeps, ReadKeeps,
         ResumeKeeps, RereadKeeps, ConnectKeeps, RenewKeeps, ReleaseKeeps, GetKeeps, MetricsKeeps
      DEF Handle
    <3> QED
      BY <2>2, <3>1, <3>2, NodeKeeps DEF LeaseNext
  <2> QED
    BY <2>1, <2>2
<1> QED
  BY <1>1, <1>2, PTL DEF LeaseSpec

\* A call is answered in a step of its own.
LEMMA AnsweredHandles ==
    ASSUME LeaseInv, LeaseNext, NEW c \in Calls, Answered(c)
    PROVE  Handle(c) /\ Track
<1>1. call \in [Calls -> CallRecords] /\ call'[c] # call[c] /\ call[c].pc # "idle"
  BY InvTypes DEF Answered
<1>2. ASSUME NEW d \in Calls, Requested(d) \/ Handle(d), d # c PROVE FALSE
  <2>1. (\E r : Becomes(d, r)) \/ (\E a : Answer(d, a))
    BY <1>2 DEF Requested, Call, Handle, lookup, isPaused, Pause, Read, Learn, Resume, reread, connect,
       Renew, Release, getSandbox, readEnvdMetrics, Goto
  <2> QED
    BY <1>1, <1>2, <2>1 DEF Becomes, Answer
<1>3. ~Requested(c)
  BY <1>1 DEF Requested, Call, At
<1>4. ~Lapse /\ ~Expire /\ ~PublishPhase /\ ~Tick
  BY <1>1 DEF Lapse, Expire, PublishPhase, Tick
<1> QED
  BY <1>2, <1>3, <1>4 DEF LeaseNext

\* The calls on a sandbox answer what was true of it while they ran.
THEOREM LeaseAnswersAreTrue == LeaseSpec => AnswersAreTrue
<1> DEFINE True(c) ==
      Answered(c) =>
        LET was(P) == (seen[c] \cup {phase'}) \cap P # {}
            a == reply'
            o == call[c].op
        IN  /\ a \in {"paused", "nosample"} => was({"hibernated", "archived"})
            /\ a \in {"running", "sample", "resumed"} => was({"running"})
            /\ a = "notfound" => was({"gone"})
            /\ a = "conflict" /\ o = "pause" => was({"hibernated", "archived"})
            /\ a = "conflict" /\ o = "timeout" => was({"archived"})
            /\ a = "conflict" /\ o = "resume" => was({"running", "archived"})
            /\ a = "ok" /\ o = "pause" => was({"hibernated", "archived"})
            /\ a = "ok" /\ o = "connect" => was({"running"})
            /\ a = "ok" /\ o = "delete" => was({"gone"})
<1>1. LeaseInv /\ LeaseNext => \A c \in Calls : True(c)
  <2> SUFFICES ASSUME LeaseInv, LeaseNext, NEW c \in Calls, Answered(c) PROVE True(c)
    OBVIOUS
  <2>1. /\ Handle(c) /\ Routed(call[c]) /\ Met(c) /\ NodeTypeOK /\ call[c] \in CallRecords
        /\ call \in [Calls -> CallRecords] /\ call'[c].pc = "idle"
    BY AnsweredHandles, InvTypes DEF LeaseInv, Answered
  <2>2. ASSUME NEW r, Becomes(c, r) PROVE r.pc = "idle"
    BY <2>1, <2>2 DEF Becomes
  <2>3. ASSUME NEW l, Goto(c, l) PROVE l = "idle"
    BY <2>1, <2>2, <2>3 DEF Goto, CallRecords
  <2>4. Exists /\ ~IsPaused => phase = "running"
    BY <2>1 DEF NodeTypeOK, Exists, IsPaused, Phases
  <2> USE DEF Answer, Exists, IsPaused
  <2>5. CASE lookup(c)
    <3>1. UNCHANGED phase /\ \/ ~Exists /\ reply' = "notfound"
                             \/ reply' \in {"none", "missed", "error"}
      BY <2>5 DEF lookup, nodeVars, Becomes, Goto
    <3> QED
      BY <3>1
  <2>6. CASE isPaused(c)
    <3>1. /\ UNCHANGED phase
          /\ \/ ~Exists /\ reply' = "notfound"
             \/ IsPaused /\ reply' = "conflict"
             \/ reply' \in {"none", "assumed"}
      BY <2>6 DEF isPaused, nodeVars, Becomes, Goto
    <3>2. call[c].op = "pause"
      BY <2>1, <2>6 DEF isPaused, At, Routed
    <3> QED
      BY <3>1, <3>2
  <2>7. CASE Pause(c)
    <3>1. call[c].op = "pause"
      BY <2>1, <2>7 DEF Pause, At, Routed
    <3> QED
      BY <2>7, <3>1 DEF Pause
  <2>8. CASE Read(c)
    <3>1. /\ UNCHANGED phase
          /\ \/ ~Exists /\ reply' = "notfound"
             \/ phase = "running" /\ reply' = "conflict" /\ call[c].op = "resume"
             \/ reply' \in {"none", "error"}
      BY <2>4, <2>8 DEF Read, nodeVars, Becomes, Learn
    <3> QED
      BY <3>1
  <2>9. CASE Resume(c)
    <3>1. \/ UNCHANGED phase /\ ~Exists /\ reply' = "notfound"
          \/ reply' \in {"none", "error"}
      BY <2>9 DEF Resume, nodeVars, Becomes, Goto
    <3> QED
      BY <3>1
  <2>10. CASE reread(c)
    <3>1. \/ UNCHANGED phase /\ ~Exists /\ reply' = "notfound"
          \/ reply' \in {"none", "error"}
      BY <2>10 DEF reread, nodeVars, Becomes, Learn
    <3> QED
      BY <3>1
  <2>11. CASE connect(c)
    <3>1. "running" \in seen[c]
      BY <2>1, <2>11 DEF connect, At, Met, Extending, Routed
    <3>2. reply' \in {"none", "ok", "resumed"} /\ call[c].op \in {"connect", "resume"}
      BY <2>1, <2>11 DEF connect, At, Routed, Connected, Becomes
    <3> QED
      BY <3>1, <3>2
  <2>12. CASE Renew(c)
    <3>1. call[c].op \in {"connect", "resume", "timeout"} /\ call[c].pc = "renew"
      BY <2>1, <2>12 DEF Renew, At, Routed
    <3>2. call[c].op # "timeout" => "running" \in seen[c]
      BY <2>1, <3>1 DEF Met, Extending
    <3>3. call[c].op = "timeout" => Connected(c) = "ok"
      BY <2>1 DEF Routed, Connected
    <3>4. \/ reply' = Connected(c)
          \/ phase = "archived" /\ phase' = phase /\ reply' = "conflict"
          \/ phase = "gone" /\ phase' = phase /\ reply' = "notfound"
          \/ reply' = "error"
      BY <2>12 DEF Renew, nodeVars
    <3>5. Connected(c) \in {"ok", "resumed"}
      BY DEF Connected
    <3> QED
      BY <3>1, <3>2, <3>3, <3>4, <3>5
  <2>13. CASE Release(c)
    <3>1. call[c].op = "delete"
      BY <2>1, <2>13 DEF Release, At, Routed
    <3> QED
      BY <2>13, <3>1 DEF Release
  <2>14. CASE getSandbox(c)
    <3>1. /\ UNCHANGED phase
          /\ \/ ~Exists /\ reply' = "notfound"
             \/ IsPaused /\ reply' = "paused"
             \/ phase = "running" /\ reply' = "running"
             \/ reply' = "error"
      BY <2>4, <2>14 DEF getSandbox, nodeVars
    <3> QED
      BY <3>1
  <2>15. CASE readEnvdMetrics(c)
    <3>1. /\ UNCHANGED phase
          /\ \/ ~Exists /\ reply' = "notfound"
             \/ IsPaused /\ reply' = "nosample"
             \/ phase = "running" /\ reply' = "sample"
             \/ reply' \in {"none", "error"}
      BY <2>15 DEF readEnvdMetrics, nodeVars, Becomes, Goto
    <3> QED
      BY <3>1
  <2> QED
    BY <2>1, <2>5, <2>6, <2>7, <2>8, <2>9, <2>10, <2>11, <2>12, <2>13, <2>14, <2>15 DEF Handle
<1>2. LeaseInv /\ [LeaseNext]_leaseVars => [\A c \in Calls : True(c)]_leaseVars
  BY <1>1
<1>3. LeaseInv => LeaseTypeOK
  BY DEF LeaseInv
<1>4. LeaseSpec => [][\A c \in Calls : True(c)]_leaseVars
  BY <1>2, LeaseInvariant, PTL DEF LeaseSpec
<1>5. LeaseSpec => []LeaseTypeOK
  BY <1>3, LeaseInvariant, PTL
<1> QED
  BY <1>4, <1>5, PTL DEF AnswersAreTrue

\* What a renewal of a connect or resume asks the node for.
LEMMA RenewsByGrant ==
    ASSUME LeaseInv, LeaseNext, NEW c \in Calls, Answered(c), At(c, "renew"), deadline' # deadline
    PROVE  /\ Leased /\ UNCHANGED now
           /\ deadline' = now + granted(call[c].ttl) * PerSecond
           /\ onExpire' = IF call[c].expire = Keep THEN onExpire ELSE call[c].expire
<1>1. Handle(c)
  BY AnsweredHandles
<1>2. Renew(c)
  BY <1>1 DEF Handle, At, lookup, isPaused, Pause, Read, Resume, reread, connect, Release,
     getSandbox, readEnvdMetrics
<1> QED
  BY <1>2 DEF Renew, nodeVars

\* connect and resume shorten no lease that was not moved after they read it by
\* more than the API server's clock is off the node's.
THEOREM LeaseIsNotCut == LeaseSpec => LeaseNotCut
<1>1. ASSUME LeaseInv, LeaseNext, NEW c \in Calls \ touched, Renews(c)
      PROVE  deadline' + MaxSkew >= deadline
  <2>1. /\ call[c].pc = "renew" /\ call[c].op # "timeout" /\ call[c] \in CallRecords
        /\ NodeTypeOK /\ now \in 1..MaxTime /\ KnowsLease(c) /\ Capped
    BY <1>1, InvTypes DEF LeaseInv, Renews, At
  <2>2. Leased /\ deadline' = now + granted(call[c].ttl) * PerSecond
    BY <1>1, RenewsByGrant DEF Renews
  <2>3. /\ deadline = call[c].until /\ call[c].until <= now + MaxSkew + call[c].ttl * PerSecond
        /\ deadline <= now + MaxTTL * PerSecond
    BY <1>1, <2>1, <2>2 DEF KnowsLease, Extending, Leased, NodeTypeOK, Phases, Capped
  <2>4. /\ call[c].ttl \in Nat /\ deadline \in Int /\ now \in Int /\ PerSecond \in Nat
        /\ MaxTTL \in Nat /\ MaxTTL * PerSecond \in Int /\ call[c].ttl * PerSecond \in Int
        /\ granted(call[c].ttl) * PerSecond \in Int /\ MaxSkew \in Nat
    BY <2>1, WakeBounds, GrantBounds, ClockAssumption, RetentionAssumption, SkewAssumption,
       TTLAssumption, TimesGrows
    DEF CallRecords, NodeTypeOK, LastDeadline
  <2>5. CASE call[c].ttl = 0
    <3>1. call[c].ttl * PerSecond = 0
      BY <2>4, <2>5
    <3>2. granted(call[c].ttl) * PerSecond >= 0
      BY <2>4, GrantBounds
    <3> QED
      BY <2>2, <2>3, <2>4, <3>1, <3>2
  <2>6. CASE call[c].ttl > MaxTTL
    <3>1. granted(call[c].ttl) = MaxTTL
      BY <2>4, <2>6 DEF granted
    <3> QED
      BY <2>2, <2>3, <2>4, <3>1
  <2>7. CASE call[c].ttl \in 1..MaxTTL
    <3>1. granted(call[c].ttl) = call[c].ttl
      BY <2>4, <2>7 DEF granted
    <3> QED
      BY <2>2, <2>3, <2>4, <3>1
  <2> QED
    BY <2>4, <2>5, <2>6, <2>7
<1>2. LeaseInv /\ [LeaseNext]_leaseVars =>
         [\A c \in Calls \ touched : Renews(c) => deadline' + MaxSkew >= deadline]_leaseVars
  BY <1>1
<1> QED
  BY <1>2, LeaseInvariant, PTL DEF LeaseSpec, LeaseNotCut

\* A connect or resume that succeeds leaves the lease asked for, up to the part
\* of a second that rounding hides and what the API server's clock is off the
\* node's, and the action asked for.
THEOREM LeaseIsGranted == LeaseSpec => LeaseGranted
<1> DEFINE Granted(c) ==
      LET asked == IF call[c].ttl > MaxTTL THEN MaxTTL ELSE call[c].ttl
      IN  /\ deadline' + MaxSkew > now + (asked - 1) * PerSecond
          /\ call[c].expire # Keep => onExpire' = call[c].expire
<1>1. ASSUME LeaseInv, LeaseNext, NEW c \in Calls \ touched, Answered(c),
             call[c].op \in {"connect", "resume"}, reply' \in {"ok", "resumed"}, Leased
      PROVE  Granted(c)
  <2>1. /\ Handle(c) /\ call[c] \in CallRecords /\ call \in [Calls -> CallRecords]
        /\ NodeTypeOK /\ now \in 1..MaxTime /\ Routed(call[c]) /\ KnowsLease(c)
    BY <1>1, AnsweredHandles, InvTypes DEF LeaseInv
  <2>2. connect(c) \/ Renew(c)
    <3>1. ~lookup(c)
      BY <1>1, <2>1 DEF lookup, Answer, Becomes, Goto
    <3>2. ~isPaused(c) /\ ~Pause(c) /\ ~Release(c) /\ ~getSandbox(c) /\ ~readEnvdMetrics(c)
      BY <1>1, <2>1 DEF isPaused, Pause, Release, getSandbox, readEnvdMetrics, At, Routed
    <3>3. ~Read(c) /\ ~Resume(c) /\ ~reread(c)
      BY <1>1 DEF Read, Resume, reread, Answer, Becomes, Goto, Learn
    <3> QED
      BY <2>1, <3>1, <3>2, <3>3 DEF Handle
  <2>3. PICK asked \in Nat : asked = IF call[c].ttl > MaxTTL THEN MaxTTL ELSE call[c].ttl
    BY <2>1, TTLAssumption DEF CallRecords
  <2>4. /\ call[c].ttl \in Nat /\ MaxTTL \in Nat /\ PerSecond \in Nat \ {0} /\ now \in Int
        /\ asked <= call[c].ttl /\ asked * PerSecond \in Int /\ deadline \in Int
        /\ (asked - 1) * PerSecond = asked * PerSecond - PerSecond /\ MaxSkew \in Nat
    BY <2>1, <2>3, TTLAssumption, ClockAssumption, RetentionAssumption, SkewAssumption, WakeBounds,
       TimesPredecessor
    DEF CallRecords, NodeTypeOK, LastDeadline
  <2>5. CASE connect(c)
    <3>1. PICK skew \in -MaxSkew..MaxSkew :
              call[c].pc = "extend" /\ ~needsRenew(c, skew) /\ UNCHANGED <<now, nodeVars, label>>
      BY <1>1, <2>5 DEF connect, At, Becomes
    <3>2. PICK v \in Int : v = left(c, skew)
      BY <1>1, LeftCovers
    <3>3. call[c].expire = Keep /\ ~(call[c].ttl > v)
      BY <3>1, <3>2 DEF needsRenew
    <3>4. deadline' = deadline /\ deadline = call[c].until /\ deadline # NoDeadline
      BY <1>1, <2>1, <3>1 DEF nodeVars, KnowsLease, Extending, Leased, NodeTypeOK, Phases
    <3>5. call[c].until + MaxSkew > now + (v - 1) * PerSecond
      BY <1>1, <3>2, <3>4, LeftCovers
    <3>6. asked - 1 <= v - 1 /\ asked - 1 \in Int /\ v - 1 \in Int
      BY <2>4, <3>3
    <3>7. /\ (asked - 1) * PerSecond <= (v - 1) * PerSecond
          /\ (asked - 1) * PerSecond \in Int /\ (v - 1) * PerSecond \in Int
      BY <2>4, <3>6, TimesGrows
    <3>8. deadline' + MaxSkew > now + (asked - 1) * PerSecond
      BY <2>4, <3>4, <3>5, <3>7
    <3> QED
      BY <2>3, <3>3, <3>8
  <2>6. CASE Renew(c)
    <3>1. /\ deadline' = now + granted(call[c].ttl) * PerSecond
          /\ onExpire' = IF call[c].expire = Keep THEN onExpire ELSE call[c].expire
      BY <1>1, <2>6 DEF Renew, Answer
    <3>2. granted(call[c].ttl) \in Nat /\ asked <= granted(call[c].ttl)
      BY <2>3, <2>4, GrantBounds DEF granted
    <3>3. asked * PerSecond <= granted(call[c].ttl) * PerSecond
          /\ granted(call[c].ttl) * PerSecond \in Int
      BY <2>4, <3>2, TimesGrows
    <3>4. deadline' + MaxSkew > now + (asked - 1) * PerSecond
      <4>1. PICK x \in Int, y \in Int : x = asked * PerSecond /\ y = granted(call[c].ttl) * PerSecond
        BY <2>4, <3>3
      <4>2. x <= y /\ deadline' = now + y /\ (asked - 1) * PerSecond = x - PerSecond
        BY <2>4, <3>1, <3>3, <4>1
      <4> QED
        BY <2>4, <4>2
    <3> QED
      BY <2>3, <3>1, <3>4
  <2> QED
    BY <2>2, <2>5, <2>6
<1>2. LeaseInv /\ [LeaseNext]_leaseVars =>
         [\A c \in Calls \ touched :
             /\ Answered(c)
             /\ call[c].op \in {"connect", "resume"}
             /\ reply' \in {"ok", "resumed"}
             /\ Leased
             => Granted(c)]_leaseVars
  BY <1>1
<1> QED
  BY <1>2, LeaseInvariant, PTL DEF LeaseSpec, LeaseGranted
=============================================================================
