--------------------------- MODULE ReadPathProofs ---------------------------
(***************************************************************************)
(* Proofs about ReadPath, for any claims, names, nodes and requests: what  *)
(* a request found is on the node it was found on, a claim that has        *)
(* returned is never answered "not found", and what a caller is told is    *)
(* over is over.                                                           *)
(*                                                                         *)
(* The three rest on one inductive invariant.  Its parts are what the      *)
(* properties leave out: a published row or an index entry always names a  *)
(* claim's own node, a request's hit matches its key whatever was          *)
(* published meanwhile, and until a sweep of the live nodes has asked the  *)
(* owner of a claim the request is entitled to, that node is still to be   *)
(* asked.                                                                  *)
(***************************************************************************)
EXTENDS ReadPath, TLAPS

OpRecords ==
    [key : Keys \cup {NoKey}, pc : Steps, node : Nodes \cup {NoNode},
     hit : Ids \cup {NoId}, todo : SUBSET Nodes,
     noId : BOOLEAN, held : SUBSET Ids, excused : BOOLEAN, answer : Answers]

ClaimRecords ==
    [name : Names, node : Nodes \cup {NoNode},
     state : {"unborn", "delivered", "named", "live", "gone"}]

\* A claim has a node from its delivery on.
PlacedClaims ==
    \A id \in Ids : claim[id].state # "unborn" => claim[id].node \in Nodes

\* Rows and index entries name a delivered claim's own node, however stale.
RowsNameOwner ==
    \A n \in Nodes : \A id \in rows[n] : claim[id].state # "unborn" /\ claim[id].node = n

IndexNamesOwner ==
    \A id \in Ids : known[id] # NoNode => claim[id].state # "unborn" /\ known[id] = claim[id].node

\* What a request found is what it looked for, on the claim's own node.
HitIsOwned(r) ==
    r.hit # NoId => /\ Matches(r.hit, r.key)
                    /\ claim[r.hit].state # "unborn"
                    /\ claim[r.hit].node = r.node

\* The claims a request is entitled to are live, and until it has asked their
\* nodes it has still to ask them.
HeldIsSought(r) ==
    /\ \A id \in r.held : claim[id].state = "live" /\ Matches(id, r.key)
    /\ r.pc = "live" /\ ~r.excused => \A id \in r.held : claim[id].node \in r.todo

\* What the answers say of the claims.
AnswerIsTrue(r) ==
    /\ r.answer = "missing" /\ ~r.excused => r.held = {}
    /\ r.answer \in {"deleted", "gone"} => r.hit # NoId /\ claim[r.hit].state = "gone"
    /\ r.answer = "gone" /\ r.key \in Ids => r.held = {}

\* How far a request got, and what it has by then.
Progress(r) ==
    /\ r.pc # "idle" => r.key \in Keys
    /\ r.pc \in {"remember", "act"} => r.hit # NoId
    /\ r.pc \in {"idle", "indexRows", "indexLive", "rows", "live"} => r.hit = NoId
    /\ r.answer # "none" => r.pc = "done"

GoodOp(r) == Progress(r) /\ HitIsOwned(r) /\ HeldIsSought(r) /\ AnswerIsTrue(r)

GoodOps == \A o \in Ops : GoodOp(op[o])

ReadInv == TypeOK /\ PlacedClaims /\ RowsNameOwner /\ IndexNamesOwner /\ GoodOps

LEMMA InvTypes ==
    ASSUME ReadInv
    PROVE  /\ claim \in [Ids -> ClaimRecords]
           /\ op \in [Ops -> OpRecords]
           /\ \A id \in Ids : claim[id] \in ClaimRecords
           /\ \A o \in Ops : op[o] \in OpRecords
BY DEF ReadInv, TypeOK, ClaimRecords, OpRecords

-----------------------------------------------------------------------------
(* A request's own steps.                                                  *)

\* A request that becomes another good record of its own, the claims being as
\* they were, leaves all requests good.
LEMMA OneRequestMoves ==
    ASSUME ReadInv, NEW o \in Ops, NEW r \in OpRecords, GoodOp(r),
           op' = [op EXCEPT ![o] = r], UNCHANGED claim
    PROVE  op' \in [Ops -> OpRecords] /\ GoodOps'
<1>1. op \in [Ops -> OpRecords] /\ \A p \in Ops : GoodOp(op[p])
  BY InvTypes DEF ReadInv, GoodOps
<1>2. op' \in [Ops -> OpRecords]
  BY <1>1
<1>3. ASSUME NEW p \in Ops PROVE GoodOp(op[p])'
  <2>1. op'[p] = r \/ op'[p] = op[p]
    BY <1>1
  <2> QED
    BY <1>1, <2>1 DEF GoodOp, Progress, HitIsOwned, HeldIsSought, AnswerIsTrue, Matches
<1> QED
  BY <1>2, <1>3 DEF GoodOps

\* A step of a request that changes neither claims, rows nor index.
LEMMA QuietRequest ==
    ASSUME ReadInv, NEW o \in Ops, NEW r \in OpRecords, GoodOp(r),
           op' = [op EXCEPT ![o] = r], UNCHANGED <<claim, rows, listed, bare, known>>
    PROVE  ReadInv'
<1>1. op' \in [Ops -> OpRecords] /\ GoodOps'
  BY OneRequestMoves
<1> QED
  BY <1>1 DEF ReadInv, TypeOK, OpRecords, PlacedClaims, RowsNameOwner, IndexNamesOwner

\* A row or a live answer that matches makes a good hit.
LEMMA HitIsGood ==
    ASSUME ReadInv, NEW o \in Ops, op[o].pc \in {"indexRows", "indexLive", "rows", "live"},
           NEW next \in {"remember", "act"}, NEW id \in Ids, NEW n \in Nodes,
           NEW noId \in BOOLEAN,
           Matches(id, op[o].key), claim[id].state # "unborn", claim[id].node = n,
           Hit(o, next, id, n, noId), UNCHANGED <<claim, rows, listed, bare, known>>
    PROVE  ReadInv'
<1> DEFINE r == [op[o] EXCEPT !.pc = next, !.hit = id, !.node = n, !.todo = {}, !.noId = noId]
<1>1. op[o] \in OpRecords /\ GoodOp(op[o]) /\ op \in [Ops -> OpRecords]
  BY InvTypes DEF ReadInv, GoodOps
<1>2. op' = [op EXCEPT ![o] = r]
  BY <1>1 DEF Hit
<1>3. r \in OpRecords
  BY <1>1 DEF OpRecords, Steps
<1>4. /\ r.pc = next /\ r.hit = id /\ r.node = n /\ r.key = op[o].key
      /\ r.held = op[o].held /\ r.excused = op[o].excused /\ r.answer = op[o].answer
  BY <1>1 DEF OpRecords
<1>5. op[o].answer = "none" /\ op[o].key \in Keys
  BY <1>1 DEF GoodOp, Progress
<1>6. GoodOp(r)
  <2> HIDE DEF r
  <2>1. Progress(r)
    BY <1>4, <1>5, KeysAssumption DEF Progress
  <2>2. HitIsOwned(r)
    BY <1>4 DEF HitIsOwned
  <2>3. HeldIsSought(r) /\ AnswerIsTrue(r)
    BY <1>1, <1>4, <1>5 DEF GoodOp, HeldIsSought, AnswerIsTrue
  <2> QED
    BY <2>1, <2>2, <2>3 DEF GoodOp
<1> HIDE DEF r
<1> QED
  BY <1>2, <1>3, <1>6, QuietRequest

\* An answer that is true of the claims ends the request well.
LEMMA AnswerIsGood ==
    ASSUME ReadInv, NEW o \in Ops, NEW a \in Answers, op[o].pc # "idle",
           a = "missing" /\ ~op[o].excused => op[o].held = {},
           a \in {"deleted", "gone"} => op[o].hit # NoId /\ claim[op[o].hit].state = "gone",
           a = "gone" /\ op[o].key \in Ids => op[o].held = {}
    PROVE  Answered(op[o], a) \in OpRecords /\ GoodOp(Answered(op[o], a))
<1> DEFINE r == Answered(op[o], a)
<1>1. op[o] \in OpRecords /\ GoodOp(op[o])
  BY InvTypes DEF ReadInv, GoodOps
<1>2. r \in OpRecords
  BY <1>1 DEF OpRecords, Steps, Answered
<1>3. /\ r.pc = "done" /\ r.hit = op[o].hit /\ r.node = op[o].node /\ r.key = op[o].key
      /\ r.held = op[o].held /\ r.excused = op[o].excused /\ r.answer = a
  BY <1>1 DEF OpRecords, Answered
<1>4. GoodOp(r)
  <2> HIDE DEF r
  <2> QED
    BY <1>1, <1>3 DEF GoodOp, Progress, HitIsOwned, HeldIsSought, AnswerIsTrue
<1> QED
  BY <1>2, <1>4

LEMMA AnswerStep ==
    ASSUME ReadInv, NEW o \in Ops, NEW a \in Answers, op[o].pc # "idle",
           a = "missing" /\ ~op[o].excused => op[o].held = {},
           a \in {"deleted", "gone"} => op[o].hit # NoId /\ claim[op[o].hit].state = "gone",
           a = "gone" /\ op[o].key \in Ids => op[o].held = {},
           op' = [op EXCEPT ![o] = Answered(@, a)],
           UNCHANGED <<claim, rows, listed, bare, known>>
    PROVE  ReadInv'
<1>1. Answered(op[o], a) \in OpRecords /\ GoodOp(Answered(op[o], a))
  BY AnswerIsGood
<1>2. op' = [op EXCEPT ![o] = Answered(op[o], a)]
  BY InvTypes
<1> QED
  BY <1>1, <1>2, QuietRequest

\* A request that starts a sweep: when it is not excused every node is asked,
\* so the owner of each claim it is entitled to is.
LEMMA SweepIsGood ==
    ASSUME ReadInv, NEW r \in OpRecords, NEW pc \in {"rows", "live"},
           r.key \in Keys, r.hit = NoId, r.answer = "none",
           \A id \in r.held : claim[id].state = "live" /\ Matches(id, r.key)
    PROVE  Sweep(r, pc) \in OpRecords /\ GoodOp(Sweep(r, pc))
<1> DEFINE q == Sweep(r, pc)
<1>1. q \in OpRecords
  BY DEF OpRecords, Steps, Sweep, ReadInv, TypeOK
<1>2. /\ q.pc = pc /\ q.hit = NoId /\ q.node = r.node /\ q.key = r.key
      /\ q.held = r.held /\ q.excused = (r.excused \/ listed # Nodes) /\ q.answer = "none"
      /\ q.todo = listed
  BY DEF OpRecords, Sweep
<1>3. \A id \in r.held : claim[id].node \in Nodes
  BY DEF OpRecords, ReadInv, PlacedClaims
<1>4. ~q.excused => q.todo = Nodes
  BY <1>2
<1>5. GoodOp(q)
  <2> HIDE DEF q
  <2>1. Progress(q) /\ HitIsOwned(q)
    BY <1>2 DEF Progress, HitIsOwned
  <2>2. HeldIsSought(q)
    BY <1>2, <1>3, <1>4 DEF HeldIsSought
  <2>3. AnswerIsTrue(q)
    BY <1>2 DEF AnswerIsTrue
  <2> QED
    BY <2>1, <2>2, <2>3 DEF GoodOp
<1> QED
  BY <1>1, <1>5

\* A request that is still looking may start a sweep.
LEMMA SweepStep ==
    ASSUME ReadInv, NEW o \in Ops, NEW pc \in {"rows", "live"},
           op[o].pc \in {"indexLive", "rows"}, op[o].hit = NoId,
           op' = [op EXCEPT ![o] = Sweep(@, pc)],
           UNCHANGED <<claim, rows, listed, bare, known>>
    PROVE  ReadInv'
<1>1. op[o] \in OpRecords /\ GoodOp(op[o])
  BY InvTypes DEF ReadInv, GoodOps
<1>2. Sweep(op[o], pc) \in OpRecords /\ GoodOp(Sweep(op[o], pc))
  BY <1>1, SweepIsGood DEF GoodOp, Progress, HeldIsSought
<1>3. op' = [op EXCEPT ![o] = Sweep(op[o], pc)]
  BY InvTypes
<1> QED
  BY <1>2, <1>3, QuietRequest

LEMMA ResolveStep ==
    ASSUME ReadInv, NEW o \in Ops, NEW key \in Keys, resolve(o, key)
    PROVE  ReadInv'
<1> DEFINE held == {id \in Ids : claim[id].state = "live" /\ Matches(id, key)}
           r == [NoRequest EXCEPT !.key = key, !.held = held]
           q == IF known[key] = NoNode THEN Sweep(r, "rows")
                ELSE [r EXCEPT !.pc = "indexRows", !.node = known[key]]
<1>1. op' = [op EXCEPT ![o] = q] /\ UNCHANGED <<claim, rows, listed, bare>>
  BY DEF resolve
<1>2. /\ known' \in [Keys -> Nodes \cup {NoNode}]
      /\ \A id \in Ids : known'[id] \in {known[id], NoNode}
  BY DEF resolve, Index!Lookup, Index!ForgetsOnly, Keys
<1>3. /\ r \in OpRecords /\ r.key = key /\ r.hit = NoId /\ r.answer = "none" /\ r.held = held
      /\ r.pc = "idle"
  BY DEF OpRecords, NoRequest, Steps, Answers
<1>4. \A id \in held : claim[id].state = "live" /\ Matches(id, key)
  OBVIOUS
<1>5. q \in OpRecords /\ GoodOp(q)
  <2>1. CASE known[key] = NoNode
    <3>1. q = Sweep(r, "rows")
      BY <2>1
    <3> HIDE DEF r, q, held
    <3> QED
      BY <1>3, <1>4, <3>1, SweepIsGood
  <2>2. CASE known[key] # NoNode
    <3> HIDE DEF r, held
    <3> DEFINE t == [r EXCEPT !.pc = "indexRows", !.node = known[key]]
    <3>1. q = t
      BY <2>2
    <3>2. known[key] \in Nodes
      BY <2>2 DEF ReadInv, TypeOK
    <3>3. t \in OpRecords
      BY <1>3, <3>2 DEF OpRecords, Steps
    <3>4. /\ t.pc = "indexRows" /\ t.key = key /\ t.hit = NoId /\ t.answer = "none"
          /\ t.held = held
      BY <1>3 DEF OpRecords
    <3> HIDE DEF q, t
    <3>5. GoodOp(t)
      BY <1>4, <3>4 DEF GoodOp, Progress, HitIsOwned, HeldIsSought, AnswerIsTrue
    <3> QED
      BY <3>1, <3>3, <3>5
  <2> QED
    BY <2>1, <2>2
<1> HIDE DEF q, r, held
<1>6. op' \in [Ops -> OpRecords] /\ GoodOps'
  BY <1>1, <1>5, OneRequestMoves
<1>7. IndexNamesOwner'
  BY <1>1, <1>2 DEF ReadInv, IndexNamesOwner
<1> QED
  BY <1>1, <1>2, <1>6, <1>7 DEF ReadInv, TypeOK, OpRecords, PlacedClaims, RowsNameOwner

\* A published row that matches is a delivered claim on that node, and so is
\* what the node itself answers.
LEMMA FoundIsOwned ==
    ASSUME ReadInv, NEW o \in Ops, NEW id \in Ids, NEW n,
           matchOnNode(o, n, id) \/ liveOnNode(o, n, id)
    PROVE  n \in Nodes /\ Matches(id, op[o].key) /\ claim[id].state # "unborn" /\ claim[id].node = n
BY DEF matchOnNode, liveOnNode, Alive, ReadInv, TypeOK, RowsNameOwner

LEMMA IndexedReads ==
    ASSUME ReadInv, NEW o \in Ops, readIndexRows(o) \/ readIndexLive(o)
    PROVE  ReadInv'
<1>1. op[o] \in OpRecords /\ GoodOp(op[o]) /\ op \in [Ops -> OpRecords]
  BY InvTypes DEF ReadInv, GoodOps
<1>2. UNCHANGED <<claim, rows, listed, bare, known>>
  BY DEF readIndexRows, readIndexLive
<1>3. op[o].pc \in {"indexRows", "indexLive"}
  BY DEF readIndexRows, readIndexLive
<1>4. ASSUME NEW id \in Ids, NEW noId \in BOOLEAN,
             matchOnNode(o, op[o].node, id) \/ liveOnNode(o, op[o].node, id),
             Hit(o, "act", id, op[o].node, noId)
      PROVE  ReadInv'
  <2>1. /\ op[o].node \in Nodes /\ Matches(id, op[o].key) /\ claim[id].state # "unborn"
        /\ claim[id].node = op[o].node
    BY <1>4, FoundIsOwned
  <2> QED
    BY <1>2, <1>3, <1>4, <2>1, HitIsGood
<1>5. CASE op[o].pc = "indexRows" /\ op' = [op EXCEPT ![o].pc = "indexLive"]
  <2> DEFINE r == [op[o] EXCEPT !.pc = "indexLive"]
  <2>1. op' = [op EXCEPT ![o] = r]
    BY <1>1, <1>5
  <2>2. r \in OpRecords
    BY <1>1 DEF OpRecords, Steps
  <2>3. /\ r.pc = "indexLive" /\ r.key = op[o].key /\ r.hit = op[o].hit /\ r.held = op[o].held
        /\ r.answer = op[o].answer /\ r.excused = op[o].excused /\ r.node = op[o].node
    BY <1>1 DEF OpRecords
  <2> HIDE DEF r
  <2>4. GoodOp(r)
    BY <1>1, <1>5, <2>3 DEF GoodOp, Progress, HitIsOwned, HeldIsSought, AnswerIsTrue
  <2> QED
    BY <1>2, <2>1, <2>2, <2>4, QuietRequest
<1>6. CASE op[o].pc = "indexLive" /\ op' = [op EXCEPT ![o] = Sweep(@, "rows")]
  <2>1. op[o].hit = NoId
    BY <1>1, <1>6 DEF GoodOp, Progress
  <2> QED
    BY <1>2, <1>6, <2>1, SweepStep
<1>7. CASE readIndexRows(o)
  <2>1. ASSUME NEW id \in Ids, matchOnNode(o, op[o].node, id),
               Hit(o, "act", id, op[o].node, op[o].node \in bare)
        PROVE  ReadInv'
    <3>1. (op[o].node \in bare) \in BOOLEAN
      OBVIOUS
    <3> QED
      BY <1>4, <2>1, <3>1
  <2> QED
    BY <1>5, <1>7, <2>1 DEF readIndexRows
<1>8. CASE readIndexLive(o)
  BY <1>4, <1>6, <1>8 DEF readIndexLive
<1> QED
  BY <1>7, <1>8

\* A node crossed off a sweep: of the live nodes, one that was asked and does
\* not hold what the request is entitled to, or else the request is excused.
LEMMA CrossOff ==
    ASSUME ReadInv, NEW o \in Ops, NEW n \in Nodes, NEW excused \in BOOLEAN,
           op[o].pc \in {"rows", "live"},
           op[o].excused => excused,
           op[o].pc = "live" /\ ~excused => \A id \in op[o].held : claim[id].node # n,
           op' = [op EXCEPT ![o].todo = @ \ {n}, ![o].excused = excused],
           UNCHANGED <<claim, rows, listed, bare, known>>
    PROVE  ReadInv'
<1> DEFINE r == [op[o] EXCEPT !.todo = @ \ {n}, !.excused = excused]
<1>1. op[o] \in OpRecords /\ GoodOp(op[o]) /\ op \in [Ops -> OpRecords]
  BY InvTypes DEF ReadInv, GoodOps
<1>2. op' = [op EXCEPT ![o] = r]
  BY <1>1
<1>3. r \in OpRecords
  BY <1>1 DEF OpRecords
<1>4. /\ r.pc = op[o].pc /\ r.key = op[o].key /\ r.hit = op[o].hit /\ r.held = op[o].held
      /\ r.answer = op[o].answer /\ r.excused = excused /\ r.node = op[o].node
      /\ r.todo = op[o].todo \ {n}
  BY <1>1 DEF OpRecords
<1>5. GoodOp(r)
  <2> HIDE DEF r
  <2>1. op[o].answer = "none"
    BY <1>1 DEF GoodOp, Progress
  <2>2. Progress(r) /\ HitIsOwned(r) /\ AnswerIsTrue(r)
    BY <1>1, <1>4, <2>1 DEF GoodOp, Progress, HitIsOwned, AnswerIsTrue
  <2>3. HeldIsSought(r)
    BY <1>1, <1>4 DEF GoodOp, HeldIsSought
  <2> QED
    BY <2>2, <2>3 DEF GoodOp
<1> HIDE DEF r
<1> QED
  BY <1>2, <1>3, <1>5, QuietRequest

LEMMA SweepRowsStep ==
    ASSUME ReadInv, NEW o \in Ops, NEW n \in Nodes, sweepRows(o, n)
    PROVE  ReadInv'
<1>1. op[o] \in OpRecords /\ op \in [Ops -> OpRecords]
  BY InvTypes
<1>2. op[o].pc = "rows" /\ UNCHANGED <<claim, rows, listed, bare, known>>
  BY DEF sweepRows
<1>3. ASSUME NEW id \in Ids, matchOnNode(o, n, id), Hit(o, "remember", id, n, n \in bare)
      PROVE  ReadInv'
  <2>1. Matches(id, op[o].key) /\ claim[id].state # "unborn" /\ claim[id].node = n
    BY <1>3, FoundIsOwned
  <2>2. (n \in bare) \in BOOLEAN
    OBVIOUS
  <2> QED
    BY <1>2, <1>3, <2>1, <2>2, HitIsGood
<1>4. CASE op' = [op EXCEPT ![o].todo = @ \ {n}]
  <2>1. op' = [op EXCEPT ![o].todo = @ \ {n}, ![o].excused = op[o].excused]
    BY <1>1, <1>4 DEF OpRecords
  <2>2. op[o].excused \in BOOLEAN
    BY <1>1 DEF OpRecords
  <2> QED
    BY <1>2, <2>1, <2>2, CrossOff
<1> QED
  BY <1>3, <1>4 DEF sweepRows

LEMMA SweepLiveStep ==
    ASSUME ReadInv, NEW o \in Ops, NEW n \in Nodes, sweepLive(o, n)
    PROVE  ReadInv'
<1>1. op[o] \in OpRecords /\ op \in [Ops -> OpRecords] /\ GoodOp(op[o])
  BY InvTypes DEF ReadInv, GoodOps
<1>2. op[o].pc = "live" /\ UNCHANGED <<claim, rows, listed, bare, known>>
  BY DEF sweepLive
<1>3. ASSUME NEW id \in Ids, liveOnNode(o, n, id), Hit(o, "remember", id, n, FALSE)
      PROVE  ReadInv'
  <2>1. Matches(id, op[o].key) /\ claim[id].state # "unborn" /\ claim[id].node = n
    BY <1>3, FoundIsOwned
  <2> QED
    BY <1>2, <1>3, <2>1, HitIsGood
<1>4. CASE /\ NotLiveOnNode(o, n)
           /\ op' = [op EXCEPT ![o].todo = @ \ {n}, ![o].excused = @ \/ n \notin listed]
  <2> DEFINE excused == op[o].excused \/ n \notin listed
  <2>1. op' = [op EXCEPT ![o].todo = @ \ {n}, ![o].excused = excused]
    BY <1>1, <1>4 DEF OpRecords
  <2>2. excused \in BOOLEAN /\ (op[o].excused => excused)
    BY <1>1 DEF OpRecords
  <2>3. ~excused => \A id \in op[o].held : claim[id].node # n
    <3> SUFFICES ASSUME n \in listed, NEW id \in op[o].held PROVE claim[id].node # n
      OBVIOUS
    <3>1. id \in Ids /\ claim[id].state = "live" /\ Matches(id, op[o].key)
      BY <1>1 DEF OpRecords, GoodOp, HeldIsSought
    <3> QED
      BY <1>4, <3>1 DEF NotLiveOnNode, liveOnNode, Alive
  <2> HIDE DEF excused
  <2> QED
    BY <1>2, <2>1, <2>2, <2>3, CrossOff
<1>5. CASE op' = [op EXCEPT ![o].todo = @ \ {n}, ![o].excused = TRUE]
  BY <1>2, <1>5, CrossOff
<1> QED
  BY <1>3, <1>4, <1>5 DEF sweepLive

LEMMA SweepsEnd ==
    ASSUME ReadInv, NEW o \in Ops, sweepRowsDone(o) \/ sweepLiveDone(o)
    PROVE  ReadInv'
<1>1. op[o] \in OpRecords /\ GoodOp(op[o])
  BY InvTypes DEF ReadInv, GoodOps
<1>2. CASE sweepRowsDone(o)
  BY <1>1, <1>2, SweepStep DEF sweepRowsDone, GoodOp, Progress
<1>3. CASE sweepLiveDone(o)
  <2>1. ~op[o].excused => op[o].held = {}
    BY <1>1, <1>3 DEF sweepLiveDone, GoodOp, HeldIsSought, OpRecords
  <2> QED
    BY <1>3, <2>1, AnswerStep DEF sweepLiveDone, Answers
<1> QED
  BY <1>2, <1>3

\* What a sweep found is remembered for the key: under a claim id that is the
\* claim itself, so the index names its own node.
LEMMA RememberStep ==
    ASSUME ReadInv, NEW o \in Ops, rememberHit(o)
    PROVE  ReadInv'
<1> DEFINE r == [op[o] EXCEPT !.pc = "act"]
<1>1. op[o] \in OpRecords /\ op \in [Ops -> OpRecords] /\ GoodOp(op[o])
  BY InvTypes DEF ReadInv, GoodOps
<1>2. op[o].pc = "remember" /\ UNCHANGED <<claim, rows, listed, bare>>
  BY DEF rememberHit
<1>3. op' = [op EXCEPT ![o] = r]
  BY <1>1 DEF rememberHit
<1>4. r \in OpRecords
  BY <1>1 DEF OpRecords, Steps
<1>5. /\ r.pc = "act" /\ r.key = op[o].key /\ r.hit = op[o].hit /\ r.held = op[o].held
      /\ r.answer = op[o].answer /\ r.excused = op[o].excused /\ r.node = op[o].node
  BY <1>1 DEF OpRecords
<1> HIDE DEF r
<1>6. GoodOp(r)
  BY <1>1, <1>2, <1>5 DEF GoodOp, Progress, HitIsOwned, HeldIsSought, AnswerIsTrue
<1>7. op' \in [Ops -> OpRecords] /\ GoodOps'
  BY <1>2, <1>3, <1>4, <1>6, OneRequestMoves
<1>8. /\ known' \in [Keys -> Nodes \cup {NoNode}]
      /\ \A id \in Ids : id # op[o].key => known'[id] \in {known[id], NoNode}
      /\ known'[op[o].key] = op[o].node
  BY DEF rememberHit, Index!Remember, Index!ForgetsOnly, Keys
<1>9. /\ op[o].hit \in Ids /\ Matches(op[o].hit, op[o].key)
      /\ claim[op[o].hit].state # "unborn" /\ claim[op[o].hit].node = op[o].node
  BY <1>1, <1>2 DEF OpRecords, GoodOp, Progress, HitIsOwned
<1>10. op[o].key \in Ids => op[o].hit = op[o].key
  BY <1>9, InvTypes, KeysAssumption DEF Matches, ClaimRecords
<1>11. IndexNamesOwner'
  BY <1>2, <1>8, <1>9, <1>10 DEF ReadInv, IndexNamesOwner
<1> QED
  BY <1>2, <1>7, <1>8, <1>11 DEF ReadInv, TypeOK, OpRecords, PlacedClaims, RowsNameOwner

-----------------------------------------------------------------------------
(* What the request wanted the row for.                                    *)

\* A hit the node does not hold any more is a claim that has ended.
LEMMA NotHeldIsGone ==
    ASSUME ReadInv, NEW o \in Ops, op[o].pc = "act"
    PROVE  /\ op[o].hit \in Ids
           /\ ~NodeHolds(o) => claim[op[o].hit].state = "gone"
           /\ op[o].key \in Ids => op[o].hit = op[o].key /\ op[o].held \subseteq {op[o].hit}
<1>1. op[o] \in OpRecords /\ GoodOp(op[o])
  BY InvTypes DEF ReadInv, GoodOps
<1>2. /\ op[o].hit \in Ids /\ Matches(op[o].hit, op[o].key)
      /\ claim[op[o].hit].state # "unborn" /\ claim[op[o].hit].node = op[o].node
  BY <1>1 DEF OpRecords, GoodOp, Progress, HitIsOwned
<1>3. claim[op[o].hit] \in ClaimRecords
  BY <1>2, InvTypes
<1>4. ~NodeHolds(o) => claim[op[o].hit].state = "gone"
  BY <1>2, <1>3 DEF NodeHolds, Alive, ClaimRecords
<1>5. \A id \in op[o].held : id \in Ids /\ Matches(id, op[o].key) /\ claim[id].name \in Names
  BY <1>1, InvTypes DEF GoodOp, HeldIsSought, OpRecords, ClaimRecords
<1>6. op[o].key \in Ids => op[o].hit = op[o].key /\ op[o].held \subseteq {op[o].hit}
  BY <1>2, <1>3, <1>5, KeysAssumption DEF Matches, ClaimRecords
<1> QED
  BY <1>2, <1>4, <1>6

\* The kinds of request that leave the claim alone.
LEMMA ActStep ==
    ASSUME ReadInv, NEW o \in Ops,
           Get(o) \/ NodeFails(o) \/ refuseDelete(o) \/ noClaimID(o) \/ e2bVerb(o)
              \/ lifecycleCreate(o)
    PROVE  ReadInv'
<1>1. CASE Get(o)
  BY <1>1, AnswerStep DEF Get, Answers
<1>2. CASE NodeFails(o)
  BY <1>2, AnswerStep DEF NodeFails, Answers
<1>3. CASE refuseDelete(o)
  BY <1>3, AnswerStep DEF refuseDelete, Answers
<1>4. CASE noClaimID(o)
  BY <1>4, AnswerStep DEF noClaimID, Answers
<1>5. CASE Verb(o)
  <2> DEFINE a == verbError(NodeHolds(o))
  <2>1. op[o].pc = "act" /\ op' = [op EXCEPT ![o] = Answered(@, a)]
        /\ UNCHANGED <<claim, rows, listed, bare, known>>
    BY <1>5 DEF Verb
  <2>2. a \in Answers /\ a \in {"acted", "gone"} /\ (a = "gone" => ~NodeHolds(o))
    BY DEF verbError, Answers
  <2>3. op[o] \in OpRecords /\ GoodOp(op[o])
    BY InvTypes DEF ReadInv, GoodOps
  <2>4. a = "gone" => op[o].hit # NoId /\ claim[op[o].hit].state = "gone"
    BY <2>1, <2>2, NotHeldIsGone, KeysAssumption
  <2>5. a = "gone" /\ op[o].key \in Ids => op[o].held = {}
    BY <2>1, <2>2, <2>3, <2>4, NotHeldIsGone DEF GoodOp, HeldIsSought
  <2> HIDE DEF a
  <2> QED
    BY <2>1, <2>2, <2>4, <2>5, AnswerStep
<1> QED
  BY <1>1, <1>2, <1>3, <1>4, <1>5 DEF e2bVerb, lifecycleCreate

\* The claims of `ended` are over.
Ended(ended) ==
    claim' = [id \in Ids |-> IF id \in ended THEN [claim[id] EXCEPT !.state = "gone"]
                             ELSE claim[id]]

LEMMA EndedClaims ==
    ASSUME ReadInv, NEW ended \in SUBSET Ids, Ended(ended),
           \A id \in ended : claim[id].state # "unborn"
    PROVE  /\ claim' \in [Ids -> ClaimRecords]
           /\ \A id \in Ids : /\ claim'[id].name = claim[id].name
                              /\ claim'[id].node = claim[id].node
                              /\ claim'[id].state = IF id \in ended THEN "gone"
                                                    ELSE claim[id].state
           /\ PlacedClaims'
           /\ UNCHANGED rows => RowsNameOwner'
           /\ UNCHANGED known => IndexNamesOwner'
<1>1. \A id \in Ids : claim[id] \in ClaimRecords
  BY InvTypes
<1>2. claim' \in [Ids -> ClaimRecords]
  BY <1>1 DEF Ended, ClaimRecords
<1>3. \A id \in Ids : /\ claim'[id].name = claim[id].name
                      /\ claim'[id].node = claim[id].node
                      /\ claim'[id].state = IF id \in ended THEN "gone"
                                            ELSE claim[id].state
  BY <1>1 DEF Ended, ClaimRecords
<1>4. PlacedClaims'
  BY <1>3 DEF ReadInv, PlacedClaims
<1>5. UNCHANGED rows => RowsNameOwner'
  BY <1>3 DEF ReadInv, TypeOK, RowsNameOwner
<1>6. UNCHANGED known => IndexNamesOwner'
  BY <1>3 DEF ReadInv, IndexNamesOwner
<1> QED
  BY <1>2, <1>3, <1>4, <1>5, <1>6

\* A request that loses its title to the ended claims is as good as before.
LEMMA EndedKeepsGood ==
    ASSUME ReadInv, NEW ended \in SUBSET Ids, Ended(ended),
           \A id \in ended : claim[id].state # "unborn",
           NEW p \in Ops, op'[p] = [op[p] EXCEPT !.held = @ \ ended]
    PROVE  op'[p] \in OpRecords /\ GoodOp(op[p])'
<1>1. op[p] \in OpRecords /\ GoodOp(op[p])
  BY InvTypes DEF ReadInv, GoodOps
<1>2. op'[p] \in OpRecords
  BY <1>1 DEF OpRecords
<1>3. /\ op'[p].pc = op[p].pc /\ op'[p].key = op[p].key /\ op'[p].hit = op[p].hit
      /\ op'[p].node = op[p].node /\ op'[p].todo = op[p].todo
      /\ op'[p].excused = op[p].excused /\ op'[p].answer = op[p].answer
      /\ op'[p].held = op[p].held \ ended
  BY <1>1 DEF OpRecords
<1>4. \A id \in Ids : /\ claim'[id].name = claim[id].name
                      /\ claim'[id].node = claim[id].node
                      /\ claim'[id].state = IF id \in ended THEN "gone"
                                            ELSE claim[id].state
  BY EndedClaims
<1>5. op[p].hit # NoId => op[p].hit \in Ids
  BY <1>1 DEF OpRecords
<1>6. Progress(op[p])'
  BY <1>1, <1>3 DEF GoodOp, Progress
<1>7. HitIsOwned(op[p])'
  BY <1>1, <1>3, <1>4, <1>5 DEF GoodOp, HitIsOwned, Matches
<1>8. HeldIsSought(op[p])'
  <2>1. op[p].held \subseteq Ids
    BY <1>1 DEF OpRecords
  <2> QED
    BY <1>1, <1>3, <1>4, <2>1 DEF GoodOp, HeldIsSought, Matches
<1>9. AnswerIsTrue(op[p])'
  BY <1>1, <1>3, <1>4, <1>5 DEF GoodOp, AnswerIsTrue
<1> QED
  BY <1>2, <1>6, <1>7, <1>8, <1>9 DEF GoodOp

LEMMA ClaimEndsStep ==
    ASSUME ReadInv, NEW id \in Ids, ClaimEnds(id)
    PROVE  ReadInv'
<1>1. claim \in [Ids -> ClaimRecords] /\ op \in [Ops -> OpRecords]
  BY InvTypes
<1>2. UNCHANGED <<rows, listed, bare, known>> /\ claim[id].state = "live"
  BY DEF ClaimEnds
<1>3. Ended({id})
  BY <1>1 DEF ClaimEnds, Ended
<1>4. /\ claim' \in [Ids -> ClaimRecords] /\ PlacedClaims' /\ RowsNameOwner' /\ IndexNamesOwner'
  BY <1>2, <1>3, EndedClaims
<1>5. \A p \in Ops : op'[p] = [op[p] EXCEPT !.held = @ \ {id}]
  BY DEF ClaimEnds
<1>6. \A p \in Ops : op'[p] \in OpRecords /\ GoodOp(op[p])'
  BY <1>2, <1>3, <1>5, EndedKeepsGood
<1>7. op' \in [Ops -> OpRecords]
  BY <1>6 DEF ClaimEnds
<1> QED
  BY <1>2, <1>4, <1>6, <1>7 DEF ReadInv, TypeOK, ClaimRecords, OpRecords, GoodOps

\* Release ends the claim or finds it ended: either way the answer "deleted"
\* is true, and no other request is entitled to the claim any more.
LEMMA ReleaseStep ==
    ASSUME ReadInv, NEW o \in Ops, Release(o)
    PROVE  ReadInv'
<1> DEFINE ended == IF NodeHolds(o) THEN {op[o].hit} ELSE {}
           over(r) == [r EXCEPT !.held = @ \ ended]
<1>1. claim \in [Ids -> ClaimRecords] /\ op \in [Ops -> OpRecords] /\ GoodOp(op[o])
  BY InvTypes DEF ReadInv, GoodOps
<1>2. op[o].pc = "act" /\ UNCHANGED <<rows, listed, bare, known>>
  BY DEF Release
<1>3. /\ op[o].hit \in Ids
      /\ ~NodeHolds(o) => claim[op[o].hit].state = "gone"
      /\ claim[op[o].hit].state # "unborn"
  BY <1>1, <1>2, NotHeldIsGone, KeysAssumption DEF GoodOp, HitIsOwned
<1>4. ended \in SUBSET Ids /\ \A id \in ended : claim[id].state # "unborn"
  BY <1>3
<1>5. Ended(ended)
  BY <1>1, <1>3 DEF Release, Ended
<1>6. /\ \A p \in Ops \ {o} : op'[p] = over(op[p])
      /\ op'[o] = Answered(over(op[o]), "deleted")
      /\ op' = [p \in Ops |-> op'[p]]
  BY DEF Release
<1>7. claim'[op[o].hit].state = "gone"
  BY <1>1, <1>3, <1>4, <1>5, EndedClaims
<1> HIDE DEF ended
<1>8. /\ claim' \in [Ids -> ClaimRecords] /\ PlacedClaims' /\ RowsNameOwner' /\ IndexNamesOwner'
      /\ \A id \in Ids : /\ claim'[id].name = claim[id].name
                         /\ claim'[id].node = claim[id].node
                         /\ claim'[id].state = IF id \in ended THEN "gone"
                                               ELSE claim[id].state
  BY <1>2, <1>4, <1>5, EndedClaims
<1>9. \A p \in Ops \ {o} : op'[p] \in OpRecords /\ GoodOp(op[p])'
  BY <1>4, <1>5, <1>6, EndedKeepsGood
<1>10. op'[o] \in OpRecords /\ GoodOp(op[o])'
  <2>1. op'[o] \in OpRecords
    <3>1. over(op[o]) \in OpRecords
      BY <1>1 DEF OpRecords
    <3> HIDE DEF over
    <3> QED
      BY <1>6, <3>1 DEF OpRecords, Answered, Steps, Answers
  <2>2. /\ op'[o].pc = "done" /\ op'[o].key = op[o].key /\ op'[o].hit = op[o].hit
        /\ op'[o].node = op[o].node /\ op'[o].excused = op[o].excused
        /\ op'[o].answer = "deleted" /\ op'[o].held = op[o].held \ ended
    BY <1>1, <1>6 DEF OpRecords, Answered
  <2>3. op[o].held \subseteq Ids /\ op[o].hit # NoId
    BY <1>1, <1>3, KeysAssumption DEF OpRecords
  <2>4. Progress(op[o])'
    BY <1>1, <1>2, <2>2 DEF GoodOp, Progress
  <2>5. HitIsOwned(op[o])'
    BY <1>1, <1>3, <1>8, <2>2, <2>3 DEF GoodOp, HitIsOwned, Matches
  <2>6. HeldIsSought(op[o])'
    BY <1>1, <1>8, <2>2, <2>3 DEF GoodOp, HeldIsSought, Matches
  <2>7. AnswerIsTrue(op[o])'
    BY <1>7, <2>2, <2>3 DEF AnswerIsTrue
  <2> QED
    BY <2>1, <2>4, <2>5, <2>6, <2>7 DEF GoodOp
<1>11. op' \in [Ops -> OpRecords] /\ GoodOps'
  <2>1. \A p \in Ops : op'[p] \in OpRecords /\ GoodOp(op[p])'
    BY <1>9, <1>10
  <2> QED
    BY <1>6, <2>1 DEF GoodOps
<1> QED
  BY <1>2, <1>8, <1>11 DEF ReadInv, TypeOK, ClaimRecords, OpRecords

-----------------------------------------------------------------------------
(* Claims, and the nodes' publishing.                                      *)

\* A claim that advances is not one a request is entitled to yet.
LEMMA ClaimAdvances ==
    ASSUME ReadInv, NEW id \in Ids, NEW n \in Nodes, NEW state \in {"delivered", "named", "live"},
           claim[id].state \in {"unborn", "delivered", "named"},
           claim[id].state # "unborn" => n = claim[id].node,
           claim' = [claim EXCEPT ![id].state = state, ![id].node = n], UNCHANGED op
    PROVE  /\ claim' \in [Ids -> ClaimRecords]
           /\ claim'[id].node = n /\ claim'[id].state # "unborn"
           /\ \A i \in Ids : claim[i].state # "unborn" =>
                  claim'[i].state # "unborn" /\ claim'[i].node = claim[i].node
           /\ PlacedClaims' /\ GoodOps'
           /\ UNCHANGED rows => RowsNameOwner'
<1>1. claim \in [Ids -> ClaimRecords] /\ \A o \in Ops : op[o] \in OpRecords
  BY InvTypes
<1>2. claim' \in [Ids -> ClaimRecords]
  BY <1>1 DEF ClaimRecords
<1>3. /\ claim'[id].name = claim[id].name /\ claim'[id].node = n /\ claim'[id].state = state
      /\ \A i \in Ids : i # id => claim'[i] = claim[i]
  BY <1>1 DEF ClaimRecords
<1>4. \A i \in Ids : claim[i].state # "unborn" =>
          claim'[i].state # "unborn" /\ claim'[i].node = claim[i].node
  BY <1>3
<1>5. PlacedClaims'
  BY <1>3 DEF ReadInv, PlacedClaims
<1>6. ASSUME NEW o \in Ops PROVE GoodOp(op[o])'
  <2>1. GoodOp(op[o]) /\ op[o].held \subseteq Ids /\ (op[o].hit # NoId => op[o].hit \in Ids)
    BY <1>1 DEF ReadInv, GoodOps, OpRecords
  <2>2. \A i \in Ids : claim'[i].name = claim[i].name
    BY <1>3
  <2>3. Progress(op[o])' /\ HitIsOwned(op[o])'
    BY <1>4, <2>1, <2>2 DEF GoodOp, Progress, HitIsOwned, Matches
  <2>4. \A i \in op[o].held : i # id
    BY <2>1 DEF GoodOp, HeldIsSought
  <2>5. HeldIsSought(op[o])'
    BY <1>3, <2>1, <2>2, <2>4 DEF GoodOp, HeldIsSought, Matches
  <2>6. AnswerIsTrue(op[o])'
    BY <1>3, <2>1 DEF GoodOp, AnswerIsTrue
  <2> QED
    BY <2>3, <2>5, <2>6 DEF GoodOp
<1>7. UNCHANGED rows => RowsNameOwner'
  BY <1>4 DEF ReadInv, TypeOK, RowsNameOwner
<1> QED
  BY <1>2, <1>3, <1>4, <1>5, <1>6, <1>7 DEF GoodOps

LEMMA NewClaimStep ==
    ASSUME ReadInv, NEW id \in Ids, NEW n \in Nodes,
           ClaimDelivered(id, n) \/ ClaimElsewhere(id, n)
    PROVE  ReadInv'
<1>1. PICK state \in {"delivered", "live"} :
          claim' = [claim EXCEPT ![id].state = state, ![id].node = n]
  BY DEF ClaimDelivered, ClaimElsewhere
<1>2. claim[id].state = "unborn" /\ UNCHANGED <<rows, listed, bare, known, op>>
  BY DEF ClaimDelivered, ClaimElsewhere
<1>3. /\ claim' \in [Ids -> ClaimRecords] /\ PlacedClaims' /\ GoodOps' /\ RowsNameOwner'
      /\ \A i \in Ids : claim[i].state # "unborn" =>
                  claim'[i].state # "unborn" /\ claim'[i].node = claim[i].node
  BY <1>1, <1>2, ClaimAdvances
<1>4. IndexNamesOwner'
  BY <1>2, <1>3 DEF ReadInv, IndexNamesOwner
<1> QED
  BY <1>2, <1>3, <1>4 DEF ReadInv, TypeOK, ClaimRecords

\* Claim stores its two keys: under the claim id, the claim's own node.
LEMMA IndexedStep ==
    ASSUME ReadInv, NEW id \in Ids, RememberName(id) \/ RememberClaim(id)
    PROVE  ReadInv'
<1> DEFINE n == claim[id].node
<1>1. claim[id].state \in {"delivered", "named"} /\ UNCHANGED <<rows, listed, bare, op>>
  BY DEF RememberName, RememberClaim
<1>2. claim \in [Ids -> ClaimRecords] /\ n \in Nodes
  BY <1>1, InvTypes DEF ReadInv, PlacedClaims
<1>3. PICK state \in {"named", "live"} : claim' = [claim EXCEPT ![id].state = state]
  BY DEF RememberName, RememberClaim
<1>4. claim' = [claim EXCEPT ![id].state = state, ![id].node = n]
  BY <1>2, <1>3 DEF ClaimRecords
<1> HIDE DEF n
<1>5. /\ claim' \in [Ids -> ClaimRecords] /\ PlacedClaims' /\ GoodOps' /\ RowsNameOwner'
      /\ claim'[id].node = n /\ claim'[id].state # "unborn"
      /\ \A i \in Ids : claim[i].state # "unborn" =>
                  claim'[i].state # "unborn" /\ claim'[i].node = claim[i].node
  BY <1>1, <1>2, <1>4, ClaimAdvances DEF n
<1>6. PICK key \in {id, claim[id].name} : Index!Remember(key, n)
  BY DEF RememberName, RememberClaim, n
<1>7. /\ known' \in [Keys -> Nodes \cup {NoNode}]
      /\ \A i \in Ids : i # key => known'[i] \in {known[i], NoNode}
      /\ known'[key] = n
  BY <1>6 DEF Index!Remember, Index!ForgetsOnly, Keys
<1>8. key \in Ids => key = id
  BY <1>2, <1>6, KeysAssumption DEF ClaimRecords
<1>9. IndexNamesOwner'
  BY <1>5, <1>7, <1>8 DEF ReadInv, IndexNamesOwner
<1> QED
  BY <1>1, <1>5, <1>7, <1>9 DEF ReadInv, TypeOK, ClaimRecords

LEMMA PublishStep ==
    ASSUME ReadInv, NEW n \in Nodes, Publish(n) \/ Unlist(n)
    PROVE  ReadInv'
<1>1. UNCHANGED <<claim, bare, known, op>>
  BY DEF Publish, Unlist
<1>2. TypeOK' /\ RowsNameOwner'
  BY DEF Publish, Unlist, ReadInv, TypeOK, RowsNameOwner, Alive
<1>3. PlacedClaims' /\ IndexNamesOwner'
  BY <1>1 DEF ReadInv, PlacedClaims, IndexNamesOwner
<1>4. GoodOps'
  BY <1>1 DEF ReadInv, GoodOps, GoodOp, Progress, HitIsOwned, HeldIsSought, AnswerIsTrue, Matches
<1> QED
  BY <1>2, <1>3, <1>4 DEF ReadInv

-----------------------------------------------------------------------------
\* The invariant of every request, claim, row and index entry is inductive.
THEOREM ReadInvariant == Spec => []ReadInv
<1>1. Init => ReadInv
  <2> SUFFICES ASSUME Init PROVE ReadInv
    OBVIOUS
  <2>1. NoRequest \in OpRecords
    BY DEF OpRecords, NoRequest, Steps, Answers
  <2>2. TypeOK
    BY <2>1 DEF Init, TypeOK, OpRecords, Index!Init
  <2>3. PlacedClaims /\ RowsNameOwner /\ IndexNamesOwner
    BY DEF Init, PlacedClaims, RowsNameOwner, IndexNamesOwner, Index!Init, Keys
  <2>4. GoodOps
    BY DEF Init, NoRequest, GoodOps, GoodOp, Progress, HitIsOwned, HeldIsSought, AnswerIsTrue
  <2> QED
    BY <2>2, <2>3, <2>4 DEF ReadInv
<1>2. ReadInv /\ [Next]_vars => ReadInv'
  <2> SUFFICES ASSUME ReadInv, [Next]_vars PROVE ReadInv'
    OBVIOUS
  <2>1. ASSUME NEW o \in Ops, Request(o) PROVE ReadInv'
    <3>1. CASE readIndexRows(o) \/ readIndexLive(o)
      BY <3>1, IndexedReads
    <3>2. ASSUME NEW n \in Nodes, sweepRows(o, n) \/ sweepLive(o, n) PROVE ReadInv'
      BY <3>2, SweepRowsStep, SweepLiveStep
    <3>3. CASE sweepRowsDone(o) \/ sweepLiveDone(o) \/ rememberHit(o)
      BY <3>3, SweepsEnd, RememberStep
    <3>4. CASE Get(o) \/ NodeFails(o) \/ refuseDelete(o) \/ noClaimID(o) \/ e2bVerb(o)
                 \/ lifecycleCreate(o)
      BY <3>4, ActStep
    <3>5. CASE deleteSandbox(o) \/ Delete(o)
      BY <3>5, ReleaseStep DEF deleteSandbox, Delete
    <3> QED
      BY <2>1, <3>1, <3>2, <3>3, <3>4, <3>5 DEF Request
  <2>2. ASSUME NEW o \in Ops, NEW key \in Keys, resolve(o, key) PROVE ReadInv'
    BY <2>2, ResolveStep
  <2>3. CASE Environment
    BY <2>3, IndexedStep, ClaimEndsStep, NewClaimStep, PublishStep DEF Environment
  <2>4. CASE UNCHANGED vars
    BY <2>4 DEF vars, ReadInv, TypeOK, PlacedClaims, RowsNameOwner, IndexNamesOwner, GoodOps,
       GoodOp, Progress, HitIsOwned, HeldIsSought, AnswerIsTrue, Matches
  <2> QED
    BY <2>1, <2>2, <2>3, <2>4 DEF Next
<1> QED
  BY <1>1, <1>2, PTL DEF Spec

\* resolve (src/pkg/scale/sandboxstore_impl.go): whatever the index forgot and
\* however stale the rows, a request acts on the node that owns what it found,
\* and the index never names another node for a claim id.
THEOREM RequestsAreRouted == Spec => []RoutedToOwner
<1>1. ReadInv => RoutedToOwner
  BY DEF ReadInv, RoutedToOwner, GoodOps, GoodOp, HitIsOwned, IndexNamesOwner
<1> QED
  BY <1>1, ReadInvariant, PTL

\* docs/scaling-design.md:222, read after write: a claim that has returned and
\* still lives is answered "not found" by no read of its name or its id, unless
\* some node did not answer or has no inventory.
THEOREM ReadsFollowWrites == Spec => []ReadAfterWrite
<1>1. ReadInv => ReadAfterWrite
  BY DEF ReadInv, ReadAfterWrite, GoodOps, GoodOp, AnswerIsTrue
<1> QED
  BY <1>1, ReadInvariant, PTL

\* Release and verbError (src/pkg/scale/sandboxstore_impl.go): what a caller is
\* told was deleted or is gone has ended, and by claim id it is what the caller
\* named.
THEOREM EndedIsEnded == Spec => []DeletedIsGone
<1>1. ReadInv => DeletedIsGone
  <2> SUFFICES ASSUME ReadInv, NEW o \in Ops
               PROVE  /\ op[o].answer \in {"deleted", "gone"} => claim[op[o].hit].state = "gone"
                      /\ op[o].answer = "deleted" /\ op[o].key \in Ids => op[o].hit = op[o].key
                      /\ op[o].answer = "gone" /\ op[o].key \in Ids => op[o].held = {}
    BY DEF DeletedIsGone
  <2>1. GoodOp(op[o]) /\ op[o] \in OpRecords
    BY InvTypes DEF ReadInv, GoodOps
  <2>2. op[o].answer = "deleted" => op[o].hit \in Ids /\ Matches(op[o].hit, op[o].key)
    BY <2>1 DEF GoodOp, HitIsOwned, AnswerIsTrue, OpRecords
  <2>3. op[o].answer = "deleted" /\ op[o].key \in Ids => op[o].hit = op[o].key
    BY <2>2, InvTypes, KeysAssumption DEF Matches, ClaimRecords
  <2> QED
    BY <2>1, <2>3 DEF GoodOp, AnswerIsTrue
<1> QED
  BY <1>1, ReadInvariant, PTL
=============================================================================
