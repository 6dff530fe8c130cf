-------------------------- MODULE EnvdProxyProofs --------------------------
(***************************************************************************)
(* Proofs about EnvdProxy, for any sandboxes, requests, cache size, TTL    *)
(* and probe budget: the cache is bounded, a relay is opened and a sandbox *)
(* woken only for whoever carries its token, a cached owner outlives its   *)
(* sandbox by recentOwnerTTL at most, and a live sandbox is reached.       *)
(*                                                                         *)
(* The inductive invariant follows each request: what it is entitled to is *)
(* live until it ends, a probe has still to ask the owner's node, and      *)
(* what a node answered is no older than a tick when it is cached, so that *)
(* an entry's remaining ticks and its sandbox's ticks since its end never  *)
(* add up to more than TTL + 1.                                            *)
(***************************************************************************)
EXTENDS EnvdProxy, FiniteSetTheorems, TLAPS

ReqRecords ==
    [pc : {"resolve", "read", "probe", "put", "late", "relay", "done"},
     id : Ids \cup {NoId}, cred : Creds, todo : SUBSET Nodes,
     answer : Answers, held : BOOLEAN, excused : BOOLEAN]

ClaimRecords ==
    [node : Nodes \cup {NoNode}, state : {"unborn", "live", "over"}, paused : BOOLEAN]

CacheOK ==
    /\ DOMAIN recent \subseteq Ids
    /\ recent \in [DOMAIN recent -> -1..TTL]
    /\ IsFiniteSet(DOMAIN recent)
    /\ Cardinality(DOMAIN recent) <= MaxEntries

\* An entry that still counts was read when its sandbox was live, or a tick
\* after its end at most.
EntriesAge ==
    /\ \A s \in Sandboxes : claim[s].state # "over" => over[s] = 0
    /\ \A id \in DOMAIN recent : recent[id] >= 0 => over[ClaimID(id)] + recent[id] <= TTL + 1

\* What the token admits.
Judged(q) ==
    /\ q.pc # "done" => q.id \in Ids
    /\ q.cred \notin {"own", "signed"} =>
           q.pc # "relay" /\ q.answer \in {"none", "unavailable", "denied"}

\* A request is entitled to a live sandbox, which a probe has still to ask for.
Entitled(q) ==
    /\ q.held => q.cred \in {"own", "signed"}
    /\ q.held /\ q.pc # "done" => Live(ClaimID(q.id))
    /\ q.held /\ q.pc = "probe" /\ ~q.excused => claim[ClaimID(q.id)].node \in q.todo
    /\ q.held /\ q.pc = "done" /\ ~q.excused => q.answer \notin {"unavailable", "denied", "refused"}

\* A node's answer on its way to the cache.
Timely(q) ==
    /\ q.pc = "put" => over[ClaimID(q.id)] = 0
    /\ q.pc = "late" => over[ClaimID(q.id)] <= 1

GoodReq(q) == Judged(q) /\ Entitled(q) /\ Timely(q)

ProxyInv ==
    /\ TypeOK
    /\ CacheOK
    /\ EntriesAge
    /\ \A r \in Requests : GoodReq(req[r])

LEMMA IdTypes == \A id \in Ids : ClaimID(id) \in Sandboxes /\ id # NoId
BY NoIdAssumption DEF Ids, ClaimID

LEMMA InvTypes ==
    ASSUME ProxyInv
    PROVE  /\ claim \in [Sandboxes -> ClaimRecords]
           /\ req \in [Requests -> ReqRecords]
           /\ \A s \in Sandboxes : claim[s] \in ClaimRecords
           /\ \A r \in Requests : req[r] \in ReqRecords /\ GoodReq(req[r])
BY DEF ProxyInv, TypeOK, ClaimRecords, ReqRecords

-----------------------------------------------------------------------------
(* A request's own steps.                                                  *)

\* A request that becomes another good record leaves all requests good, no
\* sandbox being claimed, ended or aged meanwhile.
LEMMA OneRequestMoves ==
    ASSUME ProxyInv, NEW r \in Requests, NEW q \in ReqRecords, GoodReq(q),
           req' = [req EXCEPT ![r] = q], UNCHANGED over,
           \A s \in Sandboxes : claim'[s].state = claim[s].state /\ claim'[s].node = claim[s].node
    PROVE  req' \in [Requests -> ReqRecords] /\ \A p \in Requests : GoodReq(req[p])'
<1>1. req \in [Requests -> ReqRecords] /\ \A p \in Requests : GoodReq(req[p])
  BY InvTypes
<1>2. req' \in [Requests -> ReqRecords]
  BY <1>1
<1>3. ASSUME NEW p \in Requests PROVE GoodReq(req[p])'
  <2>1. PICK t \in ReqRecords : req'[p] = t /\ GoodReq(t)
    BY <1>1
  <2>2. t.pc # "done" => ClaimID(t.id) \in Sandboxes
    BY <2>1, IdTypes DEF GoodReq, Judged
  <2>3. Judged(req[p])'
    BY <2>1 DEF GoodReq, Judged
  <2>4. Entitled(req[p])'
    BY <2>1, <2>2 DEF GoodReq, Entitled, Live
  <2>5. Timely(req[p])'
    BY <2>1 DEF GoodReq, Timely
  <2> QED
    BY <2>3, <2>4, <2>5 DEF GoodReq
<1> QED
  BY <1>2, <1>3

LEMMA QuietRequest ==
    ASSUME ProxyInv, NEW r \in Requests, NEW q \in ReqRecords, GoodReq(q),
           req' = [req EXCEPT ![r] = q], UNCHANGED <<nodeVars, recent>>, budget' \in 0..Burst
    PROVE  ProxyInv'
<1>1. req' \in [Requests -> ReqRecords] /\ \A p \in Requests : GoodReq(req[p])'
  BY OneRequestMoves DEF nodeVars
<1>2. CacheOK' /\ EntriesAge'
  BY DEF ProxyInv, CacheOK, EntriesAge, nodeVars
<1> QED
  BY <1>1, <1>2 DEF ProxyInv, TypeOK, ReqRecords, nodeVars

\* A request that ends with an answer it may give.
LEMMA FinishedIsGood ==
    ASSUME NEW q \in ReqRecords, NEW a \in Answers, NEW x \in BOOLEAN,
           q.held => q.cred \in {"own", "signed"},
           q.cred \notin {"own", "signed"} => a \in {"none", "unavailable", "denied"},
           q.held /\ ~x => a \notin {"unavailable", "denied", "refused"}
    PROVE  LET t == [Finished(q, a) EXCEPT !.excused = x]
           IN  t \in ReqRecords /\ GoodReq(t)
<1> DEFINE t == [Finished(q, a) EXCEPT !.excused = x]
<1>1. Finished(q, a) \in ReqRecords
  BY DEF ReqRecords, Finished
<1>2. t \in ReqRecords
  BY <1>1 DEF ReqRecords
<1>3. t.pc = "done" /\ t.answer = a /\ t.excused = x /\ t.held = q.held /\ t.cred = q.cred
  BY DEF ReqRecords, Finished
<1> HIDE DEF t
<1>4. GoodReq(t)
  BY <1>3 DEF GoodReq, Judged, Entitled, Timely
<1> QED
  BY <1>2, <1>4 DEF t

LEMMA AnswerStep ==
    ASSUME ProxyInv, NEW r \in Requests, NEW a \in Answers,
           req[r].cred \notin {"own", "signed"} => a \in {"none", "unavailable", "denied"},
           req[r].held /\ ~req[r].excused => a \notin {"unavailable", "denied", "refused"},
           Answer(r, a), UNCHANGED <<nodeVars, recent, budget>>
    PROVE  ProxyInv'
<1>1. req[r] \in ReqRecords /\ req[r].held \in BOOLEAN /\ req[r].excused \in BOOLEAN
      /\ (req[r].held => req[r].cred \in {"own", "signed"})
  BY InvTypes DEF ReqRecords, GoodReq, Entitled
<1>2. PICK t : t = [Finished(req[r], a) EXCEPT !.excused = req[r].excused]
  OBVIOUS
<1>3. t \in ReqRecords /\ GoodReq(t)
  BY <1>1, <1>2, FinishedIsGood
<1>4. Finished(req[r], a) = t
  BY <1>1, <1>2 DEF Finished, ReqRecords
<1>5. req' = [req EXCEPT ![r] = t]
  BY <1>4, InvTypes DEF Answer
<1>6. budget' \in 0..Burst
  BY DEF ProxyInv, TypeOK
<1> QED
  BY <1>3, <1>5, <1>6, QuietRequest

LEMMA ExcusedStep ==
    ASSUME ProxyInv, NEW r \in Requests,
           AnswerExcused(r, "unavailable"), UNCHANGED <<nodeVars, recent, budget>>
    PROVE  ProxyInv'
<1>1. req[r] \in ReqRecords /\ (req[r].held => req[r].cred \in {"own", "signed"})
  BY InvTypes DEF GoodReq, Entitled
<1>2. PICK t : t = [Finished(req[r], "unavailable") EXCEPT !.excused = TRUE]
  OBVIOUS
<1>3. t \in ReqRecords /\ GoodReq(t)
  BY <1>1, <1>2, FinishedIsGood DEF Answers
<1>4. req' = [req EXCEPT ![r] = t]
  BY <1>2, InvTypes DEF AnswerExcused
<1>5. budget' \in 0..Burst
  BY DEF ProxyInv, TypeOK
<1> QED
  BY <1>3, <1>4, <1>5, QuietRequest

LEMMA AdmittedIsGood ==
    ASSUME NEW q \in ReqRecords, q.id \in Ids,
           q.held => q.cred \in {"own", "signed"} /\ Live(ClaimID(q.id))
    PROVE  Admitted(q) \in ReqRecords /\ GoodReq(Admitted(q))
<1>1. CASE admit(q.cred)
  <2> DEFINE t == [q EXCEPT !.pc = "relay"]
  <2>1. t \in ReqRecords /\ Admitted(q) = t
    BY <1>1 DEF ReqRecords, Admitted
  <2>2. t.pc = "relay" /\ t.id = q.id /\ t.cred = q.cred /\ t.held = q.held
    BY DEF ReqRecords
  <2> HIDE DEF t
  <2>3. GoodReq(t)
    BY <1>1, <2>2 DEF admit, GoodReq, Judged, Entitled, Timely
  <2> QED
    BY <2>1, <2>3
<1>2. CASE ~admit(q.cred)
  <2> DEFINE t == Finished(q, "denied")
  <2>1. t \in ReqRecords /\ Admitted(q) = t
    BY <1>2 DEF ReqRecords, Finished, Answers, Admitted
  <2>2. t.pc = "done" /\ t.cred = q.cred /\ t.held = q.held /\ t.answer = "denied"
    BY DEF ReqRecords, Finished
  <2> HIDE DEF t
  <2>3. GoodReq(t)
    BY <1>2, <2>2 DEF admit, GoodReq, Judged, Entitled, Timely
  <2> QED
    BY <2>1, <2>3
<1> QED
  BY <1>1, <1>2

LEMMA ServeStep ==
    ASSUME ProxyInv, NEW r \in Requests, NEW id \in Ids, NEW cred \in Creds, serve(r, id, cred)
    PROVE  ProxyInv'
<1> DEFINE entitled == cred \in {"own", "signed"} /\ Live(ClaimID(id))
           started == [Idle EXCEPT !.id = id, !.cred = cred, !.held = entitled]
           q == IF cred = "none" THEN Finished(started, "denied")
                ELSE IF get(id) THEN Admitted(started)
                ELSE [started EXCEPT !.pc = "resolve"]
<1>1. req' = [req EXCEPT ![r] = q] /\ UNCHANGED <<nodeVars, recent, budget>>
  BY DEF serve
<1>2. entitled \in BOOLEAN
  OBVIOUS
<1>3. /\ started \in ReqRecords /\ started.id = id /\ started.cred = cred
      /\ started.held = entitled /\ started.answer = "none" /\ started.excused = FALSE
  <2> HIDE DEF entitled
  <2> QED
    BY <1>2, NoIdAssumption DEF ReqRecords, Idle, Creds, Answers
<1>4. started.held => started.cred \in {"own", "signed"} /\ Live(ClaimID(started.id))
  BY <1>3
<1> HIDE DEF started, entitled
<1>5. q \in ReqRecords /\ GoodReq(q)
  <2>1. CASE cred = "none"
    <3> DEFINE t == Finished(started, "denied")
    <3>1. t \in ReqRecords
      BY <1>3 DEF ReqRecords, Finished, Answers
    <3>2. t.pc = "done" /\ t.cred = cred /\ t.held = started.held /\ t.answer = "denied"
      BY <1>3 DEF ReqRecords, Finished
    <3> HIDE DEF t
    <3>3. GoodReq(t)
      BY <1>3, <1>4, <2>1, <3>2 DEF GoodReq, Judged, Entitled, Timely
    <3> QED
      BY <2>1, <3>1, <3>3 DEF t
  <2>2. CASE cred # "none" /\ get(id)
    BY <1>3, <1>4, <2>2, AdmittedIsGood
  <2>3. CASE cred # "none" /\ ~get(id)
    <3> DEFINE t == [started EXCEPT !.pc = "resolve"]
    <3>1. t \in ReqRecords
      BY <1>3 DEF ReqRecords
    <3>2. t.pc = "resolve" /\ t.id = id /\ t.cred = cred /\ t.held = started.held /\ t.answer = "none"
      BY <1>3 DEF ReqRecords
    <3> HIDE DEF t
    <3>3. GoodReq(t)
      BY <1>3, <1>4, <3>2 DEF GoodReq, Judged, Entitled, Timely
    <3> QED
      BY <2>3, <3>1, <3>3 DEF t
  <2> QED
    BY <2>1, <2>2, <2>3
<1>6. budget' \in 0..Burst
  BY <1>1 DEF ProxyInv, TypeOK
<1> HIDE DEF q
<1> QED
  BY <1>1, <1>5, <1>6, QuietRequest

\* A request that goes on to its next read, the sandbox's node being live when
\* its answer is on the way to the cache.
LEMMA GoesOn ==
    ASSUME ProxyInv, NEW r \in Requests, req[r].pc \in {"resolve", "read", "probe"},
           NEW next \in {"read", "put", "probe"}, NEW todo \in SUBSET Nodes, NEW x \in BOOLEAN,
           next = "put" => Live(ClaimID(req[r].id)),
           next = "probe" /\ req[r].held /\ ~x => claim[ClaimID(req[r].id)].node \in todo,
           req' = [req EXCEPT ![r].pc = next, ![r].todo = todo, ![r].excused = x],
           UNCHANGED <<nodeVars, recent>>, budget' \in 0..Burst
    PROVE  ProxyInv'
<1> DEFINE q == [req[r] EXCEPT !.pc = next, !.todo = todo, !.excused = x]
<1>1. req \in [Requests -> ReqRecords] /\ req[r] \in ReqRecords /\ GoodReq(req[r])
  BY InvTypes
<1>2. req' = [req EXCEPT ![r] = q]
  BY <1>1
<1>3. q \in ReqRecords
  BY <1>1 DEF ReqRecords
<1>4. /\ q.pc = next /\ q.todo = todo /\ q.excused = x /\ q.id = req[r].id
      /\ q.cred = req[r].cred /\ q.held = req[r].held /\ q.answer = req[r].answer
  BY <1>1 DEF ReqRecords
<1> HIDE DEF q
<1>5. req[r].id \in Ids
  BY <1>1 DEF GoodReq, Judged
<1>6. next = "put" => over[ClaimID(req[r].id)] = 0
  BY <1>5, IdTypes DEF ProxyInv, EntriesAge, Live
<1>7. GoodReq(q)
  <2>1. Judged(q)
    BY <1>1, <1>4, <1>5 DEF GoodReq, Judged
  <2>2. Entitled(q)
    BY <1>1, <1>4 DEF GoodReq, Entitled
  <2>3. Timely(q)
    BY <1>4, <1>6 DEF Timely
  <2> QED
    BY <2>1, <2>2, <2>3 DEF GoodReq
<1> QED
  BY <1>2, <1>3, <1>7, QuietRequest

LEMMA FindStep ==
    ASSUME ProxyInv, NEW r \in Requests, find(r)
    PROVE  ProxyInv'
<1> DEFINE node == claim[ClaimID(req[r].id)].node
<1>1. req \in [Requests -> ReqRecords] /\ req[r] \in ReqRecords /\ GoodReq(req[r])
  BY InvTypes
<1>2. req[r].pc = "resolve" /\ UNCHANGED <<nodeVars, recent>> /\ budget \in 0..Burst
  BY DEF find, ProxyInv, TypeOK
<1>3. CASE Goto(r, "read") /\ UNCHANGED budget
  <2>1. req' = [req EXCEPT ![r].pc = "read", ![r].todo = req[r].todo, ![r].excused = req[r].excused]
    BY <1>1, <1>3 DEF Goto, ReqRecords
  <2>2. req[r].todo \in SUBSET Nodes /\ req[r].excused \in BOOLEAN
    BY <1>1 DEF ReqRecords
  <2> QED
    BY <1>2, <1>3, <2>1, <2>2, GoesOn
<1>4. CASE /\ budget > 0 /\ budget' = budget - 1
           /\ req' = [req EXCEPT ![r].pc = "probe", ![r].todo = listed,
                                 ![r].excused = node \notin listed]
  <2>1. budget' \in 0..Burst
    BY <1>2, <1>4, BurstAssumption
  <2>2. listed \in SUBSET Nodes /\ (node \notin listed) \in BOOLEAN
    BY DEF ProxyInv, TypeOK
  <2>3. ~(node \notin listed) => node \in listed
    OBVIOUS
  <2> QED
    BY <1>2, <1>4, <2>1, <2>2, <2>3, GoesOn
<1>5. CASE AnswerExcused(r, "unavailable") /\ UNCHANGED budget
  BY <1>2, <1>5, ExcusedStep
<1> QED
  BY <1>3, <1>4, <1>5 DEF find, notPublished

LEMMA ReadOwnerStep ==
    ASSUME ProxyInv, NEW r \in Requests, readOwner(r)
    PROVE  ProxyInv'
<1> DEFINE s == ClaimID(req[r].id)
<1>1. req \in [Requests -> ReqRecords] /\ req[r] \in ReqRecords /\ GoodReq(req[r])
  BY InvTypes
<1>2. req[r].pc = "read" /\ UNCHANGED <<nodeVars, recent, budget>> /\ budget \in 0..Burst
  BY DEF readOwner, ProxyInv, TypeOK
<1>3. CASE AnswerExcused(r, "unavailable")
  BY <1>2, <1>3, ExcusedStep
<1>4. CASE Live(s) /\ Goto(r, "put")
  <2>1. req' = [req EXCEPT ![r].pc = "put", ![r].todo = req[r].todo, ![r].excused = req[r].excused]
    BY <1>1, <1>4 DEF Goto, ReqRecords
  <2>2. req[r].todo \in SUBSET Nodes /\ req[r].excused \in BOOLEAN
    BY <1>1 DEF ReqRecords
  <2> QED
    BY <1>2, <1>4, <2>1, <2>2, GoesOn
<1>5. CASE ~Live(s) /\ Answer(r, "unavailable")
  <2>1. ~req[r].held
    BY <1>1, <1>2, <1>5 DEF GoodReq, Entitled
  <2> QED
    BY <1>2, <1>5, <2>1, AnswerStep DEF Answers
<1> QED
  BY <1>3, <1>4, <1>5 DEF readOwner

LEMMA ProbeStep ==
    ASSUME ProxyInv, NEW r \in Requests, probe(r)
    PROVE  ProxyInv'
<1> DEFINE s == ClaimID(req[r].id)
<1>1. /\ req \in [Requests -> ReqRecords] /\ req[r] \in ReqRecords /\ GoodReq(req[r])
      /\ req[r].todo \in SUBSET Nodes /\ req[r].excused \in BOOLEAN
  BY InvTypes DEF ReqRecords
<1>2. req[r].pc = "probe" /\ UNCHANGED <<nodeVars, recent, budget>> /\ budget \in 0..Burst
  BY DEF probe, ProxyInv, TypeOK
<1>3. /\ req[r].held => Live(s)
      /\ req[r].held /\ ~req[r].excused => claim[s].node \in req[r].todo
  BY <1>1, <1>2 DEF GoodReq, Entitled
<1>4. ASSUME NEW n \in req[r].todo, askNode(r, n) PROVE ProxyInv'
  <2>1. CASE Live(s) /\ req' = [req EXCEPT ![r].pc = "put", ![r].todo = {}]
    <3>1. req' = [req EXCEPT ![r].pc = "put", ![r].todo = {}, ![r].excused = req[r].excused]
      BY <1>1, <2>1 DEF ReqRecords
    <3> QED
      BY <1>1, <1>2, <2>1, <3>1, GoesOn
  <2>2. CASE ~(Live(s) /\ claim[s].node = n) /\ req' = [req EXCEPT ![r].todo = @ \ {n}]
    <3>1. req' = [req EXCEPT ![r].pc = "probe", ![r].todo = req[r].todo \ {n},
                             ![r].excused = req[r].excused]
      BY <1>1, <1>2, <2>2 DEF ReqRecords
    <3>2. req[r].todo \ {n} \in SUBSET Nodes
      BY <1>1
    <3>3. req[r].held /\ ~req[r].excused => claim[s].node \in req[r].todo \ {n}
      BY <1>3, <2>2
    <3> QED
      BY <1>1, <1>2, <3>1, <3>2, <3>3, GoesOn
  <2> QED
    BY <1>4, <2>1, <2>2 DEF askNode
<1>5. ASSUME NEW n \in req[r].todo, nodeSilent(r, n) PROVE ProxyInv'
  <2> DEFINE x == req[r].excused \/ claim[s].node = n
  <2>1. req' = [req EXCEPT ![r].pc = "probe", ![r].todo = req[r].todo \ {n}, ![r].excused = x]
    BY <1>1, <1>2, <1>5 DEF nodeSilent, ReqRecords
  <2>2. x \in BOOLEAN /\ req[r].todo \ {n} \in SUBSET Nodes
    BY <1>1
  <2>3. req[r].held /\ ~x => claim[s].node \in req[r].todo \ {n}
    BY <1>3
  <2> HIDE DEF x
  <2> QED
    BY <1>2, <2>1, <2>2, <2>3, GoesOn
<1>6. CASE req[r].todo = {} /\ Answer(r, "unavailable")
  <2>1. ~(req[r].held /\ ~req[r].excused)
    BY <1>3, <1>6
  <2> QED
    BY <1>2, <1>6, <2>1, AnswerStep DEF Answers
<1> QED
  BY <1>4, <1>5, <1>6 DEF probe

\* A put makes room for what it stores.
LEMMA WithRoom ==
    ASSUME CacheOK
    PROVE  /\ withRoom \subseteq DOMAIN recent /\ IsFiniteSet(withRoom)
           /\ Cardinality(withRoom) + 1 <= MaxEntries
<1> DEFINE good == {id \in DOMAIN recent : recent[id] >= 0}
<1>1. withRoom \subseteq DOMAIN recent
  BY DEF withRoom
<1>2. IsFiniteSet(withRoom)
  BY <1>1, FS_Subset DEF CacheOK
<1>3. Cardinality(withRoom) \in Nat
  BY <1>2, FS_CardinalityType
<1>4. CASE Cardinality(DOMAIN recent) < MaxEntries
  <2>1. withRoom = DOMAIN recent
    BY <1>4 DEF withRoom
  <2> QED
    BY <1>1, <1>2, <1>3, <1>4, <2>1, MaxEntriesAssumption
<1>5. CASE ~(Cardinality(DOMAIN recent) < MaxEntries) /\ Cardinality(good) < MaxEntries
  <2>1. withRoom = good
    BY <1>5 DEF withRoom
  <2> HIDE DEF good
  <2> QED
    BY <1>1, <1>2, <1>3, <1>5, <2>1, MaxEntriesAssumption
<1>6. CASE ~(Cardinality(DOMAIN recent) < MaxEntries) /\ ~(Cardinality(good) < MaxEntries)
  <2>1. withRoom = {}
    BY <1>6 DEF withRoom
  <2> QED
    BY <2>1, FS_EmptySet, MaxEntriesAssumption
<1> QED
  BY <1>1, <1>2, <1>4, <1>5, <1>6

LEMMA PutStep ==
    ASSUME ProxyInv, NEW r \in Requests, put(r)
    PROVE  ProxyInv'
<1> DEFINE id == req[r].id
           q == Admitted(req[r])
<1>1. req \in [Requests -> ReqRecords] /\ req[r] \in ReqRecords /\ GoodReq(req[r])
  BY InvTypes
<1>2. /\ req[r].pc \in {"put", "late"} /\ UNCHANGED <<nodeVars, budget>>
      /\ recent' = [i \in withRoom \cup {id} |-> IF i = id THEN TTL ELSE recent[i]]
  BY DEF put
<1>3. id \in Ids /\ over[ClaimID(id)] <= 1
  BY <1>1, <1>2 DEF GoodReq, Judged, Timely
<1>4. q \in ReqRecords /\ GoodReq(q)
  BY <1>1, <1>2, <1>3, AdmittedIsGood DEF GoodReq, Entitled
<1>5. req' = [req EXCEPT ![r] = q]
  BY <1>1 DEF put
<1> HIDE DEF q
<1>6. req' \in [Requests -> ReqRecords] /\ \A p \in Requests : GoodReq(req[p])'
  BY <1>2, <1>4, <1>5, OneRequestMoves DEF nodeVars
<1> HIDE DEF id
<1>7. CacheOK'
  <2>1. /\ withRoom \subseteq DOMAIN recent /\ IsFiniteSet(withRoom)
        /\ Cardinality(withRoom) + 1 <= MaxEntries
    BY WithRoom DEF ProxyInv
  <2>2. DOMAIN recent' = withRoom \cup {id}
    BY <1>2
  <2>3. IsFiniteSet(DOMAIN recent') /\ Cardinality(DOMAIN recent') <= Cardinality(withRoom) + 1
    <3>1. Cardinality(withRoom) \in Nat
      BY <2>1, FS_CardinalityType
    <3>2. /\ IsFiniteSet(withRoom \cup {id})
          /\ Cardinality(withRoom \cup {id}) = IF id \in withRoom THEN Cardinality(withRoom)
                                               ELSE Cardinality(withRoom) + 1
      BY <2>1, FS_AddElement
    <3> QED
      BY <2>2, <3>1, <3>2
  <2>4. Cardinality(DOMAIN recent') <= MaxEntries
    BY <2>1, <2>3, FS_CardinalityType, MaxEntriesAssumption
  <2>5. DOMAIN recent' \subseteq Ids /\ recent' \in [DOMAIN recent' -> -1..TTL]
    BY <1>2, <1>3, <2>1, <2>2, TTLAssumption DEF ProxyInv, CacheOK
  <2> QED
    BY <2>3, <2>4, <2>5 DEF CacheOK
<1>8. EntriesAge'
  <2>1. \A i \in DOMAIN recent' : recent'[i] >= 0 => over[ClaimID(i)] + recent'[i] <= TTL + 1
    <3> SUFFICES ASSUME NEW i \in DOMAIN recent', recent'[i] >= 0
                 PROVE  over[ClaimID(i)] + recent'[i] <= TTL + 1
      OBVIOUS
    <3>1. CASE i = id
      <4>1. over[ClaimID(id)] \in Nat
        BY <1>3, IdTypes, TTLAssumption DEF ProxyInv, TypeOK, Long
      <4>2. recent'[i] = TTL
        BY <1>2, <3>1
      <4> QED
        BY <1>3, <3>1, <4>1, <4>2, TTLAssumption
    <3>2. CASE i # id
      <4>1. i \in DOMAIN recent /\ recent'[i] = recent[i]
        BY <1>2, <3>2, WithRoom DEF ProxyInv
      <4> QED
        BY <4>1 DEF ProxyInv, EntriesAge
    <3> QED
      BY <3>1, <3>2
  <2> QED
    BY <1>2, <2>1 DEF ProxyInv, EntriesAge, nodeVars
<1>9. TypeOK'
  <2>1. (\E cached \in SUBSET Ids : recent \in [cached -> -1..TTL])'
    BY <1>7 DEF CacheOK
  <2> QED
    BY <1>2, <1>6, <2>1 DEF ProxyInv, TypeOK, ReqRecords, nodeVars
<1> QED
  BY <1>6, <1>7, <1>8, <1>9 DEF ProxyInv

LEMMA RelayStep ==
    ASSUME ProxyInv, NEW r \in Requests, relay(r)
    PROVE  ProxyInv'
<1> DEFINE s == ClaimID(req[r].id)
<1>1. /\ req \in [Requests -> ReqRecords] /\ req[r] \in ReqRecords /\ GoodReq(req[r])
      /\ claim \in [Sandboxes -> ClaimRecords]
  BY InvTypes
<1>2. req[r].pc = "relay" /\ UNCHANGED <<rows, listed, over, recent, budget>>
  BY DEF relay
<1>3. req[r].cred \in {"own", "signed"} /\ req[r].id \in Ids
  BY <1>1, <1>2 DEF GoodReq, Judged
<1>4. CASE claim' = [claim EXCEPT ![s].paused = FALSE] /\ Answer(r, "relayed")
  <2>1. s \in Sandboxes
    BY <1>3, IdTypes
  <2>2. claim' \in [Sandboxes -> ClaimRecords]
    BY <1>1, <1>4 DEF ClaimRecords
  <2>3. \A t \in Sandboxes : claim'[t].state = claim[t].state /\ claim'[t].node = claim[t].node
    BY <1>1, <1>4 DEF ClaimRecords
  <2> DEFINE q == Finished(req[r], "relayed")
  <2>4. req' = [req EXCEPT ![r] = q]
    BY <1>1, <1>4 DEF Answer
  <2>5. q \in ReqRecords
    BY <1>1 DEF Finished, ReqRecords, Answers
  <2>6. q.pc = "done" /\ q.answer = "relayed" /\ q.cred = req[r].cred /\ q.held = req[r].held
    BY <1>1 DEF Finished, ReqRecords
  <2> HIDE DEF q
  <2>7. GoodReq(q)
    BY <1>3, <2>6 DEF GoodReq, Judged, Entitled, Timely
  <2>8. req' \in [Requests -> ReqRecords] /\ \A p \in Requests : GoodReq(req[p])'
    BY <1>2, <2>3, <2>4, <2>5, <2>7, OneRequestMoves
  <2>9. CacheOK' /\ EntriesAge'
    BY <1>2, <2>3 DEF ProxyInv, CacheOK, EntriesAge
  <2> QED
    BY <1>2, <2>2, <2>8, <2>9 DEF ProxyInv, TypeOK, ReqRecords, ClaimRecords
<1>5. CASE Answer(r, "paused") /\ UNCHANGED claim
  BY <1>2, <1>3, <1>5, AnswerStep DEF Answers, nodeVars
<1>6. CASE ~Live(s) /\ Answer(r, "refused") /\ UNCHANGED claim
  <2>1. ~req[r].held
    BY <1>1, <1>2, <1>6 DEF GoodReq, Entitled
  <2> QED
    BY <1>2, <1>3, <1>6, <2>1, AnswerStep DEF Answers, nodeVars
<1> QED
  BY <1>4, <1>5, <1>6 DEF relay

LEMMA FailStep ==
    ASSUME ProxyInv, NEW r \in Requests, InventoryFails(r) \/ relayFails(r)
    PROVE  ProxyInv'
<1>1. CASE InventoryFails(r)
  BY <1>1, ExcusedStep DEF InventoryFails
<1>2. CASE relayFails(r)
  <2>1. req[r].cred \in {"own", "signed"}
    BY <1>2, InvTypes DEF relayFails, GoodReq, Judged
  <2> QED
    BY <1>2, <2>1, AnswerStep DEF relayFails, Answers
<1> QED
  BY <1>1, <1>2

-----------------------------------------------------------------------------
(* The nodes, their inventories and time.                                  *)

LEMMA ClaimMadeStep ==
    ASSUME ProxyInv, NEW s \in Sandboxes, NEW n \in Nodes, ClaimMade(s, n)
    PROVE  ProxyInv'
<1>1. claim \in [Sandboxes -> ClaimRecords] /\ claim[s].state = "unborn"
      /\ UNCHANGED <<rows, listed, recent, budget, req, over>>
  BY InvTypes DEF ClaimMade
<1>2. claim' \in [Sandboxes -> ClaimRecords]
  BY <1>1 DEF ClaimMade, ClaimRecords
<1>3. /\ \A t \in Sandboxes : t # s => claim'[t] = claim[t]
      /\ claim'[s].state = "live"
  BY <1>1 DEF ClaimMade, ClaimRecords
<1>4. ASSUME NEW r \in Requests PROVE GoodReq(req[r])'
  <2>1. GoodReq(req[r]) /\ (req[r].pc # "done" => ClaimID(req[r].id) \in Sandboxes)
    BY InvTypes, IdTypes DEF GoodReq, Judged
  <2>2. req[r].held /\ req[r].pc # "done" => ClaimID(req[r].id) # s
    BY <1>1, <2>1 DEF GoodReq, Entitled, Live
  <2> QED
    BY <1>1, <1>3, <2>1, <2>2 DEF GoodReq, Judged, Entitled, Timely, Live
<1>5. CacheOK' /\ EntriesAge'
  BY <1>1, <1>3 DEF ProxyInv, CacheOK, EntriesAge
<1> QED
  BY <1>1, <1>2, <1>4, <1>5 DEF ProxyInv, TypeOK, ClaimRecords

LEMMA ClaimOverStep ==
    ASSUME ProxyInv, NEW s \in Sandboxes, ClaimOver(s)
    PROVE  ProxyInv'
<1>1. claim \in [Sandboxes -> ClaimRecords] /\ req \in [Requests -> ReqRecords]
      /\ UNCHANGED <<rows, listed, recent, budget, over>>
  BY InvTypes DEF ClaimOver
<1>2. claim' \in [Sandboxes -> ClaimRecords]
  BY <1>1 DEF ClaimOver, ClaimRecords
<1>3. /\ \A t \in Sandboxes : t # s => claim'[t] = claim[t]
      /\ claim'[s].state = "over"
  BY <1>1 DEF ClaimOver, ClaimRecords
<1>4. req' \in [Requests -> ReqRecords]
  BY <1>1 DEF ClaimOver, ReqRecords
<1>5. ASSUME NEW r \in Requests PROVE GoodReq(req[r])'
  <2>1. GoodReq(req[r]) /\ (req[r].pc # "done" => req[r].id \in Ids /\ ClaimID(req[r].id) \in Sandboxes)
    BY InvTypes, IdTypes DEF GoodReq, Judged
  <2>2. CASE Names(r, s)
    <3>1. /\ req'[r].pc = req[r].pc /\ req'[r].id = req[r].id /\ req'[r].cred = req[r].cred
          /\ req'[r].answer = req[r].answer /\ req'[r].held = FALSE
      BY <1>1, <2>2 DEF ClaimOver, ReqRecords
    <3> QED
      BY <1>1, <2>1, <3>1 DEF GoodReq, Judged, Entitled, Timely
  <2>3. CASE ~Names(r, s)
    <3>1. req'[r] = req[r]
      BY <2>3 DEF ClaimOver
    <3>2. req[r].pc # "done" => ClaimID(req[r].id) # s
      BY <2>1, <2>3, IdTypes DEF Names
    <3> QED
      BY <1>1, <1>3, <2>1, <3>1, <3>2 DEF GoodReq, Judged, Entitled, Timely, Live
  <2> QED
    BY <2>2, <2>3
<1>6. CacheOK' /\ EntriesAge'
  BY <1>1, <1>3 DEF ProxyInv, CacheOK, EntriesAge
<1> QED
  BY <1>1, <1>2, <1>4, <1>5, <1>6 DEF ProxyInv, TypeOK, ClaimRecords, ReqRecords

\* Steps that leave requests, cache and time alone, and every sandbox on its
\* node and as live as it was.
LEMMA QuietEnvironment ==
    ASSUME ProxyInv, UNCHANGED <<recent, req, over>>,
           claim' \in [Sandboxes -> ClaimRecords],
           \A s \in Sandboxes : claim'[s].state = claim[s].state /\ claim'[s].node = claim[s].node,
           rows' \in SUBSET Sandboxes, listed' \in SUBSET Nodes, budget' \in 0..Burst
    PROVE  ProxyInv'
<1>1. ASSUME NEW r \in Requests PROVE GoodReq(req[r])'
  <2>1. GoodReq(req[r]) /\ (req[r].pc # "done" => ClaimID(req[r].id) \in Sandboxes)
    BY InvTypes, IdTypes DEF GoodReq, Judged
  <2> QED
    BY <2>1 DEF GoodReq, Judged, Entitled, Timely, Live
<1>2. CacheOK' /\ EntriesAge'
  BY DEF ProxyInv, CacheOK, EntriesAge
<1> QED
  BY <1>1, <1>2 DEF ProxyInv, TypeOK, ClaimRecords

LEMMA EnvironmentStep ==
    ASSUME ProxyInv,
           \/ \E s \in Sandboxes : Pause(s)
           \/ \E n \in Nodes : Publish(n) \/ Unlist(n)
           \/ Refill
    PROVE  ProxyInv'
<1>1. claim \in [Sandboxes -> ClaimRecords]
  BY InvTypes
<1>2. rows \in SUBSET Sandboxes /\ listed \in SUBSET Nodes /\ budget \in 0..Burst
  BY DEF ProxyInv, TypeOK
<1>3. ASSUME NEW s \in Sandboxes, Pause(s) PROVE ProxyInv'
  <2>1. claim' \in [Sandboxes -> ClaimRecords]
    BY <1>1, <1>3 DEF Pause, ClaimRecords
  <2>2. \A t \in Sandboxes : claim'[t].state = claim[t].state /\ claim'[t].node = claim[t].node
    BY <1>1, <1>3 DEF Pause, ClaimRecords
  <2> QED
    BY <1>2, <1>3, <2>1, <2>2, QuietEnvironment DEF Pause
<1>4. ASSUME NEW n \in Nodes, Publish(n) \/ Unlist(n) PROVE ProxyInv'
  <2>1. rows' \in SUBSET Sandboxes /\ listed' \in SUBSET Nodes
    BY <1>2, <1>4 DEF Publish, Unlist
  <2>2. UNCHANGED <<claim, recent, budget, req, over>>
    BY <1>4 DEF Publish, Unlist
  <2> QED
    BY <1>1, <1>2, <2>1, <2>2, QuietEnvironment
<1>5. CASE Refill
  <2>1. budget' \in 0..Burst
    BY <1>2, <1>5, BurstAssumption DEF Refill
  <2>2. UNCHANGED <<claim, rows, listed, over, recent, req>>
    BY <1>5 DEF Refill, nodeVars
  <2> QED
    BY <1>1, <1>2, <2>1, <2>2, QuietEnvironment
<1> QED
  BY <1>3, <1>4, <1>5

\* A tick ages entries and ended sandboxes alike, and an answer on its way to
\* the cache by one tick only.
LEMMA TickStep ==
    ASSUME ProxyInv, Tick
    PROVE  ProxyInv'
<1>1. req \in [Requests -> ReqRecords] /\ over \in [Sandboxes -> 0..Long]
  BY InvTypes DEF ProxyInv, TypeOK
<1>2. /\ UNCHANGED <<claim, rows, listed, budget>>
      /\ recent' = [id \in DOMAIN recent |-> IF recent[id] >= 0 THEN recent[id] - 1 ELSE -1]
      /\ over' = [s \in Sandboxes |-> IF claim[s].state = "over" /\ over[s] < Long
                                      THEN over[s] + 1 ELSE over[s]]
  BY DEF Tick
<1>3. req' \in [Requests -> ReqRecords]
  BY <1>1 DEF Tick, ReqRecords
<1>4. over' \in [Sandboxes -> 0..Long]
  BY <1>1, <1>2, TTLAssumption DEF Long
<1>5. \A s \in Sandboxes : over'[s] \in {over[s], over[s] + 1}
  BY <1>2
<1>6. CacheOK'
  BY <1>2, TTLAssumption DEF ProxyInv, CacheOK
<1>7. EntriesAge'
  <2>1. \A s \in Sandboxes : claim'[s].state # "over" => over'[s] = 0
    BY <1>2 DEF ProxyInv, EntriesAge
  <2>2. ASSUME NEW id \in DOMAIN recent', recent'[id] >= 0
        PROVE  over'[ClaimID(id)] + recent'[id] <= TTL + 1
    <3>1. id \in DOMAIN recent /\ ClaimID(id) \in Sandboxes /\ recent[id] \in -1..TTL
      BY <1>2, <2>2, IdTypes DEF ProxyInv, CacheOK
    <3>2. recent'[id] = recent[id] - 1 /\ recent[id] >= 0
      BY <1>2, <2>2, <3>1, TTLAssumption
    <3>3. over[ClaimID(id)] + recent[id] <= TTL + 1 /\ over[ClaimID(id)] \in Nat
      BY <1>1, <3>1, <3>2, TTLAssumption DEF ProxyInv, EntriesAge, Long
    <3> QED
      BY <1>5, <3>1, <3>2, <3>3, TTLAssumption
  <2> QED
    BY <2>1, <2>2 DEF EntriesAge
<1>8. ASSUME NEW r \in Requests PROVE GoodReq(req[r])'
  <2>1. GoodReq(req[r]) /\ (req[r].pc # "done" => ClaimID(req[r].id) \in Sandboxes)
        /\ req[r].pc # "late"
    BY InvTypes, IdTypes DEF GoodReq, Judged, Tick
  <2>2. CASE req[r].pc = "put"
    <3>1. /\ req'[r].pc = "late" /\ req'[r].id = req[r].id /\ req'[r].cred = req[r].cred
          /\ req'[r].answer = req[r].answer /\ req'[r].held = req[r].held
      BY <1>1, <2>2 DEF Tick, ReqRecords
    <3>2. over'[ClaimID(req[r].id)] <= 1
      BY <1>5, <2>1, <2>2 DEF GoodReq, Timely
    <3> QED
      BY <1>2, <2>1, <2>2, <3>1, <3>2 DEF GoodReq, Judged, Entitled, Timely, Live
  <2>3. CASE req[r].pc # "put"
    <3>1. req'[r] = req[r]
      BY <2>3 DEF Tick
    <3> QED
      BY <1>2, <2>1, <2>3, <3>1 DEF GoodReq, Judged, Entitled, Timely, Live
  <2> QED
    BY <2>2, <2>3
<1>9. (\E cached \in SUBSET Ids : recent \in [cached -> -1..TTL])'
  BY <1>6 DEF CacheOK
<1> QED
  BY <1>2, <1>3, <1>4, <1>6, <1>7, <1>8, <1>9 DEF ProxyInv, TypeOK, ReqRecords

-----------------------------------------------------------------------------
LEMMA ProxyInit == Init => ProxyInv
<1> SUFFICES ASSUME Init PROVE ProxyInv
  OBVIOUS
<1>1. Idle \in ReqRecords
  BY DEF Idle, ReqRecords, Creds, Answers
<1>2. DOMAIN recent = {} /\ CacheOK
  BY FS_EmptySet, MaxEntriesAssumption DEF Init, CacheOK
<1>3. EntriesAge
  BY <1>2 DEF Init, EntriesAge
<1>4. \A r \in Requests : GoodReq(req[r])
  BY DEF Init, Idle, GoodReq, Judged, Entitled, Timely
<1>5. TypeOK
  BY <1>1, <1>2, BurstAssumption, TTLAssumption DEF Init, TypeOK, CacheOK, ReqRecords, Long
<1> QED
  BY <1>2, <1>3, <1>4, <1>5 DEF ProxyInv

\* The invariant of every request, the cache and time is inductive.
THEOREM ProxyInvariant == Spec => []ProxyInv
<1>1. ProxyInv /\ [Next]_vars => ProxyInv'
  <2> SUFFICES ASSUME ProxyInv, [Next]_vars PROVE ProxyInv'
    OBVIOUS
  <2>1. ASSUME NEW r \in Requests, Handle(r) PROVE ProxyInv'
    BY <2>1, ServeStep, FindStep, ReadOwnerStep, ProbeStep, PutStep, RelayStep, FailStep DEF Handle
  <2>2. CASE Environment
    BY <2>2, ClaimMadeStep, ClaimOverStep, EnvironmentStep, TickStep DEF Environment
  <2>3. CASE UNCHANGED vars
    BY <2>3, InvTypes, QuietEnvironment DEF vars, ProxyInv, TypeOK
  <2> QED
    BY <2>1, <2>2, <2>3 DEF Next
<1> QED
  BY <1>1, ProxyInit, PTL DEF Spec

\* recentOwners.put (src/pkg/envdproxy): for any number of sandboxes, spellings
\* and callers the cache keeps within recentOwnerMax.
THEOREM CacheStaysBounded == Spec => []CacheBounded
<1>1. ProxyInv => CacheBounded
  BY DEF ProxyInv, CacheOK, CacheBounded
<1> QED
  BY <1>1, ProxyInvariant, PTL

\* Owner and Locate (src/pkg/envdproxy): no relay is opened for a token that is
\* not the sandbox's, whoever cached the owner.
THEOREM TokenAdmits == Spec => []AdmittedByToken
<1>1. ProxyInv => AdmittedByToken
  BY DEF ProxyInv, GoodReq, Judged, AdmittedByToken
<1> QED
  BY <1>1, ProxyInvariant, PTL

\* find and serve (src/pkg/envdproxy): a live sandbox is never denied, refused
\* or unavailable to who may reach it, unless the fleet or the budget failed.
THEOREM LiveAnswers == Spec => []LiveIsReached
<1>1. ProxyInv => LiveIsReached
  BY DEF ProxyInv, GoodReq, Entitled, LiveIsReached
<1> QED
  BY <1>1, ProxyInvariant, PTL

\* relayToken (src/pkg/envdproxy): a paused sandbox is woken by a request that
\* carries its own token and by no other step.
THEOREM WokenByOwner == Spec => WokenOnlyByItsToken
<1> DEFINE A == \A s \in Sandboxes :
                    (claim[s].paused /\ ~claim'[s].paused /\ claim'[s].state = "live") =>
                        \E r \in Requests : Names(r, s) /\ req[r].cred = "own" /\ req[r].pc = "relay"
<1>1. ProxyInv /\ [Next]_vars => [A]_vars
  <2> SUFFICES ASSUME ProxyInv, [Next]_vars, NEW s \in Sandboxes,
                      claim[s].paused, ~claim'[s].paused, claim'[s].state = "live"
               PROVE  \E r \in Requests : Names(r, s) /\ req[r].cred = "own" /\ req[r].pc = "relay"
    OBVIOUS
  <2>1. claim \in [Sandboxes -> ClaimRecords]
    BY InvTypes
  <2>2. claim'[s] # claim[s]
    OBVIOUS
  <2>3. ASSUME NEW r \in Requests, relay(r)
        PROVE  Names(r, s) /\ req[r].cred = "own" /\ req[r].pc = "relay"
    <3>1. req[r].pc = "relay" /\ req[r].cred \in {"own", "signed"} /\ req[r].id \in Ids
      BY <2>3, InvTypes DEF relay, GoodReq, Judged
    <3>2. /\ claim' = [claim EXCEPT ![ClaimID(req[r].id)].paused = FALSE]
          /\ claim[ClaimID(req[r].id)].paused => relayToken(req[r].cred) = "claim"
      BY <2>2, <2>3 DEF relay
    <3>3. ClaimID(req[r].id) = s
      BY <2>1, <2>2, <3>2
    <3> QED
      BY <3>1, <3>2, <3>3, IdTypes DEF relayToken, Names
  <2>4. ASSUME NEW r \in Requests, Handle(r), ~relay(r) PROVE UNCHANGED claim
    BY <2>4 DEF Handle, serve, find, InventoryFails, readOwner, probe, put, relayFails, nodeVars
  <2>5. ASSUME NEW t \in Sandboxes, NEW n \in Nodes, ClaimMade(t, n) PROVE FALSE
    BY <2>1, <2>5 DEF ClaimMade, ClaimRecords
  <2>6. ASSUME NEW t \in Sandboxes, ClaimOver(t) \/ Pause(t) PROVE FALSE
    BY <2>1, <2>6 DEF ClaimOver, Pause, ClaimRecords
  <2>7. ASSUME \/ \E n \in Nodes : Publish(n) \/ Unlist(n)
               \/ Refill \/ Tick \/ UNCHANGED vars
        PROVE  UNCHANGED claim
    BY <2>7 DEF Publish, Unlist, Refill, Tick, vars, nodeVars
  <2> QED
    BY <2>2, <2>3, <2>4, <2>5, <2>6, <2>7 DEF Next, Environment
<1> QED
  BY <1>1, ProxyInvariant, PTL DEF Spec, WokenOnlyByItsToken

\* recentOwners.get (src/pkg/envdproxy): the cache sends a request to a sandbox
\* that is over within recentOwnerTTL of its end and a node's answer, for any
\* TTL.
THEOREM CacheGoesStaleInTime == Spec => StaleWithinTTL
<1> DEFINE A == \A r \in Requests :
                    (req[r].pc = "done" /\ req'[r].pc = "relay") =>
                        over[ClaimID(req'[r].id)] <= TTL + 1
<1>1. ProxyInv /\ [Next]_vars => [A]_vars
  <2> SUFFICES ASSUME ProxyInv, [Next]_vars, NEW r \in Requests,
                      req[r].pc = "done", req'[r].pc = "relay"
               PROVE  over[ClaimID(req'[r].id)] <= TTL + 1
    OBVIOUS
  <2>1. req \in [Requests -> ReqRecords] /\ req[r] \in ReqRecords
    BY InvTypes
  <2>2. ASSUME NEW id \in Ids, NEW cred \in Creds, serve(r, id, cred)
        PROVE  over[ClaimID(req'[r].id)] <= TTL + 1
    <3> DEFINE started == [Idle EXCEPT !.id = id, !.cred = cred,
                               !.held = cred \in {"own", "signed"} /\ Live(ClaimID(id))]
    <3>1. req'[r] = IF cred = "none" THEN Finished(started, "denied")
                    ELSE IF get(id) THEN Admitted(started)
                    ELSE [started EXCEPT !.pc = "resolve"]
      BY <2>1, <2>2 DEF serve
    <3>2. get(id) /\ req'[r].id = id
      BY <3>1 DEF Finished, Admitted, Idle
    <3>3. over[ClaimID(id)] + recent[id] <= TTL + 1 /\ recent[id] >= 0
      BY <3>2 DEF get, Fresh, ProxyInv, EntriesAge
    <3>4. over[ClaimID(id)] \in Nat /\ recent[id] \in Int
      BY <3>2, IdTypes, TTLAssumption DEF get, Fresh, ProxyInv, TypeOK, CacheOK, Long
    <3> QED
      BY <3>2, <3>3, <3>4, TTLAssumption
  <2>3. ASSUME NEW p \in Requests, Handle(p),
               ~\E id \in Ids, cred \in Creds : serve(p, id, cred)
        PROVE  FALSE
    <3>1. req[p].pc # "done"
      BY <2>3 DEF Handle, find, InventoryFails, readOwner, probe, put, relay, relayFails
    <3>2. p # r
      BY <3>1
    <3>3. \E q : req' = [req EXCEPT ![p] = q]
      BY <2>1, <2>3 DEF Handle, find, notPublished, InventoryFails, readOwner, probe, askNode,
         nodeSilent, put, relay, relayFails, Goto, Answer, AnswerExcused
    <3> QED
      BY <2>1, <3>2, <3>3
  <2>4. ASSUME NEW p \in Requests, p # r, NEW id \in Ids, NEW cred \in Creds, serve(p, id, cred)
        PROVE  FALSE
    BY <2>1, <2>4 DEF serve
  <2>5. ASSUME NEW s \in Sandboxes, ClaimOver(s) PROVE FALSE
    BY <2>1, <2>5 DEF ClaimOver, ReqRecords
  <2>6. CASE Tick
    BY <2>1, <2>6 DEF Tick, ReqRecords
  <2>7. ASSUME \/ \E s \in Sandboxes, n \in Nodes : ClaimMade(s, n)
               \/ \E s \in Sandboxes : Pause(s)
               \/ \E n \in Nodes : Publish(n) \/ Unlist(n)
               \/ Refill \/ UNCHANGED vars
        PROVE  FALSE
    BY <2>7 DEF ClaimMade, Pause, Publish, Unlist, Refill, vars
  <2> QED
    BY <2>2, <2>3, <2>4, <2>5, <2>6, <2>7 DEF Next, Environment
<1> QED
  BY <1>1, ProxyInvariant, PTL DEF Spec, StaleWithinTTL
=============================================================================
