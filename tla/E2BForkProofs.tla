---------------------------- MODULE E2BForkProofs ----------------------------
(***************************************************************************)
(* Proofs about a claim, a create and a fork, for every number of          *)
(* concurrent calls, nodes and children.  The first part is about          *)
(* SandboxStore.Claim alone: a call never costs two microVMs, a success    *)
(* names the node that delivered, and "no warm capacity" leaves nothing    *)
(* behind.  The second carries this over to the two claims of a create and *)
(* shows that a create that fails leaves nothing behind, the third that a  *)
(* fork is all or nothing, the last that "no warm capacity" is said only   *)
(* after every candidate said so.                                          *)
(***************************************************************************)
EXTENDS E2BFork, TLAPS

\* Call c has no microVM, and no node can still give it one.
Clean(c) == delivered[c] = <<>> /\ Outstanding(c) = {}

\* Node n delivered c's only microVM, and no other request is open.
DeliveredBy(c, n) == delivered[c] = <<n>> /\ Outstanding(c) = {}

\* Call c got at most one microVM, or has at most the request to the node it
\* asked last open, but not both.
AtMostLast(c) ==
    \/ Clean(c)
    \/ delivered[c] = <<>> /\ Outstanding(c) = {[call |-> c, node |-> at[c]]}
    \/ DeliveredBy(c, at[c])

\* What a call knows, by how far it got: before a request it is clean, while
\* it waits only the node it asked may deliver, and an answer tells which.
Knowledge(c) ==
    /\ pc[c] \in {"idle", "pick", "hop"} => Clean(c)
    /\ pc[c] = "wait" =>
          /\ at[c] \in Nodes
          /\ reply[c].kind = "none" =>
                /\ reply[c] = NoReply
                /\ delivered[c] = <<>>
                /\ Outstanding(c) = {[call |-> c, node |-> at[c]]}
          /\ reply[c].kind = "ok" => DeliveredBy(c, at[c])
          /\ reply[c].kind \in Failures \ {"lost"} => Clean(c)
          /\ reply[c].kind = "lost" => AtMostLast(c)
    /\ pc[c] = "done" => result[c].kind # "none"
    /\ pc[c] # "done" => result[c].kind = "none"
    /\ result[c].kind = "noWarm" => Clean(c)
    /\ result[c].kind = "failed" => AtMostLast(c)
    /\ result[c].kind = "ok" => DeliveredBy(c, result[c].node) /\ index[c] = result[c].node

IInv == TypeOK /\ \A c \in Calls : Knowledge(c)

-----------------------------------------------------------------------------
\* A list of redirect targets is a sequence of nodes.
LEMMA TargetListsAreSequences == TargetLists \subseteq Seq(Nodes)
<1> SUFFICES ASSUME NEW s \in TargetLists PROVE s \in Seq(Nodes)
  OBVIOUS
<1>1. PICK n \in 1..MaxTargets : s \in [1..n -> Nodes]
  BY DEF TargetLists
<1>2. n \in Nat
  BY <1>1, MaxTargetsAssumption
<1> QED
  BY <1>1, <1>2

\* Every constant record of the model has its type.
LEMMA ReplyTypes ==
    /\ NoReply \in [kind : Kinds, targets : Seq(Nodes)]
    /\ NoReply.kind = "none"
    /\ \A k \in Kinds : Reply(k, <<>>) \in [kind : Kinds, targets : Seq(Nodes)]
    /\ \A ts \in TargetLists : Reply("redirect", ts) \in [kind : Kinds, targets : Seq(Nodes)]
<1>1. <<>> \in Seq(Nodes)
  OBVIOUS
<1> QED
  BY <1>1, TargetListsAreSequences DEF NoReply, Reply, Kinds, Failures

LEMMA InitIInv == Init => IInv
<1> SUFFICES ASSUME Init PROVE IInv
  OBVIOUS
<1>0. <<>> \in Seq(Nodes)
  OBVIOUS
<1>1. TypeOK
  BY <1>0, ReplyTypes DEF Init, TypeOK, Result, ResultKinds
<1>2. ASSUME NEW c \in Calls PROVE Knowledge(c)
  BY <1>2 DEF Init, Knowledge, Clean, Outstanding, Result
<1> QED
  BY <1>1, <1>2 DEF IInv

\* Knowledge of a call that a step leaves alone is kept.
LEMMA KnowledgeFrame ==
    ASSUME NEW c \in Calls, Knowledge(c),
           pc'[c] = pc[c], at'[c] = at[c], reply'[c] = reply[c],
           delivered'[c] = delivered[c], Outstanding(c)' = Outstanding(c),
           index'[c] = index[c], result'[c] = result[c]
    PROVE  Knowledge(c)'
  BY DEF Knowledge, Clean, DeliveredBy, AtMostLast

\* The requests of other calls are untouched when call c asks a node, and
\* when one of c's requests leaves the wire.
LEMMA OutstandingFrame ==
    ASSUME TypeOK, NEW m \in [call : Calls, node : Nodes], NEW d \in Calls, d # m.call
    PROVE  /\ wire' = wire \cup {m} => Outstanding(d)' = Outstanding(d)
           /\ wire' = wire \ {m} => Outstanding(d)' = Outstanding(d)
  BY DEF Outstanding

\* The steps in which a call ends, or goes on to "pick" or "hop", without
\* touching the wire or the microVMs: enough that the call is clean, or that
\* it fails with at most the last request open.
LEMMA CallStepKeepsKnowledge ==
    ASSUME TypeOK, TypeOK', \A d \in Calls : Knowledge(d), NEW c \in Calls,
           UNCHANGED <<wire, delivered, at, reply, index>>,
           \E p \in {"pick", "hop", "done"} : pc' = [pc EXCEPT ![c] = p],
           \/ Clean(c) /\ pc'[c] # "done" /\ UNCHANGED result /\ result[c].kind = "none"
           \/ Clean(c) /\ pc'[c] # "done" /\ result' = [result EXCEPT ![c] = Result("none", NoNode)]
           \/ Clean(c) /\ pc'[c] = "done" /\ result' = [result EXCEPT ![c] = Result("noWarm", NoNode)]
           \/ AtMostLast(c) /\ pc'[c] = "done" /\ result' = [result EXCEPT ![c] = Result("failed", NoNode)]
    PROVE  \A d \in Calls : Knowledge(d)'
<1> SUFFICES ASSUME NEW d \in Calls PROVE Knowledge(d)'
  OBVIOUS
<1>0. Outstanding(d)' = Outstanding(d) /\ delivered'[d] = delivered[d] /\ at'[d] = at[d]
  BY DEF Outstanding
<1>1. CASE d # c
  <2>1. pc'[d] = pc[d] /\ result'[d] = result[d] /\ reply'[d] = reply[d] /\ index'[d] = index[d]
    BY <1>1 DEF TypeOK
  <2> QED
    BY <2>1, <1>0, KnowledgeFrame
<1>2. CASE d = c
  <2>1. (Clean(c) => Clean(c)') /\ (AtMostLast(c) => AtMostLast(c)')
    BY <1>0, <1>2 DEF Clean, AtMostLast, DeliveredBy
  <2>2. pc'[c] \in {"pick", "hop", "done"}
    BY DEF TypeOK
  <2> QED
    BY <1>2, <2>1, <2>2 DEF Knowledge, TypeOK, Result
<1> QED
  BY <1>1, <1>2

-----------------------------------------------------------------------------
\* Every step keeps the types.
LEMMA NextTypeOK == IInv /\ [Next]_vars => TypeOK'
<1> SUFFICES ASSUME IInv, [Next]_vars PROVE TypeOK'
  OBVIOUS
<1>t. TypeOK
  BY DEF IInv
<1> USE <1>t
<1>r. \A k \in {"noWarm", "failed"} :
          Result(k, NoNode) \in [kind : ResultKinds, node : Nodes \cup {NoNode}]
  BY DEF Result, ResultKinds
<1>d. ASSUME NEW c \in Calls, dropPicked(c)
      PROVE  /\ cand' \in [Calls -> SUBSET Nodes]
             /\ pc' \in [Calls -> {"idle", "pick", "wait", "hop", "done"}]
             /\ result' \in [Calls -> [kind : ResultKinds, node : Nodes \cup {NoNode}]]
  <2>1. remaining(c) \in SUBSET Nodes
    BY DEF remaining, TypeOK
  <2> QED
    <3>0. cand' \in [Calls -> SUBSET Nodes]
      BY <1>d, <2>1 DEF dropPicked, TypeOK
    <3>1. CASE Finish(c, "noWarm")
      BY <1>r, <3>0, <3>1 DEF Finish, TypeOK
    <3>2. CASE pc' = [pc EXCEPT ![c] = "pick"] /\ UNCHANGED result
      BY <3>0, <3>2 DEF TypeOK
    <3> QED
      BY <1>d, <3>1, <3>2 DEF dropPicked
<1>s. ASSUME NEW c \in Calls, NEW o \in BOOLEAN, NEW s \in Snapshots(o), StartClaim(c, s)
      PROVE  TypeOK'
  <2>1. /\ s \in [known : SUBSET Nodes, cand : SUBSET Nodes, promoted : BOOLEAN]
        /\ s.cand \in SUBSET Nodes
    BY DEF Snapshots
  <2>2. /\ pc' \in [Calls -> {"idle", "pick", "wait", "hop", "done"}]
        /\ result' \in [Calls -> [kind : ResultKinds, node : Nodes \cup {NoNode}]]
    <3>1. CASE s.cand = {} /\ Finish(c, "noWarm")
      BY <1>r, <3>1 DEF Finish, TypeOK
    <3>2. CASE /\ pc' = [pc EXCEPT ![c] = "pick"]
               /\ result' = [result EXCEPT ![c] = Result("none", NoNode)]
      BY <3>2 DEF Result, ResultKinds, TypeOK
    <3> QED
      BY <1>s, <3>1, <3>2 DEF StartClaim
  <2>3. UNCHANGED <<from, at, redirect, left, wire, reply, delivered, index>>
    BY <1>s DEF StartClaim
  <2>4. /\ snap' \in [Calls -> [known : SUBSET Nodes, cand : SUBSET Nodes, promoted : BOOLEAN]]
        /\ cand' \in [Calls -> SUBSET Nodes]
        /\ silent' \in [Calls -> SUBSET Nodes]
    BY <1>s, <2>1 DEF StartClaim, TypeOK
  <2> QED
    BY <2>2, <2>3, <2>4 DEF TypeOK
<1>1. CASE UNCHANGED vars
  BY <1>1 DEF vars, TypeOK
<1>2. ASSUME NEW c \in Calls, Claim(c) PROVE TypeOK'
  BY <1>2, <1>s DEF Claim
<1>3. ASSUME NEW c \in Calls, ClaimWithoutInventory(c) PROVE TypeOK'
  BY <1>3, <1>r DEF ClaimWithoutInventory, Finish, TypeOK, ResultKinds
<1>4. ASSUME NEW c \in Calls, NEW n \in Nodes, pickPowerOfTwo(c, n) PROVE TypeOK'
  BY <1>4, ReplyTypes DEF pickPowerOfTwo, Ask, TypeOK
<1>5. ASSUME NEW c \in Calls, Delivered(c) PROVE TypeOK'
  <2>1. at[c] \in Nodes \cup {NoNode}
    BY DEF TypeOK
  <2>2. Result("ok", at[c]) \in [kind : ResultKinds, node : Nodes \cup {NoNode}]
    BY <2>1 DEF Result, ResultKinds
  <2> QED
    BY <1>5, <2>1, <2>2 DEF Delivered, claimSucceeds, TypeOK
<1>6. ASSUME NEW c \in Calls, Redirected(c) PROVE TypeOK'
  <2>1. reply[c].targets \in Seq(Nodes) /\ at[c] \in Nodes
    BY <1>6 DEF TypeOK, Redirected, IInv, Knowledge
  <2> QED
    BY <1>6, <2>1 DEF Redirected, TypeOK
<1>7. ASSUME NEW c \in Calls, PickDeliversNothing(c) PROVE TypeOK'
  <2>1. at[c] \in Nodes
    BY <1>7 DEF PickDeliversNothing, IInv, Knowledge
  <2> QED
    BY <1>7, <1>d, <2>1 DEF PickDeliversNothing, TypeOK
<1>8. ASSUME NEW c \in Calls, TemplateGone(c) PROVE TypeOK'
  <2>1. at[c] \in Nodes
    BY <1>8 DEF TemplateGone, IInv, Knowledge
  <2> QED
    BY <1>8, <1>d, <2>1 DEF TemplateGone, TypeOK
<1>9. ASSUME NEW c \in Calls, PeerDeliversNothing(c) PROVE TypeOK'
  <2>1. at[c] \in Nodes
    BY <1>9 DEF PeerDeliversNothing, IInv, Knowledge
  <2> QED
    BY <1>9, <2>1 DEF PeerDeliversNothing, TypeOK
<1>10. ASSUME NEW c \in Calls, Fails(c) PROVE TypeOK'
  BY <1>10, <1>r DEF Fails, Finish, TypeOK, ResultKinds
<1>11. ASSUME NEW c \in Calls, SkipUnknownPeer(c) PROVE TypeOK'
  <2>1. Tail(left[c]) \in Seq(Nodes)
    BY <1>11 DEF SkipUnknownPeer, TypeOK
  <2> QED
    BY <1>11, <2>1 DEF SkipUnknownPeer, TypeOK
<1>12. ASSUME NEW c \in Calls, AskPeer(c) PROVE TypeOK'
  <2>1. Tail(left[c]) \in Seq(Nodes) /\ Head(left[c]) \in Nodes
    BY <1>12 DEF AskPeer, TypeOK
  <2> QED
    BY <1>12, <2>1, ReplyTypes DEF AskPeer, Ask, TypeOK
<1>13. ASSUME NEW c \in Calls, RedirectExhausted(c) PROVE TypeOK'
  BY <1>13, <1>d DEF RedirectExhausted, TypeOK
<1>14. ASSUME NEW c \in Calls, AnswerLost(c) PROVE TypeOK'
  BY <1>14, ReplyTypes DEF AnswerLost, TypeOK, Kinds, Failures
<1>15. ASSUME NEW m \in wire, NodeDelivers(m) PROVE TypeOK'
  <2>1. m.call \in Calls /\ m.node \in Nodes /\ delivered[m.call] \in Seq(Nodes)
    BY <1>15 DEF TypeOK
  <2>2. Append(delivered[m.call], m.node) \in Seq(Nodes)
    BY <2>1
  <2>3. Reply("ok", <<>>) \in [kind : Kinds, targets : Seq(Nodes)]
    BY ReplyTypes DEF Kinds
  <2> QED
    BY <1>15, <2>1, <2>2, <2>3 DEF NodeDelivers, Answer, TypeOK
<1>16. ASSUME NEW m \in wire, NodeRefuses(m) PROVE TypeOK'
  <2>1. PICK r \in [kind : Kinds, targets : Seq(Nodes)] : Answer(m, r)
    BY <1>16, ReplyTypes DEF NodeRefuses, Kinds
  <2> QED
    BY <1>16, <2>1 DEF NodeRefuses, Answer, TypeOK
<1> QED
  BY <1>1, <1>2, <1>3, <1>4, <1>5, <1>6, <1>7, <1>8, <1>9, <1>10, <1>11, <1>12,
     <1>13, <1>14, <1>15, <1>16
  DEF Next, Handle, Network, Quiescent

-----------------------------------------------------------------------------
\* Every step keeps what every call knows.
LEMMA NextKnowledge == IInv /\ [Next]_vars => \A c \in Calls : Knowledge(c)'
<1> SUFFICES ASSUME IInv, [Next]_vars PROVE \A c \in Calls : Knowledge(c)'
  OBVIOUS
<1>t. TypeOK /\ TypeOK' /\ \A c \in Calls : Knowledge(c)
  BY NextTypeOK DEF IInv
<1> USE <1>t
\* The two ways dropPicked ends.
<1>d. ASSUME NEW c \in Calls, dropPicked(c), Clean(c), pc[c] # "done",
             UNCHANGED <<wire, delivered, at, reply, index>>
      PROVE  \A d \in Calls : Knowledge(d)'
  <2>0. result[c].kind = "none"
    BY <1>d DEF Knowledge
  <2>1. CASE Finish(c, "noWarm")
    <3>1. pc'[c] = "done"
      BY <2>1 DEF Finish, TypeOK
    <3> QED
      BY <1>d, <2>0, <2>1, <3>1, CallStepKeepsKnowledge DEF Finish
  <2>2. CASE pc' = [pc EXCEPT ![c] = "pick"] /\ UNCHANGED result
    <3>1. pc'[c] = "pick"
      BY <2>2 DEF TypeOK
    <3> QED
      BY <1>d, <2>0, <2>2, <3>1, CallStepKeepsKnowledge
  <2> QED
    BY <1>d, <2>1, <2>2 DEF dropPicked
\* Asking a node from a clean state.
<1>k. ASSUME NEW c \in Calls, NEW n \in Nodes, Ask(c, n), Clean(c), pc[c] # "done",
             UNCHANGED <<delivered, index, result>>
      PROVE  \A d \in Calls : Knowledge(d)'
  <2> SUFFICES ASSUME NEW d \in Calls PROVE Knowledge(d)'
    OBVIOUS
  <2> DEFINE m == [call |-> c, node |-> n]
  <2>1. m \in [call : Calls, node : Nodes] /\ m.call = c /\ m.node = n
    OBVIOUS
  <2>2. wire' = wire \cup {m}
    BY <1>k DEF Ask
  <2>3. CASE d # c
    <3>1. /\ pc'[d] = pc[d] /\ at'[d] = at[d] /\ reply'[d] = reply[d]
          /\ delivered'[d] = delivered[d] /\ index'[d] = index[d] /\ result'[d] = result[d]
      BY <1>k, <2>3 DEF Ask, TypeOK
    <3>2. Outstanding(d)' = Outstanding(d)
      BY <2>1, <2>2, <2>3, OutstandingFrame
    <3> QED
      BY <3>1, <3>2, KnowledgeFrame
  <2>4. CASE d = c
    <3>1. Outstanding(c)' = {m}
      BY <1>k, <2>1, <2>2 DEF Outstanding, Clean
    <3>2. /\ pc'[c] = "wait" /\ at'[c] = n /\ reply'[c] = NoReply
          /\ delivered'[c] = <<>> /\ result'[c].kind = "none"
      BY <1>k DEF Ask, TypeOK, Clean, Knowledge
    <3> QED
      BY <2>4, <3>1, <3>2, ReplyTypes DEF Knowledge, Failures
  <2> QED
    BY <2>3, <2>4
<1>1. CASE UNCHANGED vars
  <2> SUFFICES ASSUME NEW d \in Calls PROVE Knowledge(d)'
    OBVIOUS
  <2>1. Outstanding(d)' = Outstanding(d)
    BY <1>1 DEF vars, Outstanding
  <2> QED
    BY <1>1, <2>1, KnowledgeFrame DEF vars
<1>2. ASSUME NEW c \in Calls, Claim(c) PROVE \A d \in Calls : Knowledge(d)'
  <2>1. PICK o \in BOOLEAN : \E s \in Snapshots(o) : StartClaim(c, s)
    BY <1>2 DEF Claim
  <2>2. Clean(c) /\ result[c].kind = "none" /\ pc[c] = "idle"
    BY <1>2 DEF Claim, Knowledge
  <2>3. UNCHANGED <<wire, delivered, at, reply, index>>
    BY <2>1 DEF StartClaim
  <2>4. CASE Finish(c, "noWarm")
    <3>1. pc'[c] = "done"
      BY <2>4 DEF Finish, TypeOK
    <3> QED
      BY <2>2, <2>3, <2>4, <3>1, CallStepKeepsKnowledge DEF Finish
  <2>5. CASE /\ pc' = [pc EXCEPT ![c] = "pick"]
             /\ result' = [result EXCEPT ![c] = Result("none", NoNode)]
    <3>1. pc'[c] = "pick" /\ result'[c].kind = "none"
      BY <2>5 DEF Result, TypeOK
    <3> QED
      BY <2>2, <2>3, <2>5, <3>1, CallStepKeepsKnowledge
  <2> QED
    BY <2>1, <2>4, <2>5 DEF StartClaim
<1>3. ASSUME NEW c \in Calls, ClaimWithoutInventory(c) PROVE \A d \in Calls : Knowledge(d)'
  <2>1. AtMostLast(c)
    BY <1>3 DEF ClaimWithoutInventory, Knowledge, AtMostLast
  <2>2. pc'[c] = "done"
    BY <1>3 DEF ClaimWithoutInventory, Finish, TypeOK
  <2> QED
    BY <1>3, <2>1, <2>2, CallStepKeepsKnowledge DEF ClaimWithoutInventory, Finish
<1>4. ASSUME NEW c \in Calls, NEW n \in Nodes, pickPowerOfTwo(c, n)
      PROVE  \A d \in Calls : Knowledge(d)'
  <2>1. Clean(c) /\ pc[c] # "done"
    BY <1>4 DEF pickPowerOfTwo, Knowledge
  <2> QED
    BY <1>4, <2>1, <1>k DEF pickPowerOfTwo
<1>5. ASSUME NEW c \in Calls, Delivered(c) PROVE \A d \in Calls : Knowledge(d)'
  <2> SUFFICES ASSUME NEW d \in Calls PROVE Knowledge(d)'
    OBVIOUS
  <2>0. Outstanding(d)' = Outstanding(d) /\ UNCHANGED <<wire, delivered, at, reply>>
    BY <1>5 DEF Delivered, claimSucceeds, Outstanding
  <2>1. CASE d # c
    <3>1. pc'[d] = pc[d] /\ index'[d] = index[d] /\ result'[d] = result[d]
      BY <1>5, <2>1 DEF Delivered, claimSucceeds, TypeOK
    <3> QED
      BY <2>0, <3>1, KnowledgeFrame
  <2>2. CASE d = c
    <3>1. DeliveredBy(c, at[c])
      BY <1>5 DEF Delivered, Knowledge
    <3>2. pc'[c] = "done" /\ index'[c] = at[c] /\ result'[c] = Result("ok", at[c])
      BY <1>5 DEF Delivered, claimSucceeds, TypeOK
    <3>3. delivered'[c] = <<at[c]>> /\ Outstanding(c)' = {}
      BY <2>0, <2>2, <3>1 DEF DeliveredBy
    <3> QED
      BY <2>2, <3>2, <3>3 DEF Knowledge, DeliveredBy, Result
  <2> QED
    BY <2>1, <2>2
<1>6. ASSUME NEW c \in Calls, Redirected(c) PROVE \A d \in Calls : Knowledge(d)'
  <2>1. Clean(c) /\ result[c].kind = "none"
    BY <1>6 DEF Redirected, Knowledge, Failures
  <2>2. pc'[c] = "hop"
    BY <1>6 DEF Redirected, TypeOK
  <2> QED
    BY <1>6, <2>1, <2>2, CallStepKeepsKnowledge DEF Redirected
<1>7. ASSUME NEW c \in Calls, PickDeliversNothing(c) PROVE \A d \in Calls : Knowledge(d)'
  <2>1. Clean(c) /\ pc[c] # "done"
    BY <1>7 DEF PickDeliversNothing, claimUndelivered, Knowledge, Failures
  <2> QED
    BY <1>7, <2>1, <1>d DEF PickDeliversNothing
<1>8. ASSUME NEW c \in Calls, TemplateGone(c) PROVE \A d \in Calls : Knowledge(d)'
  <2>1. Clean(c) /\ pc[c] # "done"
    BY <1>8 DEF TemplateGone, templateGone, Knowledge, Failures
  <2> QED
    BY <1>8, <2>1, <1>d DEF TemplateGone
<1>9. ASSUME NEW c \in Calls, PeerDeliversNothing(c) PROVE \A d \in Calls : Knowledge(d)'
  <2>1. Clean(c) /\ result[c].kind = "none"
    BY <1>9 DEF PeerDeliversNothing, claimUndelivered, Knowledge, Failures
  <2>2. pc'[c] = "hop"
    BY <1>9 DEF PeerDeliversNothing, TypeOK
  <2> QED
    BY <1>9, <2>1, <2>2, CallStepKeepsKnowledge DEF PeerDeliversNothing
<1>10. ASSUME NEW c \in Calls, Fails(c) PROVE \A d \in Calls : Knowledge(d)'
  <2>1. AtMostLast(c)
    BY <1>10 DEF Fails, Knowledge, AtMostLast, Failures
  <2>2. pc'[c] = "done"
    BY <1>10 DEF Fails, Finish, TypeOK
  <2> QED
    BY <1>10, <2>1, <2>2, CallStepKeepsKnowledge DEF Fails, Finish
<1>11. ASSUME NEW c \in Calls, SkipUnknownPeer(c) PROVE \A d \in Calls : Knowledge(d)'
  <2> SUFFICES ASSUME NEW d \in Calls PROVE Knowledge(d)'
    OBVIOUS
  <2>1. Outstanding(d)' = Outstanding(d)
    BY <1>11 DEF SkipUnknownPeer, Outstanding
  <2> QED
    BY <1>11, <2>1, KnowledgeFrame DEF SkipUnknownPeer
<1>12. ASSUME NEW c \in Calls, AskPeer(c) PROVE \A d \in Calls : Knowledge(d)'
  <2>1. Clean(c) /\ pc[c] # "done"
    BY <1>12 DEF AskPeer, Knowledge
  <2>2. Head(left[c]) \in Nodes
    BY <1>12 DEF AskPeer, TypeOK
  <2> QED
    BY <1>12, <2>1, <2>2, <1>k DEF AskPeer
<1>13. ASSUME NEW c \in Calls, RedirectExhausted(c) PROVE \A d \in Calls : Knowledge(d)'
  <2>1. Clean(c) /\ pc[c] # "done"
    BY <1>13 DEF RedirectExhausted, Knowledge
  <2> QED
    BY <1>13, <2>1, <1>d DEF RedirectExhausted
<1>14. ASSUME NEW c \in Calls, AnswerLost(c) PROVE \A d \in Calls : Knowledge(d)'
  <2> SUFFICES ASSUME NEW d \in Calls PROVE Knowledge(d)'
    OBVIOUS
  <2>0. Outstanding(d)' = Outstanding(d) /\ UNCHANGED <<pc, at, delivered, index, result>>
    BY <1>14 DEF AnswerLost, Outstanding
  <2>1. CASE d # c
    <3>1. reply'[d] = reply[d]
      BY <1>14, <2>1 DEF AnswerLost, TypeOK
    <3> QED
      BY <2>0, <3>1, KnowledgeFrame
  <2>2. CASE d = c
    <3>1. pc[c] = "wait" /\ reply'[c].kind = "lost"
      BY <1>14 DEF AnswerLost, TypeOK, Reply
    <3>2. AtMostLast(c)
      <4>1. reply[c].kind \in Kinds
        BY DEF TypeOK
      <4> QED
        BY <3>1, <4>1, <1>14 DEF AnswerLost, Knowledge, AtMostLast, Kinds
    <3>3. AtMostLast(c)'
      BY <2>0, <2>2, <3>2 DEF AtMostLast, Clean, DeliveredBy
    <3> QED
      BY <2>0, <2>2, <3>1, <3>3 DEF Knowledge, Failures
  <2> QED
    BY <2>1, <2>2
<1>15. ASSUME NEW m \in wire, NodeDelivers(m) PROVE \A d \in Calls : Knowledge(d)'
  <2> SUFFICES ASSUME NEW d \in Calls PROVE Knowledge(d)'
    OBVIOUS
  <2>0. /\ m \in [call : Calls, node : Nodes] /\ m.call \in Calls /\ m.node \in Nodes
        /\ m = [call |-> m.call, node |-> m.node]
    BY DEF TypeOK
  <2>1. wire' = wire \ {m} /\ UNCHANGED <<pc, at, index, result>>
    BY <1>15 DEF NodeDelivers, Answer
  <2>2. CASE d # m.call
    <3>1. Outstanding(d)' = Outstanding(d)
      BY <2>0, <2>1, <2>2, OutstandingFrame
    <3>2. reply'[d] = reply[d] /\ delivered'[d] = delivered[d]
      BY <1>15, <2>0, <2>2 DEF NodeDelivers, Answer, TypeOK
    <3> QED
      BY <2>1, <3>1, <3>2, KnowledgeFrame
  <2>3. CASE d = m.call
    <3>1. m \in Outstanding(d)
      BY <2>3 DEF Outstanding
    <3>2. /\ delivered[d] = <<>> /\ m.node = at[d]
          /\ Outstanding(d) = {m}
          /\ \/ pc[d] = "wait" /\ reply[d].kind \in {"none", "lost"}
             \/ pc[d] = "done" /\ result[d].kind = "failed"
      <4>1. reply[d].kind \in Kinds /\ result[d].kind \in ResultKinds
            /\ pc[d] \in {"idle", "pick", "wait", "hop", "done"}
        BY DEF TypeOK
      <4> QED
        BY <3>1, <4>1, <2>0, <2>3 DEF Knowledge, Clean, DeliveredBy, AtMostLast, Kinds, ResultKinds
    <3>3. Outstanding(d)' = {}
      BY <2>1, <3>2 DEF Outstanding
    <3>4. delivered'[d] = <<at[d]>>
      BY <1>15, <2>3, <3>2 DEF NodeDelivers, TypeOK
    <3>5. DeliveredBy(d, at[d])' /\ AtMostLast(d)'
      BY <2>1, <3>3, <3>4 DEF DeliveredBy, AtMostLast
    <3>6. reply'[d] = IF Waits(d, m.node) THEN Reply("ok", <<>>) ELSE reply[d]
      BY <1>15, <2>3 DEF NodeDelivers, Answer, TypeOK
    <3>7. CASE pc[d] = "wait" /\ reply[d].kind = "none"
      <4>1. reply'[d].kind = "ok"
        BY <3>2, <3>6, <3>7 DEF Waits, Knowledge, Reply
      <4> QED
        BY <2>1, <3>5, <3>7, <4>1 DEF Knowledge, Failures
    <3>8. CASE pc[d] = "wait" /\ reply[d].kind = "lost"
      <4>1. reply'[d].kind = "lost"
        BY <3>6, <3>8, ReplyTypes DEF Waits
      <4> QED
        BY <2>1, <3>5, <3>8, <4>1 DEF Knowledge, Failures
    <3>9. CASE pc[d] = "done" /\ result[d].kind = "failed"
      BY <2>1, <3>5, <3>9 DEF Knowledge
    <3> QED
      BY <3>2, <3>7, <3>8, <3>9
  <2> QED
    BY <2>2, <2>3
<1>16. ASSUME NEW m \in wire, NodeRefuses(m) PROVE \A d \in Calls : Knowledge(d)'
  <2> SUFFICES ASSUME NEW d \in Calls PROVE Knowledge(d)'
    OBVIOUS
  <2>0. /\ m \in [call : Calls, node : Nodes] /\ m.call \in Calls /\ m.node \in Nodes
        /\ m = [call |-> m.call, node |-> m.node]
    BY DEF TypeOK
  <2>r. PICK r : Answer(m, r) /\ r.kind \in Failures \ {"lost"}
    <3>1. CASE \E kind \in Failures \ {"redirect", "lost"} : Answer(m, Reply(kind, <<>>))
      <4>1. PICK kind \in Failures \ {"redirect", "lost"} : Answer(m, Reply(kind, <<>>))
        BY <3>1
      <4>2. Reply(kind, <<>>).kind = kind
        BY DEF Reply
      <4> QED
        BY <4>1, <4>2
    <3>2. CASE \E ts \in TargetLists : Answer(m, Reply("redirect", ts))
      <4>1. PICK ts \in TargetLists : Answer(m, Reply("redirect", ts))
        BY <3>2
      <4>2. Reply("redirect", ts).kind \in Failures \ {"lost"}
        BY DEF Reply, Failures
      <4> QED
        BY <4>1, <4>2
    <3> QED
      BY <1>16, <3>1, <3>2 DEF NodeRefuses
  <2>1. wire' = wire \ {m} /\ UNCHANGED <<pc, at, index, result, delivered>>
    BY <1>16, <2>r DEF NodeRefuses, Answer
  <2>2. CASE d # m.call
    <3>1. Outstanding(d)' = Outstanding(d)
      BY <2>0, <2>1, <2>2, OutstandingFrame
    <3>2. reply'[d] = reply[d]
      BY <2>r, <2>0, <2>2 DEF Answer, TypeOK
    <3> QED
      BY <2>1, <3>1, <3>2, KnowledgeFrame
  <2>3. CASE d = m.call
    <3>1. m \in Outstanding(d)
      BY <2>3 DEF Outstanding
    <3>2. /\ delivered[d] = <<>> /\ m.node = at[d]
          /\ Outstanding(d) = {m}
          /\ \/ pc[d] = "wait" /\ reply[d].kind \in {"none", "lost"}
             \/ pc[d] = "done" /\ result[d].kind = "failed"
      <4>1. reply[d].kind \in Kinds /\ result[d].kind \in ResultKinds
            /\ pc[d] \in {"idle", "pick", "wait", "hop", "done"}
        BY DEF TypeOK
      <4> QED
        BY <3>1, <4>1, <2>0, <2>3 DEF Knowledge, Clean, DeliveredBy, AtMostLast, Kinds, ResultKinds
    <3>3. Outstanding(d)' = {}
      BY <2>1, <3>2 DEF Outstanding
    <3>5. Clean(d)' /\ AtMostLast(d)'
      BY <2>1, <3>2, <3>3 DEF Clean, AtMostLast
    <3>6. reply'[d] = IF Waits(d, m.node) THEN r ELSE reply[d]
      BY <2>r, <2>3 DEF Answer, TypeOK
    <3>7. CASE pc[d] = "wait" /\ reply[d].kind = "none"
      <4>1. reply'[d].kind \in Failures \ {"lost"}
        BY <2>r, <3>2, <3>6, <3>7 DEF Waits, Knowledge
      <4> QED
        BY <2>1, <3>5, <3>7, <4>1 DEF Knowledge, Failures
    <3>8. CASE pc[d] = "wait" /\ reply[d].kind = "lost"
      <4>1. reply'[d].kind = "lost"
        BY <3>6, <3>8, ReplyTypes DEF Waits
      <4> QED
        BY <2>1, <3>5, <3>8, <4>1 DEF Knowledge, Failures
    <3>9. CASE pc[d] = "done" /\ result[d].kind = "failed"
      BY <2>1, <3>5, <3>9 DEF Knowledge
    <3> QED
      BY <3>2, <3>7, <3>8, <3>9
  <2> QED
    BY <2>2, <2>3
<1> QED
  BY <1>1, <1>2, <1>3, <1>4, <1>5, <1>6, <1>7, <1>8, <1>9, <1>10, <1>11, <1>12,
     <1>13, <1>14, <1>15, <1>16
  DEF Next, Handle, Network, Quiescent

-----------------------------------------------------------------------------
\* The inductive invariant of claim routing holds in every reachable state.
THEOREM ClaimInvariant == Spec => []IInv
<1>1. IInv /\ [Next]_vars => IInv'
  BY NextTypeOK, NextKnowledge DEF IInv
<1> QED
  BY InitIInv, <1>1, PTL DEF Spec

\* Type correctness of claim routing.
THEOREM ClaimTypeOK == Spec => []TypeOK
<1>1. IInv => TypeOK
  BY DEF IInv
<1> QED
  BY <1>1, ClaimInvariant, PTL

\* What a call knows leaves room for one delivery.
LEMMA KnowledgeBoundsDelivery == IInv => AtMostOneDelivery
<1> SUFFICES ASSUME IInv, NEW c \in Calls PROVE Len(delivered[c]) <= 1
  BY DEF AtMostOneDelivery
<1>1. delivered[c] = <<>> \/ \E n \in Nodes \cup {NoNode} : delivered[c] = <<n>>
  <2>1. /\ reply[c].kind \in Kinds /\ result[c].kind \in ResultKinds
        /\ pc[c] \in {"idle", "pick", "wait", "hop", "done"}
        /\ at[c] \in Nodes \cup {NoNode} /\ result[c].node \in Nodes \cup {NoNode}
    BY DEF IInv, TypeOK
  <2> QED
    BY <2>1 DEF IInv, Knowledge, Clean, DeliveredBy, AtMostLast, Kinds, ResultKinds
<1>2. Len(<<>>) = 0 /\ \A n \in Nodes \cup {NoNode} : Len(<<n>>) = 1
  OBVIOUS
<1>3. CASE delivered[c] = <<>>
  BY <1>2, <1>3
<1>4. ASSUME NEW n \in Nodes \cup {NoNode}, delivered[c] = <<n>>
      PROVE  Len(delivered[c]) <= 1
  BY <1>2, <1>4
<1> QED
  BY <1>1, <1>3, <1>4

\* However answers are lost, late or reordered, one Claim call is never given
\* two microVMs: claimUndelivered retries only what cannot have delivered.
THEOREM ClaimDeliversAtMostOnce == Spec => []AtMostOneDelivery
BY KnowledgeBoundsDelivery, ClaimInvariant, PTL

\* The assignment and the index entry name the node that delivered.
THEOREM ClaimNamesDeliverer == Spec => []SuccessNamesDeliverer
<1>1. IInv => SuccessNamesDeliverer
  BY DEF IInv, Knowledge, DeliveredBy, SuccessNamesDeliverer
<1> QED
  BY <1>1, ClaimInvariant, PTL

\* "No warm capacity" leaves no microVM and no open request behind.
THEOREM ClaimNoWarmIsClean == Spec => []NoWarmIsClean
<1>1. IInv => NoWarmIsClean
  BY DEF IInv, Knowledge, Clean, NoWarmIsClean
<1> QED
  BY <1>1, ClaimInvariant, PTL

-----------------------------------------------------------------------------
(* A create: two claims, an init and a release.                            *)

\* What a create knows, by its stage.  A microVM that lives was delivered; a
\* failed claim is clean unless an answer was lost.
CreateKnows(c) ==
    /\ stage[c] = "new" => pc[c] = "idle"
    /\ stage[c] # "answered" => code[c] = 0
    /\ stage[c] \in {"init", "release"} => result[c].kind = "ok"
    /\ live[c] \subseteq Named(delivered[c])
    /\ ~risk[c] /\ pc[c] = "wait" => reply[c].kind # "lost"
    /\ ~risk[c] /\ result[c].kind = "failed" => Clean(c)
    /\ code[c] = 201 => /\ result[c].kind = "ok"
                        /\ surface[c] = "e2b" => envd[c] = result[c].node
    /\ stage[c] = "answered" /\ code[c] # 201 /\ ~risk[c] =>
          live[c] = {} /\ Outstanding(c) = {}
    /\ code[c] \in {404, 503} => Clean(c)

CreateInv ==
    /\ IInv
    /\ CreateTypeOK
    /\ \A c \in Calls : CreateKnows(c)

-----------------------------------------------------------------------------
\* What the lists of deliveries name.
LEMMA NamedOfLists ==
    /\ Named(<<>>) = {}
    /\ \A n : Named(<<n>>) = {n}
BY DEF Named

\* A clean create holds no microVM, and one whose claim succeeded at most the
\* one it names.
LEMMA LiveIsDelivered ==
    ASSUME NEW c \in Calls, CreateKnows(c)
    PROVE  /\ Clean(c) => live[c] = {} /\ Outstanding(c) = {}
           /\ \A n : DeliveredBy(c, n) => live[c] \subseteq {n} /\ Outstanding(c) = {}
<1>1. live[c] \subseteq Named(delivered[c])
  BY DEF CreateKnows
<1>2. ASSUME Clean(c) PROVE live[c] = {} /\ Outstanding(c) = {}
  BY <1>1, <1>2, NamedOfLists DEF Clean
<1>3. ASSUME NEW n, DeliveredBy(c, n) PROVE live[c] \subseteq {n} /\ Outstanding(c) = {}
  BY <1>1, <1>3, NamedOfLists DEF DeliveredBy
<1> QED
  BY <1>2, <1>3

LEMMA CreateInitIsGood == CreateInit => CreateInv
<1> SUFFICES ASSUME CreateInit PROVE CreateInv
  OBVIOUS
<1>1. IInv
  BY InitIInv DEF CreateInit
<1>2. CreateTypeOK
  BY <1>1 DEF CreateInit, CreateTypeOK, IInv, Stages, Codes
<1>3. \A c \in Calls : CreateKnows(c)
  BY DEF CreateInit, Init, CreateKnows, Result
<1> QED
  BY <1>1, <1>2, <1>3 DEF CreateInv

\* The second claim of a create starts from a claim that ended clean, the first
\* from none: the types and what is known of the claim are kept.
LEMMA StartKeepsInv ==
    ASSUME IInv, NEW c \in Calls, NEW optIn \in BOOLEAN, NEW s \in Snapshots(optIn),
           Clean(c), StartClaim(c, s)
    PROVE  IInv'
<1>1. s.cand \in SUBSET Nodes
      /\ s \in [known : SUBSET Nodes, cand : SUBSET Nodes, promoted : BOOLEAN]
  BY DEF Snapshots
<1>2. \A k \in {"noWarm", "failed", "none"} :
          Result(k, NoNode) \in [kind : ResultKinds, node : Nodes \cup {NoNode}]
  BY DEF Result, ResultKinds
<1>3. /\ UNCHANGED <<from, at, redirect, left, wire, reply, delivered, index>>
      /\ snap' = [snap EXCEPT ![c] = s] /\ cand' = [cand EXCEPT ![c] = s.cand]
      /\ silent' = [silent EXCEPT ![c] = {}]
      /\ \/ pc' = [pc EXCEPT ![c] = "done"] /\ result' = [result EXCEPT ![c] = Result("noWarm", NoNode)]
         \/ pc' = [pc EXCEPT ![c] = "pick"] /\ result' = [result EXCEPT ![c] = Result("none", NoNode)]
  BY DEF StartClaim, Finish
<1>4. TypeOK'
  <2>1. /\ snap' \in [Calls -> [known : SUBSET Nodes, cand : SUBSET Nodes, promoted : BOOLEAN]]
        /\ cand' \in [Calls -> SUBSET Nodes] /\ silent' \in [Calls -> SUBSET Nodes]
    BY <1>1, <1>3 DEF IInv, TypeOK
  <2>2. /\ pc' \in [Calls -> {"idle", "pick", "wait", "hop", "done"}]
        /\ result' \in [Calls -> [kind : ResultKinds, node : Nodes \cup {NoNode}]]
    <3> DEFINE R == [kind : ResultKinds, node : Nodes \cup {NoNode}]
    <3>1. Result("noWarm", NoNode) \in R /\ Result("none", NoNode) \in R
      BY <1>2
    <3>2. result \in [Calls -> R] /\ pc \in [Calls -> {"idle", "pick", "wait", "hop", "done"}]
      BY DEF IInv, TypeOK
    <3> HIDE DEF R
    <3>3. result' \in [Calls -> R]
      BY <1>3, <3>1, <3>2
    <3> QED
      BY <1>3, <3>2, <3>3 DEF R
  <2> QED
    BY <1>3, <2>1, <2>2 DEF IInv, TypeOK
<1>5. \A d \in Calls : Knowledge(d)'
  <2>1. pc \in [Calls -> {"idle", "pick", "wait", "hop", "done"}]
    BY DEF IInv, TypeOK
  <2>2. CASE /\ pc' = [pc EXCEPT ![c] = "done"]
             /\ result' = [result EXCEPT ![c] = Result("noWarm", NoNode)]
    BY <1>3, <1>4, <2>1, <2>2, CallStepKeepsKnowledge DEF IInv
  <2>3. CASE /\ pc' = [pc EXCEPT ![c] = "pick"]
             /\ result' = [result EXCEPT ![c] = Result("none", NoNode)]
    BY <1>3, <1>4, <2>1, <2>3, CallStepKeepsKnowledge DEF IInv
  <2> QED
    BY <1>3, <2>2, <2>3
<1> QED
  BY <1>4, <1>5 DEF IInv

\* The second claim fails before it asks a node.
LEMMA FinishKeepsInv ==
    ASSUME IInv, NEW c \in Calls, Clean(c), Finish(c, "failed"),
           UNCHANGED <<snap, cand, from, at, redirect, left, wire, reply, delivered, silent, index>>
    PROVE  IInv'
<1>1. Result("failed", NoNode) \in [kind : ResultKinds, node : Nodes \cup {NoNode}]
  BY DEF Result, ResultKinds
<1>2. TypeOK'
  BY <1>1 DEF IInv, TypeOK, Finish
<1>3. /\ pc' = [pc EXCEPT ![c] = "done"] /\ pc'[c] = "done"
      /\ result' = [result EXCEPT ![c] = Result("failed", NoNode)]
      /\ AtMostLast(c)
  BY DEF Finish, AtMostLast, IInv, TypeOK
<1>4. \A d \in Calls : Knowledge(d)'
  BY <1>2, <1>3, CallStepKeepsKnowledge DEF IInv
<1> QED
  BY <1>2, <1>4 DEF IInv

\* Every step of a create keeps the invariant of the claim routing.
LEMMA CreateKeepsRouting == CreateInv /\ [CreateNext]_allVars => IInv'
<1> SUFFICES ASSUME CreateInv, [CreateNext]_allVars PROVE IInv'
  OBVIOUS
<1>0. IInv
  BY DEF CreateInv
<1>1. ASSUME [Next]_vars PROVE IInv'
  BY <1>0, <1>1, NextTypeOK, NextKnowledge DEF IInv
<1>2. ASSUME NEW c \in Calls, ClaimPool(c) PROVE IInv'
  <2>1. Clean(c)
    BY <1>2, <1>0 DEF ClaimPool, CreateInv, CreateKnows, IInv, Knowledge
  <2>2. CASE ClaimWithoutInventory(c)
    BY <1>1, <2>2 DEF Next
  <2> QED
    BY <1>0, <1>2, <2>1, <2>2, StartKeepsInv DEF ClaimPool
<1>3. ASSUME NEW c \in Calls, resolveTemplate(c) PROVE IInv'
  <2>1. Clean(c)
    BY <1>3, <1>0 DEF resolveTemplate, IInv, Knowledge
  <2> QED
    BY <1>0, <1>1, <1>3, <2>1, StartKeepsInv, FinishKeepsInv DEF resolveTemplate
<1>4. ASSUME NEW c \in Calls, Create(c), ~ClaimPool(c), ~resolveTemplate(c) PROVE UNCHANGED vars
  BY <1>4 DEF Create, RefuseRequest, RefuseObject, answerExhausted, answerFailure, Claimed,
     answerKube, initEnvd, initFails, releaseAll
<1>5. ASSUME NEW c \in Calls, Routing(c) PROVE IInv'
  BY <1>1, <1>5 DEF Routing, Next
<1>6. ASSUME NEW c \in Calls, LeaseExpires(c) PROVE IInv'
  BY <1>1, <1>6 DEF LeaseExpires
<1>7. CASE NodeStep
  BY <1>1, <1>7 DEF NodeStep, Next, Network
<1>8. CASE UNCHANGED allVars
  BY <1>1, <1>8 DEF allVars
<1> QED
  BY <1>1, <1>2, <1>3, <1>4, <1>5, <1>6, <1>7, <1>8 DEF CreateNext, AllAnswered

-----------------------------------------------------------------------------
\* What a create knows is kept by a step that leaves it alone.
LEMMA CreateFrame ==
    ASSUME NEW c \in Calls, CreateKnows(c),
           pc'[c] = pc[c], reply'[c] = reply[c], result'[c] = result[c],
           delivered'[c] = delivered[c], Outstanding(c)' = Outstanding(c),
           surface'[c] = surface[c], stage'[c] = stage[c], code'[c] = code[c],
           live'[c] \subseteq live[c], envd'[c] = envd[c], risk'[c] = risk[c]
    PROVE  CreateKnows(c)'
BY DEF CreateKnows, Clean, Named

\* The types of the create's own variables.
LEMMA CreateKeepsTypes == CreateInv /\ [CreateNext]_allVars => CreateTypeOK'
<1> SUFFICES ASSUME CreateInv, [CreateNext]_allVars PROVE CreateTypeOK'
  OBVIOUS
<1>0. TypeOK'
  BY CreateKeepsRouting DEF IInv
<1>1. CreateTypeOK
  BY DEF CreateInv
<1>2. ASSUME NEW c \in Calls, Create(c) PROVE CreateTypeOK'
  <2>1. CASE RefuseRequest(c) \/ RefuseObject(c) \/ answerExhausted(c)
    BY <1>0, <1>1, <2>1
    DEF RefuseRequest, RefuseObject, answerExhausted, writeError, CreateTypeOK, Stages, Codes
  <2>2. CASE ClaimPool(c)
    BY <1>0, <1>1, <2>2 DEF ClaimPool, CreateTypeOK, Stages
  <2>3. CASE resolveTemplate(c)
    <3>1. /\ stage' \in [Calls -> Stages] /\ code' \in [Calls -> Codes]
          /\ UNCHANGED <<surface, live, envd, risk>>
      <4>1. \/ /\ stage' = [stage EXCEPT ![c] = "answered"]
               /\ \E status \in {404, 503} : code' = [code EXCEPT ![c] = status]
            \/ stage' = [stage EXCEPT ![c] = "built"] /\ UNCHANGED code
        BY <2>3 DEF resolveTemplate, writeError
      <4>2. UNCHANGED <<surface, live, envd, risk>>
        BY <2>3 DEF resolveTemplate
      <4> QED
        BY <1>1, <4>1, <4>2 DEF CreateTypeOK, Stages, Codes
    <3> QED
      BY <1>0, <1>1, <3>1 DEF CreateTypeOK
  <2>4. CASE answerFailure(c)
    <3>1. PICK status \in {500} \cup IF reply[c].kind = "clientError" THEN {400, 409} ELSE {} :
             writeError(c, status)
      BY <2>4 DEF answerFailure
    <3>2. status \in Codes
      BY <3>1 DEF Codes
    <3> QED
      BY <1>0, <1>1, <2>4, <3>1, <3>2 DEF answerFailure, writeError, CreateTypeOK, Stages
  <2>5. CASE answerKube(c)
    <3>1. result[c].kind \in {"ok", "noWarm", "failed"}
      BY <2>5 DEF answerKube, CreateInv, IInv, Knowledge, TypeOK, ResultKinds
    <3>2. KubeAnswer(result[c].kind) \in Codes
      BY <3>1 DEF KubeAnswer, Codes
    <3> QED
      BY <1>0, <1>1, <2>5, <3>2 DEF answerKube, CreateTypeOK, Stages
  <2>6. CASE Claimed(c) \/ initFails(c)
    BY <1>0, <1>1, <2>6 DEF Claimed, initFails, CreateTypeOK, Stages
  <2>7. CASE initEnvd(c)
    BY <1>0, <1>1, <2>7 DEF initEnvd, CreateTypeOK, Stages, Codes
  <2>8. CASE releaseAll(c)
    <3>1. /\ stage' = [stage EXCEPT ![c] = "answered"] /\ code' = [code EXCEPT ![c] = 500]
          /\ UNCHANGED <<surface, envd>>
          /\ live' = [live EXCEPT ![c] = @ \ {result[c].node}] \/ UNCHANGED live
          /\ UNCHANGED risk \/ risk' = [risk EXCEPT ![c] = TRUE]
      BY <2>8 DEF releaseAll, writeError
    <3>2. live' \in [Calls -> SUBSET Nodes] /\ risk' \in [Calls -> BOOLEAN]
      BY <1>1, <3>1 DEF CreateTypeOK
    <3>3. stage' \in [Calls -> Stages] /\ code' \in [Calls -> Codes]
      BY <1>1, <3>1 DEF CreateTypeOK, Stages, Codes
    <3>4. surface' \in [Calls -> {"e2b", "kube"}] /\ envd' \in [Calls -> Nodes \cup {NoNode}]
      BY <1>1, <3>1 DEF CreateTypeOK
    <3> QED
      BY <1>0, <3>2, <3>3, <3>4 DEF CreateTypeOK
  <2> QED
    BY <1>2, <2>1, <2>2, <2>3, <2>4, <2>5, <2>6, <2>7, <2>8 DEF Create
<1>3. ASSUME NEW c \in Calls, Routing(c) PROVE CreateTypeOK'
  BY <1>0, <1>1, <1>3 DEF Routing, CreateTypeOK, createVars
<1>4. ASSUME NEW c \in Calls, LeaseExpires(c) PROVE CreateTypeOK'
  BY <1>0, <1>1, <1>4 DEF LeaseExpires, CreateTypeOK
<1>5. CASE NodeStep
  <2>1. wire \in SUBSET [call : Calls, node : Nodes] /\ live \in [Calls -> SUBSET Nodes]
    BY <1>1 DEF CreateTypeOK, TypeOK
  <2>2. live' \in [Calls -> SUBSET Nodes] /\ UNCHANGED <<surface, stage, code, envd, risk>>
    BY <1>5, <2>1 DEF NodeStep, createVars
  <2> QED
    BY <1>0, <1>1, <2>2 DEF CreateTypeOK
<1>6. CASE UNCHANGED allVars
  BY <1>0, <1>1, <1>6 DEF allVars, createVars, CreateTypeOK
<1> QED
  BY <1>2, <1>3, <1>4, <1>5, <1>6 DEF CreateNext, AllAnswered

\* A step that answers a create, or moves it on, and leaves its claim alone.
LEMMA HandlerStep ==
    ASSUME CreateInv, NEW c \in Calls, UNCHANGED vars,
           RefuseRequest(c) \/ RefuseObject(c) \/ resolveTemplate(c) \/ answerExhausted(c)
           \/ answerFailure(c) \/ answerKube(c) \/ Claimed(c) \/ initEnvd(c)
           \/ initFails(c) \/ releaseAll(c)
    PROVE  \A d \in Calls : CreateKnows(d)'
<1>1. CreateTypeOK /\ \A d \in Calls : CreateKnows(d) /\ Knowledge(d)
  BY DEF CreateInv, IInv
<1>2. \A d \in Calls : Outstanding(d)' = Outstanding(d) /\ (Clean(d)' <=> Clean(d))
  BY DEF vars, Outstanding, Clean
<1>3. ASSUME NEW d \in Calls, d # c PROVE CreateKnows(d)'
  <2>1. /\ surface'[d] = surface[d] /\ stage'[d] = stage[d] /\ code'[d] = code[d]
        /\ live'[d] = live[d] /\ envd'[d] = envd[d] /\ risk'[d] = risk[d]
    <3>1. CASE RefuseRequest(c) \/ RefuseObject(c) \/ answerExhausted(c) \/ answerFailure(c)
      BY <1>1, <1>3, <3>1 DEF CreateTypeOK, RefuseRequest, RefuseObject, answerExhausted,
         answerFailure, writeError
    <3>2. CASE resolveTemplate(c)
      <4>1. /\ UNCHANGED <<surface, live, envd, risk>>
            /\ \E st \in {"answered", "built"} : stage' = [stage EXCEPT ![c] = st]
            /\ UNCHANGED code \/ \E status \in {404, 503} : code' = [code EXCEPT ![c] = status]
        BY <3>2 DEF resolveTemplate, writeError
      <4> QED
        BY <1>1, <1>3, <4>1 DEF CreateTypeOK
    <3>3. CASE answerKube(c) \/ Claimed(c) \/ initEnvd(c) \/ initFails(c)
      BY <1>1, <1>3, <3>3 DEF CreateTypeOK, answerKube, Claimed, initEnvd, initFails
    <3>4. CASE releaseAll(c)
      BY <1>1, <1>3, <3>4 DEF CreateTypeOK, releaseAll, writeError
    <3> QED
      BY <3>1, <3>2, <3>3, <3>4
  <2> QED
    BY <1>1, <1>2, <2>1, CreateFrame DEF vars
<1>4. CreateKnows(c)'
  <2> USE <1>1, <1>2
  <2>1. ASSUME NEW status \in Codes \ {0, 201}, writeError(c, status),
               UNCHANGED <<surface, envd>>, live'[c] \subseteq live[c], risk[c] => risk'[c],
               ~risk'[c] => live'[c] = {} /\ Outstanding(c) = {},
               status \in {404, 503} => Clean(c)
        PROVE  CreateKnows(c)'
    BY <2>1 DEF CreateKnows, CreateTypeOK, writeError, vars, Codes
  <2>2. CASE RefuseRequest(c) \/ RefuseObject(c)
    <3>1. Clean(c) /\ live[c] = {} /\ Outstanding(c) = {}
      BY <2>2, LiveIsDelivered DEF RefuseRequest, RefuseObject, CreateKnows, Knowledge
    <3> QED
      BY <2>1, <2>2, <3>1 DEF RefuseRequest, RefuseObject, Codes
  <2>3. CASE answerExhausted(c)
    <3>1. Clean(c) /\ live[c] = {} /\ Outstanding(c) = {}
      BY <2>3, LiveIsDelivered DEF answerExhausted, Knowledge
    <3> QED
      BY <2>1, <2>3, <3>1 DEF answerExhausted, Codes
  <2>4. CASE resolveTemplate(c)
    <3>1. Clean(c) /\ live[c] = {} /\ Outstanding(c) = {}
      BY <2>4, LiveIsDelivered DEF resolveTemplate, Knowledge
    <3>2. result[c].kind = "noWarm" /\ UNCHANGED <<surface, live, envd, risk>>
      BY <2>4 DEF resolveTemplate
    <3>3. ASSUME NEW status \in {404, 503}, writeError(c, status) PROVE CreateKnows(c)'
      BY <2>1, <3>1, <3>2, <3>3 DEF Codes
    <3>4. ASSUME stage' = [stage EXCEPT ![c] = "built"], UNCHANGED code, stage[c] = "pool"
          PROVE CreateKnows(c)'
      BY <3>1, <3>2, <3>4 DEF CreateKnows, CreateTypeOK, vars
    <3> QED
      BY <2>4, <3>3, <3>4 DEF resolveTemplate
  <2>5. CASE answerFailure(c)
    <3>1. PICK status \in {500} \cup IF reply[c].kind = "clientError" THEN {400, 409} ELSE {} :
             writeError(c, status)
      BY <2>5 DEF answerFailure
    <3>2. status \in {400, 409, 500}
      BY <3>1
    <3>3. ~risk[c] => live[c] = {} /\ Outstanding(c) = {}
      BY <2>5, LiveIsDelivered DEF answerFailure, CreateKnows
    <3> QED
      BY <2>1, <2>5, <3>1, <3>2, <3>3 DEF answerFailure, Codes
  <2>6. CASE answerKube(c)
    <3>1. result[c].kind \in {"ok", "noWarm", "failed"}
      BY <2>6 DEF answerKube, Knowledge, CreateTypeOK, TypeOK, ResultKinds
    <3>2. /\ stage' = [stage EXCEPT ![c] = "answered"]
          /\ code' = [code EXCEPT ![c] = KubeAnswer(result[c].kind)]
          /\ UNCHANGED <<surface, live, envd, risk>> /\ surface[c] = "kube"
      BY <2>6 DEF answerKube
    <3>3. CASE result[c].kind = "ok"
      <4>1. KubeAnswer(result[c].kind) = 201
        BY <3>3 DEF KubeAnswer
      <4> QED
        BY <3>2, <3>3, <4>1 DEF CreateKnows, CreateTypeOK, vars
    <3>4. CASE result[c].kind = "noWarm"
      <4>1. writeError(c, 503)
        BY <3>2, <3>4 DEF KubeAnswer, writeError
      <4>2. Clean(c) /\ live[c] = {} /\ Outstanding(c) = {}
        BY <3>4, LiveIsDelivered DEF Knowledge
      <4> QED
        BY <2>1, <3>2, <4>1, <4>2 DEF Codes
    <3>5. CASE result[c].kind = "failed"
      <4>1. writeError(c, 500)
        BY <3>2, <3>5 DEF KubeAnswer, writeError
      <4>2. ~risk[c] => live[c] = {} /\ Outstanding(c) = {}
        BY <3>5, LiveIsDelivered DEF CreateKnows
      <4> QED
        BY <2>1, <3>2, <4>1, <4>2 DEF Codes
    <3> QED
      BY <3>1, <3>3, <3>4, <3>5
  <2>7. CASE Claimed(c) \/ initFails(c)
    BY <2>7 DEF Claimed, initFails, CreateKnows, CreateTypeOK, vars
  <2>8. CASE initEnvd(c)
    BY <2>8 DEF initEnvd, CreateKnows, CreateTypeOK, vars
  <2>9. CASE releaseAll(c)
    <3>1. /\ writeError(c, 500) /\ UNCHANGED <<surface, envd>>
          /\ \/ live'[c] = live[c] \ {result[c].node} /\ UNCHANGED risk
             \/ risk'[c] /\ live'[c] \subseteq live[c]
      BY <2>9 DEF releaseAll, CreateTypeOK
    <3>2. live[c] \subseteq {result[c].node} /\ Outstanding(c) = {}
      BY <2>9, LiveIsDelivered DEF releaseAll, CreateKnows, Knowledge
    <3> QED
      BY <2>1, <3>1, <3>2 DEF Codes
  <2> QED
    BY <2>2, <2>3, <2>4, <2>5, <2>6, <2>7, <2>8, <2>9
<1> QED
  BY <1>3, <1>4

\* A claim of the create starts: nothing was delivered before.
LEMMA ClaimStartStep ==
    ASSUME CreateInv, NEW c \in Calls, ClaimPool(c) \/ resolveTemplate(c), ~UNCHANGED vars
    PROVE  \A d \in Calls : CreateKnows(d)'
<1>1. CreateTypeOK /\ \A d \in Calls : CreateKnows(d) /\ Knowledge(d)
  BY DEF CreateInv, IInv
<1>2. /\ Clean(c) /\ stage[c] # "answered"
      /\ UNCHANGED <<surface, code, live, envd, risk, wire, delivered, reply>>
      /\ \E st \in {"pool", "built"} : stage' = [stage EXCEPT ![c] = st]
      /\ \E p \in {"pick", "done"} : pc' = [pc EXCEPT ![c] = p]
      /\ \E k \in {"noWarm", "failed", "none"} :
            result' = [result EXCEPT ![c] = Result(k, NoNode)]
  <2>1. CASE ClaimPool(c)
    BY <1>1, <2>1 DEF ClaimPool, StartClaim, ClaimWithoutInventory, Finish, CreateKnows, Knowledge
  <2>2. CASE resolveTemplate(c)
    BY <1>1, <2>2 DEF resolveTemplate, StartClaim, Finish, Knowledge
  <2> QED
    BY <2>1, <2>2
<1>3. \A d \in Calls : Outstanding(d)' = Outstanding(d) /\ (Clean(d)' <=> Clean(d))
  BY <1>2 DEF Outstanding, Clean
<1>4. ASSUME NEW d \in Calls, d # c PROVE CreateKnows(d)'
  <2>1. pc'[d] = pc[d] /\ result'[d] = result[d] /\ stage'[d] = stage[d]
    BY <1>1, <1>2, <1>4 DEF CreateTypeOK, TypeOK
  <2> QED
    BY <1>1, <1>2, <1>3, <2>1, CreateFrame
<1>5. CreateKnows(c)'
  <2>1. /\ pc'[c] \in {"pick", "done"} /\ stage'[c] \in {"pool", "built"}
        /\ result'[c].kind # "ok"
    BY <1>1, <1>2 DEF CreateTypeOK, TypeOK, Result
  <2>2. code'[c] = 0
    BY <1>1, <1>2 DEF CreateKnows
  <2> QED
    BY <1>1, <1>2, <1>3, <2>1, <2>2 DEF CreateKnows
<1> QED
  BY <1>4, <1>5

\* What a step of a claim can change.
LEMMA HandleFacts ==
    ASSUME TypeOK, NEW c \in Calls, Knowledge(c), Handle(c)
    PROVE  /\ UNCHANGED delivered
           /\ \A d \in Calls \ {c} : /\ pc'[d] = pc[d] /\ reply'[d] = reply[d]
                                     /\ result'[d] = result[d]
                                     /\ Outstanding(d)' = Outstanding(d)
           /\ pc[c] # "done"
           /\ pc'[c] = "wait" => reply'[c].kind = "none"
           /\ result'[c].kind = "failed" =>
                 pc[c] = "wait" /\ reply[c].kind \in Failures /\ UNCHANGED wire
<1>0. pc[c] # "done" => result[c].kind = "none"
  BY DEF Knowledge
<1>1. ASSUME NEW n \in Nodes, Ask(c, n), UNCHANGED <<delivered, result>>, pc[c] # "done"
      PROVE  /\ \A d \in Calls \ {c} : /\ pc'[d] = pc[d] /\ reply'[d] = reply[d]
                                       /\ result'[d] = result[d]
                                       /\ Outstanding(d)' = Outstanding(d)
             /\ reply'[c].kind = "none"
             /\ result'[c].kind = "none"
  <2>1. \A d \in Calls \ {c} : Outstanding(d)' = Outstanding(d)
    BY <1>1 DEF Ask, Outstanding
  <2> QED
    BY <1>0, <1>1, <2>1, ReplyTypes DEF Ask, TypeOK
<1>2. ASSUME UNCHANGED <<wire, reply, delivered>>, pc[c] # "done",
             \E p \in {"pick", "hop", "done"} : pc' = [pc EXCEPT ![c] = p],
             UNCHANGED result \/ \E r : result' = [result EXCEPT ![c] = r]
      PROVE  /\ \A d \in Calls \ {c} : /\ pc'[d] = pc[d] /\ reply'[d] = reply[d]
                                       /\ result'[d] = result[d]
                                       /\ Outstanding(d)' = Outstanding(d)
             /\ pc'[c] # "wait"
  BY <1>2 DEF Outstanding, TypeOK
<1>3. CASE \E n \in Nodes : pickPowerOfTwo(c, n)
  BY <1>1, <1>3 DEF pickPowerOfTwo
<1>4. CASE AskPeer(c)
  <2>1. Head(left[c]) \in Nodes
    BY <1>4 DEF AskPeer, TypeOK
  <2> QED
    BY <1>1, <1>4, <2>1 DEF AskPeer
<1>5. CASE Delivered(c)
  BY <1>2, <1>5 DEF Delivered, claimSucceeds, Result, TypeOK
<1>6. CASE Redirected(c) \/ PeerDeliversNothing(c)
  BY <1>0, <1>2, <1>6 DEF Redirected, PeerDeliversNothing
<1>7. ASSUME dropPicked(c), UNCHANGED <<wire, reply, delivered>>, pc[c] \in {"wait", "hop"}
      PROVE  /\ \A d \in Calls \ {c} : /\ pc'[d] = pc[d] /\ reply'[d] = reply[d]
                                       /\ result'[d] = result[d]
                                       /\ Outstanding(d)' = Outstanding(d)
             /\ pc'[c] # "wait"
             /\ result'[c].kind # "failed"
  <2>1. \/ pc' = [pc EXCEPT ![c] = "done"] /\ result' = [result EXCEPT ![c] = Result("noWarm", NoNode)]
        \/ pc' = [pc EXCEPT ![c] = "pick"] /\ UNCHANGED result
    BY <1>7 DEF dropPicked, Finish
  <2>2. result'[c].kind # "failed"
    BY <1>0, <1>7, <2>1 DEF Result, TypeOK
  <2> QED
    BY <1>2, <1>7, <2>1, <2>2
<1>8. CASE PickDeliversNothing(c) \/ TemplateGone(c) \/ RedirectExhausted(c)
  BY <1>7, <1>8 DEF PickDeliversNothing, TemplateGone, RedirectExhausted
<1>9. CASE Fails(c)
  BY <1>2, <1>9 DEF Fails, Finish
<1>10. CASE SkipUnknownPeer(c)
  BY <1>0, <1>10 DEF SkipUnknownPeer, Outstanding
<1> QED
  BY <1>3, <1>4, <1>5, <1>6, <1>8, <1>9, <1>10 DEF Handle

\* A step of the claim in progress.
LEMMA RoutingStep ==
    ASSUME CreateInv, NEW c \in Calls, Routing(c)
    PROVE  \A d \in Calls : CreateKnows(d)'
<1>1. CreateTypeOK /\ TypeOK /\ \A d \in Calls : CreateKnows(d) /\ Knowledge(d)
  BY DEF CreateInv, IInv
<1>2. stage[c] \in {"pool", "built"} /\ code[c] = 0
  BY <1>1 DEF Routing, CreateKnows
<1>3. CASE /\ AnswerLost(c)
           /\ risk' = [risk EXCEPT ![c] = TRUE]
           /\ UNCHANGED <<surface, stage, code, live, envd>>
  <2>1. \A d \in Calls : Outstanding(d)' = Outstanding(d)
    BY <1>3 DEF AnswerLost, Outstanding
  <2>2. ASSUME NEW d \in Calls, d # c PROVE CreateKnows(d)'
    <3>1. reply'[d] = reply[d] /\ risk'[d] = risk[d]
      BY <1>1, <1>3, <2>2 DEF AnswerLost, TypeOK, CreateTypeOK
    <3> QED
      BY <1>1, <1>3, <2>1, <3>1, CreateFrame DEF AnswerLost
  <2>3. CreateKnows(c)'
    BY <1>1, <1>2, <1>3 DEF CreateKnows, AnswerLost, CreateTypeOK
  <2> QED
    BY <2>2, <2>3
<1>4. CASE Handle(c) /\ UNCHANGED createVars
  <2>1. ASSUME NEW d \in Calls, d # c PROVE CreateKnows(d)'
    BY <1>1, <1>4, <2>1, HandleFacts, CreateFrame DEF createVars
  <2>2. CreateKnows(c)'
    <3>1. ~risk[c] /\ result'[c].kind = "failed" => Clean(c)'
      <4> SUFFICES ASSUME ~risk[c], result'[c].kind = "failed" PROVE Clean(c)'
        OBVIOUS
      <4>1. /\ pc[c] = "wait" /\ reply[c].kind \in Failures \ {"lost"}
            /\ UNCHANGED <<wire, delivered>>
        BY <1>1, <1>4, HandleFacts DEF CreateKnows
      <4>2. Clean(c)
        BY <1>1, <4>1 DEF Knowledge
      <4> QED
        BY <4>1, <4>2 DEF Clean, Outstanding
    <3>2. UNCHANGED delivered /\ (pc'[c] = "wait" => reply'[c].kind # "lost")
      BY <1>1, <1>4, HandleFacts
    <3> QED
      BY <1>1, <1>2, <1>4, <3>1, <3>2 DEF CreateKnows, createVars
  <2> QED
    BY <2>1, <2>2
<1> QED
  BY <1>3, <1>4 DEF Routing

\* A node handles a request, maybe one whose caller has given up.
LEMMA NodeStepKeeps ==
    ASSUME CreateInv, NodeStep
    PROVE  \A d \in Calls : CreateKnows(d)'
<1>1. CreateTypeOK /\ TypeOK /\ \A d \in Calls : CreateKnows(d) /\ Knowledge(d)
  BY DEF CreateInv, IInv
<1>2. PICK m \in wire :
         \/ /\ NodeDelivers(m)
            /\ live' = [live EXCEPT ![m.call] = @ \cup {m.node}]
            /\ UNCHANGED <<surface, stage, code, envd, risk>>
         \/ /\ NodeRefuses(m)
            /\ UNCHANGED createVars
  BY DEF NodeStep
<1> DEFINE c == m.call
<1>3. m \in [call : Calls, node : Nodes] /\ c \in Calls /\ m.node \in Nodes
  BY <1>1 DEF TypeOK
<1>4. /\ wire' = wire \ {m} /\ UNCHANGED <<pc, result, surface, stage, code, envd, risk>>
      /\ \/ UNCHANGED reply
         \/ \E r : r.kind # "lost" /\ reply' = [reply EXCEPT ![c] = r]
  BY <1>2 DEF NodeDelivers, NodeRefuses, Answer, Reply, Failures, createVars
<1>5. ASSUME NEW d \in Calls, d # c PROVE CreateKnows(d)'
  <2>1. Outstanding(d)' = Outstanding(d)
    BY <1>1, <1>3, <1>4, <1>5, OutstandingFrame
  <2>2. reply'[d] = reply[d]
    BY <1>1, <1>4, <1>5 DEF TypeOK
  <2>3. delivered'[d] = delivered[d] /\ live'[d] = live[d]
    BY <1>1, <1>2, <1>5 DEF TypeOK, CreateTypeOK, NodeDelivers, NodeRefuses, createVars
  <2> QED
    BY <1>1, <1>4, <2>1, <2>2, <2>3, CreateFrame
\* The request was open, so the call is neither clean nor served.
<1>6. m \in Outstanding(c) /\ Outstanding(c) # {} /\ ~Clean(c)
  BY <1>3 DEF Outstanding, Clean
<1>7. /\ stage[c] # "new" /\ result[c].kind # "ok" /\ code[c] \notin {201, 404, 503}
      /\ ~risk[c] => result[c].kind # "failed" /\ stage[c] # "answered"
      /\ stage[c] \notin {"init", "release"}
  BY <1>1, <1>3, <1>6 DEF CreateKnows, Knowledge, DeliveredBy
<1>8. ~risk[c] /\ pc'[c] = "wait" => reply'[c].kind # "lost"
  BY <1>1, <1>3, <1>4 DEF CreateKnows, TypeOK
<1>9. live'[c] \subseteq Named(delivered'[c])
  <2>1. CASE NodeDelivers(m) /\ live' = [live EXCEPT ![c] = @ \cup {m.node}]
    <3>1. delivered[c] = <<>>
      <4>1. /\ reply[c].kind \in Kinds /\ result[c].kind \in ResultKinds
            /\ pc[c] \in {"idle", "pick", "wait", "hop", "done"}
        BY <1>1, <1>3 DEF TypeOK
      <4> QED
        BY <1>1, <1>3, <1>6, <4>1
        DEF Knowledge, Clean, DeliveredBy, AtMostLast, Kinds, ResultKinds
    <3>2. live[c] = {}
      BY <1>1, <1>3, <3>1, NamedOfLists DEF CreateKnows
    <3>3. delivered'[c] = <<m.node>>
      BY <1>1, <1>3, <2>1, <3>1 DEF NodeDelivers, TypeOK
    <3>4. live'[c] = {m.node}
      BY <1>1, <1>3, <2>1, <3>2 DEF CreateTypeOK
    <3> QED
      BY <3>3, <3>4, NamedOfLists
  <2>2. CASE NodeRefuses(m) /\ UNCHANGED createVars
    BY <1>1, <1>3, <2>2 DEF NodeRefuses, createVars, CreateKnows
  <2> QED
    BY <1>2, <2>1, <2>2
<1>10. CreateKnows(c)'
  BY <1>1, <1>3, <1>4, <1>7, <1>8, <1>9 DEF CreateKnows
<1> QED
  BY <1>5, <1>10

LEMMA CreateStepKeeps == CreateInv /\ [CreateNext]_allVars => CreateInv'
<1> SUFFICES ASSUME CreateInv, [CreateNext]_allVars PROVE \A d \in Calls : CreateKnows(d)'
  BY CreateKeepsRouting, CreateKeepsTypes DEF CreateInv
<1>1. ASSUME NEW c \in Calls, Create(c) PROVE \A d \in Calls : CreateKnows(d)'
  <2>1. CASE ClaimPool(c) \/ resolveTemplate(c)
    <3>1. CASE UNCHANGED vars /\ ClaimPool(c)
      <4>1. pc[c] = "idle" /\ pc'[c] # "idle"
        BY <3>1 DEF CreateInv, CreateKnows, CreateTypeOK, TypeOK, ClaimPool, StartClaim,
           ClaimWithoutInventory, Finish
      <4> QED
        BY <3>1, <4>1 DEF vars
    <3> QED
      BY <2>1, <3>1, HandlerStep, ClaimStartStep
  <2>2. CASE ~ClaimPool(c) /\ ~resolveTemplate(c)
    <3>1. UNCHANGED vars
      BY <1>1, <2>2 DEF Create, RefuseRequest, RefuseObject, answerExhausted, answerFailure,
         Claimed, answerKube, initEnvd, initFails, releaseAll
    <3> QED
      BY <1>1, <2>2, <3>1, HandlerStep DEF Create
  <2> QED
    BY <2>1, <2>2
<1>2. ASSUME NEW c \in Calls, Routing(c) PROVE \A d \in Calls : CreateKnows(d)'
  BY <1>2, RoutingStep
<1>3. ASSUME NEW c \in Calls, LeaseExpires(c), NEW d \in Calls PROVE CreateKnows(d)'
  <2>1. live'[d] \subseteq live[d] /\ Outstanding(d)' = Outstanding(d)
    BY <1>3 DEF LeaseExpires, CreateInv, CreateTypeOK, Outstanding, vars
  <2> QED
    BY <1>3, <2>1, CreateFrame DEF LeaseExpires, CreateInv, vars
<1>4. CASE NodeStep
  BY <1>4, NodeStepKeeps
<1>5. ASSUME UNCHANGED allVars, NEW d \in Calls PROVE CreateKnows(d)'
  <2>1. Outstanding(d)' = Outstanding(d)
    BY <1>5 DEF allVars, vars, Outstanding
  <2> QED
    BY <1>5, <2>1, CreateFrame DEF allVars, vars, createVars, CreateInv
<1> QED
  BY <1>1, <1>2, <1>3, <1>4, <1>5 DEF CreateNext, AllAnswered

-----------------------------------------------------------------------------
\* What a fork knows, by how far it got.  Before the node forks there is no
\* child; then only the children asked for, each as far as its hand-over got;
\* a release takes them down one by one.
ForkKnows ==
    /\ fork.pc # "new" => code[fork.of] = 201
    /\ fork.answer # "none" => fork.pc = "answered"
    /\ fork.pc \in {"new", "fork"} => \A k \in Kids : ~kid[k].live /\ kid[k].todo = "none"
    /\ fork.pc \in {"remember", "handOver"} =>
          \A k \in Kids \ fork.asked : ~kid[k].live /\ kid[k].todo = "none"
    /\ fork.pc = "release" /\ ~fork.risk => \A k \in Kids \ fork.asked : ~kid[k].live
    /\ fork.pc = "handOver" => \A k \in fork.asked :
          /\ kid[k].at = result[fork.of].node
          /\ kid[k].todo = "init" /\ kid[k].live => kid[k].hash = "own"
          /\ kid[k].todo = "ready" /\ kid[k].live => kid[k].hash = "own" /\ kid[k].token = "own"

ForkInv == CreateInv /\ ForkIsExact /\ ForkKnows

\* Once a create is answered 201 its code and its assignment stay.
LEMMA CreatedStays ==
    ASSUME CreateInv, [CreateNext]_allVars, NEW c \in Calls, code[c] = 201
    PROVE  code'[c] = 201 /\ result'[c] = result[c]
<1>1. stage[c] = "answered" /\ CreateTypeOK /\ TypeOK /\ \A d \in Calls : Knowledge(d)
  BY DEF CreateInv, CreateKnows, IInv
<1>2. ASSUME NEW d \in Calls, Create(d) PROVE code'[c] = 201 /\ result'[c] = result[c]
  <2>1. d # c
    BY <1>1, <1>2 DEF Create, RefuseRequest, RefuseObject, ClaimPool, resolveTemplate,
       answerExhausted, answerFailure, Claimed, answerKube, initEnvd, initFails, releaseAll
  <2>2. CASE ClaimPool(d)
    <3>1. UNCHANGED code /\ \E k \in {"noWarm", "failed", "none"} :
                                result' = [result EXCEPT ![d] = Result(k, NoNode)]
      BY <2>2 DEF ClaimPool, StartClaim, ClaimWithoutInventory, Finish
    <3> QED
      BY <1>1, <2>1, <3>1 DEF TypeOK
  <2>3. CASE resolveTemplate(d)
    <3>1. /\ UNCHANGED code \/ \E status \in {404, 503} : code' = [code EXCEPT ![d] = status]
          /\ UNCHANGED result \/ \E r : result' = [result EXCEPT ![d] = r]
      BY <2>3 DEF resolveTemplate, writeError, StartClaim, Finish, vars
    <3> QED
      BY <1>1, <2>1, <3>1 DEF TypeOK, CreateTypeOK
  <2>4. CASE ~ClaimPool(d) /\ ~resolveTemplate(d)
    <3>1. UNCHANGED code \/ \E status : code' = [code EXCEPT ![d] = status]
      BY <1>2, <2>4 DEF Create, RefuseRequest, RefuseObject, answerExhausted, answerFailure,
         Claimed, answerKube, initEnvd, initFails, releaseAll, writeError
    <3>2. UNCHANGED result
      BY <1>2, <2>4 DEF Create, RefuseRequest, RefuseObject, answerExhausted, answerFailure,
         Claimed, answerKube, initEnvd, initFails, releaseAll, vars
    <3> QED
      BY <1>1, <2>1, <3>1, <3>2 DEF CreateTypeOK
  <2> QED
    BY <2>2, <2>3, <2>4
<1>3. ASSUME NEW d \in Calls, Routing(d) PROVE code'[c] = 201 /\ result'[c] = result[c]
  <2>1. d # c /\ UNCHANGED code
    BY <1>1, <1>3 DEF Routing, createVars
  <2> QED
    BY <1>1, <1>3, <2>1, HandleFacts DEF Routing, AnswerLost
<1>4. ASSUME NEW d \in Calls, LeaseExpires(d) PROVE code'[c] = 201 /\ result'[c] = result[c]
  BY <1>4 DEF LeaseExpires, vars
<1>5. CASE NodeStep
  BY <1>5 DEF NodeStep, NodeDelivers, NodeRefuses, createVars
<1> QED
  BY <1>2, <1>3, <1>4, <1>5 DEF CreateNext, AllAnswered, allVars, vars, createVars

\* A step of the creates, or of nothing, leaves the fork as it is.
LEMMA CreateKeepsFork ==
    ASSUME ForkInv, [CreateNext]_allVars, UNCHANGED forkVars
    PROVE  ForkInv'
<1>1. CreateInv'
  BY CreateStepKeeps DEF ForkInv
<1>2. fork.of \in Calls
  BY DEF ForkInv, ForkIsExact, ForkTypeOK
<1>3. fork.pc # "new" => code'[fork.of] = 201 /\ result'[fork.of] = result[fork.of]
  BY <1>2, CreatedStays DEF ForkInv, ForkKnows
<1>4. fork.answer = "created" => fork.pc # "new"
  BY DEF ForkInv, ForkKnows
<1>5. ForkIsExact' /\ ForkKnows'
  BY <1>3, <1>4 DEF ForkInv, ForkIsExact, ForkTypeOK, ForkKnows, forkVars
<1> QED
  BY <1>1, <1>5 DEF ForkInv

\* The fields of the fork and of its children.
ForkType == [pc : {"new", "fork", "remember", "handOver", "release", "answered"},
             surface : {"e2b", "kube"}, of : Calls, asked : SUBSET Kids,
             answer : {"none", "created", "refused", "failed"}, risk : BOOLEAN]

\* What an answer changes.
LEMMA AnswerFields ==
    ASSUME ForkTypeOK, NEW a \in {"created", "refused", "failed"}, forkAnswer(a)
    PROVE  /\ fork' \in ForkType
           /\ fork'.pc = "answered" /\ fork'.answer = a
           /\ fork'.of = fork.of /\ fork'.asked = fork.asked
           /\ fork'.surface = fork.surface /\ fork'.risk = fork.risk
BY DEF ForkTypeOK, ForkType, forkAnswer

\* A refusal, of the caller's request or of the node's, with no child left.
LEMMA RefusalKeeps ==
    ASSUME ForkTypeOK, ForkIsExact, ForkKnows, UNCHANGED <<code, result, kid>>,
           NEW a \in {"refused", "failed"}, forkAnswer(a), code[fork.of] = 201,
           ~fork.risk => \A k \in Kids : ~kid[k].live
    PROVE  ForkIsExact' /\ ForkKnows'
<1>1. /\ fork' \in ForkType
      /\ fork'.pc = "answered" /\ fork'.answer = a
      /\ fork'.of = fork.of /\ fork'.asked = fork.asked
      /\ fork'.surface = fork.surface /\ fork'.risk = fork.risk
  BY AnswerFields
<1>2. ForkTypeOK'
  BY <1>1 DEF ForkTypeOK, ForkType
<1> QED
  BY <1>1, <1>2 DEF ForkIsExact, ForkKnows

\* A step of the fork, or the end of a child's lease.
LEMMA ForkStepKeeps ==
    ASSUME ForkInv, UNCHANGED allVars,
           refuseFork \/ (\E asked \in SUBSET Kids \ {{}} : forkSandbox(asked))
           \/ ForkStep \/ \E k \in Kids : KidExpires(k)
    PROVE  ForkInv'
<1>1. CreateInv'
  BY CreateStepKeeps DEF ForkInv
<1>2. UNCHANGED <<code, result, live>>
  BY DEF allVars, vars, createVars
<1>3. ForkTypeOK /\ ForkIsExact /\ ForkKnows
  BY DEF ForkInv, ForkIsExact
<1> SUFFICES ForkIsExact' /\ ForkKnows'
  BY <1>1 DEF ForkInv
<1> USE <1>2, <1>3
<1>4. CASE refuseFork
  BY <1>4, RefusalKeeps DEF refuseFork, ForkKnows
<1>5. ASSUME NEW asked \in SUBSET Kids, forkSandbox(asked) PROVE ForkIsExact' /\ ForkKnows'
  BY <1>5 DEF forkSandbox, ForkIsExact, ForkTypeOK, ForkKnows
<1>6. CASE NodeForks
  <2>1. \A k \in Kids : /\ kid'[k] = IF k \in fork.asked THEN [NoKid EXCEPT !.live = TRUE]
                                     ELSE kid[k]
                        /\ kid'[k] \in KidType
    BY <1>6 DEF NodeForks, NoKid, KidType, ForkTypeOK
  <2>2. kid' \in [Kids -> KidType] /\ \A k \in Kids \ fork.asked : kid'[k] = kid[k]
    BY <1>6, <2>1 DEF NodeForks
  <2>3. CASE fork' = [fork EXCEPT !.pc = "answered", !.answer = "failed", !.risk = TRUE]
    <3>1. /\ fork' \in ForkType /\ fork'.pc = "answered" /\ fork'.answer = "failed"
          /\ fork'.risk = TRUE /\ fork'.of = fork.of /\ fork'.surface = fork.surface
      BY <2>3 DEF ForkTypeOK, ForkType
    <3> QED
      BY <1>6, <2>2, <3>1 DEF NodeForks, ForkTypeOK, ForkType, ForkIsExact, ForkKnows
  <2>4. CASE fork' = [fork EXCEPT !.pc = "remember"]
    <3>1. /\ fork' \in ForkType /\ fork'.pc = "remember" /\ fork'.answer = fork.answer
          /\ fork'.risk = fork.risk /\ fork'.of = fork.of /\ fork'.surface = fork.surface
          /\ fork'.asked = fork.asked
      BY <2>4 DEF ForkTypeOK, ForkType
    <3>2. fork.pc = "fork" /\ fork.answer = "none"
      BY <1>6 DEF NodeForks, ForkKnows, ForkTypeOK
    <3> QED
      BY <2>2, <3>1, <3>2 DEF ForkTypeOK, ForkType, ForkIsExact, ForkKnows
  <2> QED
    BY <1>6, <2>3, <2>4 DEF NodeForks
<1>7. CASE NodeForkFails
  BY <1>7, RefusalKeeps DEF NodeForkFails, ForkKnows
<1>8. ASSUME Fork
      PROVE  /\ kid' \in [Kids -> KidType]
             /\ \A k \in fork.asked : /\ kid'[k].at = result[fork.of].node
                                      /\ kid'[k].todo = "metadata"
             /\ \A k \in Kids \ fork.asked : kid'[k] = kid[k]
             /\ fork.pc = "remember" /\ fork.answer = "none"
  <2>1. result[fork.of].node \in Nodes \cup {NoNode} /\ fork.asked \subseteq Kids
    BY <1>1 DEF ForkTypeOK, CreateInv, IInv, TypeOK
  <2> DEFINE new(k) == [kid[k] EXCEPT !.at = result[fork.of].node, !.todo = "metadata"]
  <2>2. ASSUME NEW k \in Kids
        PROVE  /\ new(k) \in KidType
               /\ new(k).at = result[fork.of].node /\ new(k).todo = "metadata"
    <3>1. kid[k] \in KidType
      BY DEF ForkTypeOK
    <3> QED
      BY <2>1, <3>1 DEF KidType
  <2>3. kid' = [k \in Kids |-> IF k \in fork.asked THEN new(k) ELSE kid[k]]
    BY <1>8 DEF Fork
  <2>4. \A k \in Kids : kid[k] \in KidType
    BY DEF ForkTypeOK
  <2>5. fork.pc = "remember" /\ fork.answer = "none"
    BY <1>8 DEF Fork, ForkKnows, ForkTypeOK
  <2> HIDE DEF new
  <2> QED
    BY <2>1, <2>2, <2>3, <2>4, <2>5
<1>9. CASE handOverAll
  <2>1. /\ fork' \in ForkType /\ fork'.pc = "handOver" /\ fork'.answer = fork.answer
        /\ fork'.risk = fork.risk /\ fork'.of = fork.of /\ fork'.surface = fork.surface
        /\ fork'.asked = fork.asked
    BY <1>9 DEF handOverAll, ForkTypeOK, ForkType
  <2> QED
    BY <1>8, <1>9, <2>1 DEF handOverAll, ForkTypeOK, ForkType, ForkIsExact, ForkKnows
<1>10. CASE forkREST
  <2>1. /\ fork' \in ForkType
        /\ fork'.pc = "answered" /\ fork'.answer = "created"
        /\ fork'.of = fork.of /\ fork'.asked = fork.asked
        /\ fork'.surface = fork.surface /\ fork'.risk = fork.risk
    BY <1>10, AnswerFields DEF forkREST
  <2> QED
    BY <1>8, <1>10, <2>1 DEF forkREST, ForkTypeOK, ForkType, ForkIsExact, ForkKnows
<1>11. CASE wait
  <2>1. /\ fork.pc = "handOver" /\ UNCHANGED kid /\ fork.answer = "none"
        /\ \A k \in fork.asked : kid[k].todo \in {"ready", "failed"}
    BY <1>11 DEF wait, ForkKnows, ForkTypeOK
  <2>2. CASE fork' = [fork EXCEPT !.pc = "release"]
    <3>1. /\ fork' \in ForkType /\ fork'.pc = "release" /\ fork'.answer = fork.answer
          /\ fork'.risk = fork.risk /\ fork'.of = fork.of /\ fork'.surface = fork.surface
          /\ fork'.asked = fork.asked
      BY <2>2 DEF ForkTypeOK, ForkType
    <3> QED
      BY <2>1, <3>1 DEF ForkTypeOK, ForkType, ForkIsExact, ForkKnows
  <2>3. CASE forkAnswer("created") /\ \A k \in fork.asked : kid[k].todo # "failed"
    <3>1. /\ fork' \in ForkType
          /\ fork'.pc = "answered" /\ fork'.answer = "created"
          /\ fork'.of = fork.of /\ fork'.asked = fork.asked
          /\ fork'.surface = fork.surface /\ fork'.risk = fork.risk
      BY <2>3, AnswerFields
    <3> QED
      BY <2>1, <2>3, <3>1 DEF ForkTypeOK, ForkType, ForkIsExact, ForkKnows
  <2> QED
    BY <1>11, <2>2, <2>3 DEF wait
<1>12. CASE answerFork
  BY <1>12, RefusalKeeps DEF answerFork, ForkKnows
\* One child: its new record, and the others as they were.
<1>13. ASSUME NEW k \in Kids, NEW new \in KidType, kid' = [kid EXCEPT ![k] = new],
              UNCHANGED fork, new.at = kid[k].at, new.live => kid[k].live,
              ~new.live \/ fork.pc = "handOver",
              new.todo = kid[k].todo \/ (fork.pc = "handOver" /\ k \in fork.asked),
              new.todo = "init" /\ new.live => new.hash = "own",
              new.todo = "ready" /\ new.live => new.hash = "own" /\ new.token = "own"
       PROVE  ForkIsExact' /\ ForkKnows'
  <2>1. /\ kid'[k] = new /\ kid' \in [Kids -> KidType]
        /\ \A j \in Kids \ {k} : kid'[j] = kid[j]
    BY <1>13 DEF ForkTypeOK
  <2>2. ForkTypeOK' /\ fork.asked \subseteq Kids
    BY <1>13, <2>1 DEF ForkTypeOK
  <2>3. ForkIsExact'
    BY <1>13, <2>1, <2>2 DEF ForkIsExact, ForkKnows
  <2>4. ForkKnows'
    BY <1>13, <2>1, <2>2 DEF ForkKnows
  <2> QED
    BY <2>3, <2>4
<1>14. ASSUME NEW k \in Kids, setInstanceMetadata(k) PROVE ForkIsExact' /\ ForkKnows'
  <2> DEFINE new == [kid[k] EXCEPT !.hash = "own", !.todo = "init"]
  <2>1. /\ fork.pc = "handOver" /\ kid[k].todo = "metadata" /\ UNCHANGED fork
        /\ kid' = [kid EXCEPT ![k] = new]
    BY <1>14 DEF setInstanceMetadata, ForkTypeOK, KidType
  <2>2. /\ new \in KidType /\ new.at = kid[k].at /\ new.live = kid[k].live
        /\ new.todo = "init" /\ new.hash = "own"
    BY DEF ForkTypeOK, KidType
  <2>3. k \in fork.asked
    BY <2>1 DEF ForkKnows
  <2> HIDE DEF new
  <2> QED
    BY <1>13, <2>1, <2>2, <2>3
<1>15. ASSUME NEW k \in Kids, initKid(k) PROVE ForkIsExact' /\ ForkKnows'
  <2> DEFINE new == [kid[k] EXCEPT !.token = "own", !.todo = "ready"]
  <2>1. /\ fork.pc = "handOver" /\ kid[k].todo = "init" /\ UNCHANGED fork /\ kid[k].hash = "own"
        /\ kid' = [kid EXCEPT ![k] = new]
    BY <1>15 DEF initKid, ForkTypeOK, KidType
  <2>2. /\ new \in KidType /\ new.at = kid[k].at /\ new.live = kid[k].live
        /\ new.todo = "ready" /\ new.token = "own" /\ new.hash = kid[k].hash
    BY DEF ForkTypeOK, KidType
  <2>3. k \in fork.asked
    BY <2>1 DEF ForkKnows
  <2> HIDE DEF new
  <2> QED
    BY <1>13, <2>1, <2>2, <2>3
<1>16. ASSUME NEW k \in Kids, handOverFails(k) PROVE ForkIsExact' /\ ForkKnows'
  <2>1. fork.pc = "handOver" /\ kid[k].todo \in {"metadata", "init"} /\ UNCHANGED fork
    BY <1>16 DEF handOverFails
  <2>2. k \in fork.asked
    BY <2>1 DEF ForkKnows
  <2>3. ASSUME NEW new \in KidType, kid' = [kid EXCEPT ![k] = new],
               new.at = kid[k].at, new.live = kid[k].live, new.todo = "failed"
        PROVE  ForkIsExact' /\ ForkKnows'
    BY <1>13, <2>1, <2>2, <2>3
  <2>4. kid[k] \in KidType
    BY DEF ForkTypeOK
  <2> DEFINE failed == [kid[k] EXCEPT !.todo = "failed"]
             hashed == [kid[k] EXCEPT !.todo = "failed", !.hash = "own"]
             moved == [kid[k] EXCEPT !.todo = "failed", !.token = "own"]
  <2>5. \A new \in {failed, hashed, moved} :
           /\ new \in KidType /\ new.at = kid[k].at /\ new.live = kid[k].live
           /\ new.todo = "failed"
    BY <2>4 DEF KidType
  <2>6. \E new \in {failed, hashed, moved} : kid' = [kid EXCEPT ![k] = new]
    BY <1>16 DEF handOverFails
  <2> HIDE DEF failed, hashed, moved
  <2> QED
    BY <2>3, <2>5, <2>6
<1>17. \A k \in Kids : /\ Gone(k) \in KidType /\ ~Gone(k).live
                       /\ Gone(k).at = kid[k].at /\ Gone(k).todo = kid[k].todo
  <2> SUFFICES ASSUME NEW k \in Kids
               PROVE  /\ Gone(k) \in KidType /\ ~Gone(k).live
                      /\ Gone(k).at = kid[k].at /\ Gone(k).todo = kid[k].todo
    OBVIOUS
  <2>1. kid[k] \in KidType
    BY DEF ForkTypeOK
  <2>2. Gone(k) \in KidType
    BY <2>1 DEF Gone, KidType
  <2>3. ~Gone(k).live
    BY <2>1 DEF Gone, KidType
  <2>4. Gone(k).at = kid[k].at /\ Gone(k).todo = kid[k].todo
    BY <2>1 DEF Gone, KidType
  <2> QED
    BY <2>2, <2>3, <2>4
<1>18. ASSUME NEW k \in Kids, releaseKid(k) PROVE ForkIsExact' /\ ForkKnows'
  <2>1. PICK lost \in BOOLEAN :
           /\ fork' = [fork EXCEPT !.asked = @ \ {k}, !.risk = @ \/ lost]
           /\ \/ kid' = [kid EXCEPT ![k] = Gone(k)]
              \/ lost /\ UNCHANGED kid
    BY <1>18 DEF releaseKid
  <2>2. /\ fork' \in ForkType /\ fork'.pc = "release" /\ fork'.answer = fork.answer
        /\ fork'.risk = (fork.risk \/ lost) /\ fork'.of = fork.of
        /\ fork'.surface = fork.surface /\ fork'.asked = fork.asked \ {k}
        /\ fork.pc = "release" /\ fork.answer = "none"
    BY <1>18, <2>1 DEF releaseKid, ForkTypeOK, ForkType, ForkKnows
  <2>3. /\ kid' \in [Kids -> KidType]
        /\ ~lost => ~kid'[k].live
        /\ \A j \in Kids \ {k} : kid'[j] = kid[j]
    BY <1>17, <2>1 DEF ForkTypeOK
  <2>4. ForkTypeOK'
    BY <2>2, <2>3 DEF ForkTypeOK, ForkType
  <2> QED
    BY <2>2, <2>3, <2>4 DEF ForkIsExact, ForkKnows
<1>19. ASSUME NEW k \in Kids, KidExpires(k) PROVE ForkIsExact' /\ ForkKnows'
  BY <1>13, <1>17, <1>19 DEF KidExpires
<1> QED
  BY <1>4, <1>5, <1>6, <1>7, <1>9, <1>10, <1>11, <1>12, <1>14, <1>15, <1>16, <1>18, <1>19
  DEF ForkStep

-----------------------------------------------------------------------------
\* The inductive invariant of creates and forks holds in every reachable state.
THEOREM ForkInvariant == ForkSpec => []ForkInv
<1>1. ForkInit => ForkInv
  <2> SUFFICES ASSUME ForkInit PROVE ForkInv
    OBVIOUS
  <2>1. CreateInv
    BY CreateInitIsGood DEF ForkInit
  <2>2. PICK c \in Calls, s \in {"e2b", "kube"} :
           fork = [pc |-> "new", surface |-> s, of |-> c, asked |-> {},
                   answer |-> "none", risk |-> FALSE]
    BY DEF ForkInit
  <2>3. \A k \in Kids : kid[k] = NoKid
    BY DEF ForkInit
  <2>4. ForkTypeOK
    BY <2>2 DEF ForkInit, ForkTypeOK, NoKid, KidType
  <2>5. ForkIsExact /\ ForkKnows
    BY <2>2, <2>3, <2>4 DEF ForkIsExact, ForkKnows, NoKid
  <2> QED
    BY <2>1, <2>5 DEF ForkInv
<1>2. ForkInv /\ [ForkNext]_forkAllVars => ForkInv'
  <2> SUFFICES ASSUME ForkInv, [ForkNext]_forkAllVars PROVE ForkInv'
    OBVIOUS
  <2>1. CASE UNCHANGED forkVars /\ [CreateNext]_allVars
    BY <2>1, CreateKeepsFork
  <2>2. CASE \/ refuseFork \/ (\E asked \in SUBSET Kids \ {{}} : forkSandbox(asked))
             \/ ForkStep \/ \E k \in Kids : KidExpires(k)
    <3>1. UNCHANGED allVars
      BY <2>2 DEF refuseFork, forkSandbox, ForkStep, NodeForks, NodeForkFails, handOverAll,
         forkREST, Fork, wait, answerFork, setInstanceMetadata, initKid, handOverFails,
         releaseKid, KidExpires
    <3> QED
      BY <2>2, <3>1, ForkStepKeeps
  <2> QED
    BY <2>1, <2>2 DEF ForkNext, forkVars, forkAllVars
<1> QED
  BY <1>1, <1>2, PTL DEF ForkSpec

\* A create costs at most one microVM over both its claims, however their
\* answers are lost, late or redirected.
THEOREM CreateDeliversAtMostOnce == ForkSpec => []AtMostOneDelivery
<1>1. ForkInv => AtMostOneDelivery
  BY KnowledgeBoundsDelivery DEF ForkInv, CreateInv
<1> QED
  BY <1>1, ForkInvariant, PTL

\* createSandbox, releaseAll and Create: a create that fails leaves no microVM
\* behind, unless an answer or the release was lost, and 404 and 503 never hide
\* one.
THEOREM FailedCreateLeavesNothing == ForkSpec => []FailedCreateHoldsNothing
<1>1. ForkInv => FailedCreateHoldsNothing
  BY DEF ForkInv, CreateInv, CreateKnows, Clean, FailedCreateHoldsNothing
<1> QED
  BY <1>1, ForkInvariant, PTL

\* initEnvd: a 201 names the node that delivered, which is also the one the
\* index names and, on the e2b surface, the one that got the token.
THEOREM CreatedIsWhereItRuns == ForkSpec => []CreatedIsInitialised
<1>1. ForkInv => CreatedIsInitialised
  BY DEF ForkInv, CreateInv, IInv, Knowledge, DeliveredBy, CreateKnows, CreatedIsInitialised
<1> QED
  BY <1>1, ForkInvariant, PTL

\* forkSandbox, handOver and releaseAll: a fork is all or nothing, and a child
\* of an e2b fork obeys its own token.
THEOREM ForkIsAllOrNothing == ForkSpec => []ForkIsExact
<1>1. ForkInv => ForkIsExact
  BY DEF ForkInv
<1> QED
  BY <1>1, ForkInvariant, PTL
-----------------------------------------------------------------------------
(* A claim gives up only when its candidates did.                          *)

\* A call has been told by every candidate it dropped that it got nothing; of
\* the peers it was redirected to, the ones it knows have told it, are being
\* asked or are still to be asked.
Following(c) == pc[c] = "hop" \/ (pc[c] = "wait" /\ redirect[c] # <<>>)
Tried(c) ==
    /\ redirect[c] = <<>> => left[c] = <<>>
    /\ snap[c].cand \subseteq snap[c].known
    /\ ~snap[c].promoted =>
         /\ pc[c] \in {"pick", "wait", "hop"} => snap[c].cand \ cand[c] \subseteq silent[c]
         /\ pc[c] = "wait" /\ redirect[c] = <<>> => at[c] = from[c]
         /\ Following(c) =>
              /\ from[c] \in silent[c]
              /\ \A x \in Named(redirect[c]) \cap snap[c].known :
                    x \in silent[c] \cup Named(left[c]) \/ (pc[c] = "wait" /\ x = at[c])
         /\ result[c].kind = "noWarm" => snap[c].cand \subseteq silent[c]

AllTried == \A c \in Calls : Tried(c)

\* What a call knows of its candidates is kept by a step that leaves it alone.
LEMMA TriedFrame ==
    ASSUME NEW c \in Calls, Tried(c),
           pc'[c] = pc[c], snap'[c] = snap[c], cand'[c] = cand[c], from'[c] = from[c],
           at'[c] = at[c], redirect'[c] = redirect[c], left'[c] = left[c],
           silent'[c] = silent[c], result'[c] = result[c]
    PROVE  Tried(c)'
BY DEF Tried, Following, Named

\* A step of one call leaves the others alone.
LEMMA OneCallMoves ==
    ASSUME TypeOK, NEW c \in Calls, NEW d \in Calls, c # d,
           \/ Handle(c) \/ AnswerLost(c) \/ \E s : StartClaim(c, s)
           \/ Finish(c, "failed") /\ UNCHANGED <<snap, cand, from, at, redirect, left, silent>>
    PROVE  /\ pc'[d] = pc[d] /\ snap'[d] = snap[d] /\ cand'[d] = cand[d]
           /\ from'[d] = from[d] /\ at'[d] = at[d] /\ redirect'[d] = redirect[d]
           /\ left'[d] = left[d] /\ silent'[d] = silent[d] /\ result'[d] = result[d]
<1> USE DEF TypeOK
<1>1. ASSUME NEW n \in Nodes, pickPowerOfTwo(c, n)
      PROVE  /\ pc'[d] = pc[d] /\ from'[d] = from[d] /\ at'[d] = at[d]
             /\ redirect'[d] = redirect[d] /\ left'[d] = left[d]
             /\ UNCHANGED <<snap, cand, silent, result>>
  BY <1>1 DEF pickPowerOfTwo, Ask
<1>2. CASE Delivered(c) \/ Fails(c) \/ AnswerLost(c)
  BY <1>2 DEF Delivered, claimSucceeds, Fails, Finish, AnswerLost
<1>3. CASE Redirected(c) \/ PeerDeliversNothing(c)
  BY <1>3 DEF Redirected, PeerDeliversNothing
<1>4. CASE PickDeliversNothing(c) \/ TemplateGone(c) \/ RedirectExhausted(c)
  BY <1>4 DEF PickDeliversNothing, TemplateGone, RedirectExhausted, dropPicked, Finish
<1>5. CASE SkipUnknownPeer(c) \/ AskPeer(c)
  BY <1>5 DEF SkipUnknownPeer, AskPeer, Ask
<1>6. CASE \E s : StartClaim(c, s)
  BY <1>6 DEF StartClaim, Finish
<1>7. CASE Finish(c, "failed") /\ UNCHANGED <<snap, cand, from, at, redirect, left, silent>>
  BY <1>7 DEF Finish
<1> QED
  BY <1>1, <1>2, <1>3, <1>4, <1>5, <1>6, <1>7 DEF Handle

\* A list names its head and what its tail names.
LEMMA NamedOfTail ==
    ASSUME NEW s \in Seq(Nodes), s # <<>>
    PROVE  Named(s) \subseteq {Head(s)} \cup Named(Tail(s))
<1> SUFFICES ASSUME NEW i \in 1..Len(s), s[i] # Head(s) PROVE s[i] \in Named(Tail(s))
  BY DEF Named
<1>1. i - 1 \in 1..Len(Tail(s)) /\ Tail(s)[i - 1] = s[i]
  OBVIOUS
<1>2. Tail(s) \in Seq(Nodes)
  OBVIOUS
<1>3. i - 1 \in DOMAIN Tail(s)
  BY <1>1, <1>2
<1> QED
  BY <1>1, <1>3 DEF Named

\* The candidates dropped by dropPicked have told the call that they delivered
\* nothing.
LEMMA DropTried ==
    ASSUME TypeOK, NEW c \in Calls, Tried(c), dropPicked(c),
           snap'[c] = snap[c], redirect'[c] = redirect[c], left'[c] = left[c],
           silent[c] \subseteq silent'[c], pc[c] \in {"wait", "hop"},
           ~snap[c].promoted =>
               /\ from[c] \in silent'[c]
               /\ Named(redirect[c]) \cap snap[c].known \subseteq silent'[c]
    PROVE  Tried(c)'
<1>1. cand'[c] = cand[c] \ ({from[c]} \cup Named(redirect[c]))
  BY DEF dropPicked, remaining, TypeOK
<1>2. ASSUME ~snap[c].promoted PROVE snap[c].cand \ cand'[c] \subseteq silent'[c]
  BY <1>1, <1>2 DEF Tried
<1>3. \/ cand'[c] = {} /\ pc'[c] = "done"
      \/ pc'[c] = "pick" /\ result'[c] = result[c]
  BY DEF dropPicked, Finish, TypeOK
<1>4. ASSUME ~snap[c].promoted, result'[c].kind = "noWarm" PROVE snap[c].cand \subseteq silent'[c]
  BY <1>2, <1>3, <1>4 DEF Tried
<1> QED
  BY <1>2, <1>3, <1>4 DEF Tried, Following

\* A call keeps count of its candidates through every answer it handles.
LEMMA HandleTried ==
    ASSUME TypeOK, NEW c \in Calls, Tried(c), Handle(c) \/ AnswerLost(c)
    PROVE  Tried(c)'
<1>0. Named(<<>>) = {}
  BY NamedOfLists
<1>1. ASSUME NEW n \in Nodes, pickPowerOfTwo(c, n) PROVE Tried(c)'
  <2>1. /\ pc[c] = "pick" /\ pc'[c] = "wait" /\ from'[c] = n /\ at'[c] = n
        /\ redirect'[c] = <<>> /\ left'[c] = <<>>
        /\ snap'[c] = snap[c] /\ cand'[c] = cand[c] /\ silent'[c] = silent[c]
        /\ result'[c] = result[c]
    BY <1>1 DEF pickPowerOfTwo, Ask, TypeOK
  <2> QED
    BY <2>1 DEF Tried, Following
<1>2. CASE Delivered(c) \/ Fails(c)
  <2>1. /\ pc'[c] = "done" /\ result'[c].kind # "noWarm"
        /\ snap'[c] = snap[c] /\ redirect'[c] = redirect[c] /\ left'[c] = left[c]
    BY <1>2 DEF Delivered, claimSucceeds, Fails, Finish, Result, TypeOK
  <2> QED
    BY <2>1 DEF Tried, Following
<1>3. CASE Redirected(c)
  <2>1. /\ pc[c] = "wait" /\ redirect[c] = <<>> /\ pc'[c] = "hop"
        /\ redirect'[c] = reply[c].targets /\ left'[c] = reply[c].targets
        /\ silent'[c] = silent[c] \cup {at[c]}
        /\ snap'[c] = snap[c] /\ cand'[c] = cand[c] /\ from'[c] = from[c]
        /\ result'[c] = result[c]
    BY <1>3 DEF Redirected, TypeOK
  <2>2. redirect'[c] = left'[c] /\ Named(redirect[c])' = Named(left[c])'
    BY <2>1 DEF Named
  <2> QED
    BY <2>1, <2>2 DEF Tried, Following
<1>4. CASE PickDeliversNothing(c)
  <2>1. /\ pc[c] = "wait" /\ redirect[c] = <<>> /\ dropPicked(c)
        /\ silent'[c] = silent[c] \cup {at[c]} /\ snap'[c] = snap[c]
        /\ redirect'[c] = redirect[c] /\ left'[c] = left[c]
    BY <1>4 DEF PickDeliversNothing, TypeOK
  <2>2. ~snap[c].promoted => from[c] = at[c]
    BY <2>1 DEF Tried
  <2> QED
    BY <1>0, <2>1, <2>2, DropTried
<1>5. CASE TemplateGone(c)
  <2>1. /\ pc[c] = "wait" /\ snap[c].promoted /\ dropPicked(c)
        /\ silent'[c] = silent[c] \cup {at[c]} /\ snap'[c] = snap[c]
        /\ redirect'[c] = redirect[c] /\ left'[c] = left[c]
    BY <1>5 DEF TemplateGone, TypeOK
  <2> QED
    BY <2>1, DropTried
<1>6. CASE PeerDeliversNothing(c)
  <2>1. /\ pc[c] = "wait" /\ redirect[c] # <<>> /\ pc'[c] = "hop"
        /\ silent'[c] = silent[c] \cup {at[c]}
        /\ snap'[c] = snap[c] /\ cand'[c] = cand[c] /\ from'[c] = from[c]
        /\ redirect'[c] = redirect[c] /\ left'[c] = left[c] /\ result'[c] = result[c]
    BY <1>6 DEF PeerDeliversNothing, TypeOK
  <2>2. Named(redirect[c])' = Named(redirect[c]) /\ Named(left[c])' = Named(left[c])
    BY <2>1 DEF Named
  <2> QED
    BY <2>1, <2>2 DEF Tried, Following
<1>7. CASE SkipUnknownPeer(c)
  <2>1. /\ pc[c] = "hop" /\ pc'[c] = pc[c] /\ left[c] # <<>> /\ left[c] \in Seq(Nodes)
        /\ Head(left[c]) \notin snap[c].known /\ left'[c] = Tail(left[c])
        /\ silent'[c] = silent[c] /\ snap'[c] = snap[c] /\ cand'[c] = cand[c]
        /\ from'[c] = from[c] /\ redirect'[c] = redirect[c] /\ result'[c] = result[c]
    BY <1>7 DEF SkipUnknownPeer, TypeOK
  <2>2. /\ Named(redirect[c])' = Named(redirect[c])
        /\ Named(left[c]) \subseteq {Head(left[c])} \cup Named(left[c])'
    BY <2>1, NamedOfTail DEF Named
  <2> QED
    BY <2>1, <2>2 DEF Tried, Following
<1>8. CASE AskPeer(c)
  <2>1. /\ pc[c] = "hop" /\ pc'[c] = "wait" /\ left[c] # <<>> /\ left[c] \in Seq(Nodes)
        /\ at'[c] = Head(left[c]) /\ left'[c] = Tail(left[c])
        /\ silent'[c] = silent[c] /\ snap'[c] = snap[c] /\ cand'[c] = cand[c]
        /\ from'[c] = from[c] /\ redirect'[c] = redirect[c] /\ result'[c] = result[c]
    BY <1>8 DEF AskPeer, Ask, TypeOK
  <2>2. /\ Named(redirect[c])' = Named(redirect[c])
        /\ Named(left[c]) \subseteq {Head(left[c])} \cup Named(left[c])'
    BY <2>1, NamedOfTail DEF Named
  <2>3. redirect[c] # <<>>
    BY <2>1 DEF Tried
  <2> QED
    BY <2>1, <2>2, <2>3 DEF Tried, Following
<1>9. CASE RedirectExhausted(c)
  <2>1. /\ pc[c] = "hop" /\ left[c] = <<>> /\ dropPicked(c)
        /\ silent'[c] = silent[c] /\ snap'[c] = snap[c]
        /\ redirect'[c] = redirect[c] /\ left'[c] = left[c]
    BY <1>9 DEF RedirectExhausted, TypeOK
  <2>2. ~snap[c].promoted => /\ from[c] \in silent[c]
                             /\ Named(redirect[c]) \cap snap[c].known \subseteq silent[c]
    BY <1>0, <2>1 DEF Tried, Following
  <2> QED
    BY <2>1, <2>2, DropTried
<1>10. CASE AnswerLost(c)
  BY <1>10, TriedFrame DEF AnswerLost
<1> QED
  BY <1>1, <1>2, <1>3, <1>4, <1>5, <1>6, <1>7, <1>8, <1>9, <1>10 DEF Handle

\* A claim starts over with every candidate of its snapshot; one that fails
\* before it asks a node answers something else.
LEMMA StartTried ==
    ASSUME TypeOK, NEW c \in Calls, Tried(c),
           \/ \E optIn \in BOOLEAN : \E s \in Snapshots(optIn) : StartClaim(c, s)
           \/ Finish(c, "failed") /\ UNCHANGED <<snap, cand, from, at, redirect, left, silent>>
    PROVE  Tried(c)'
<1>1. ASSUME NEW optIn \in BOOLEAN, NEW s \in Snapshots(optIn), StartClaim(c, s) PROVE Tried(c)'
  <2>1. /\ snap'[c] = s /\ cand'[c] = s.cand /\ s.cand \subseteq s.known
        /\ redirect'[c] = redirect[c] /\ left'[c] = left[c]
    BY <1>1 DEF StartClaim, Snapshots, TypeOK
  <2>2. \/ s.cand = {} /\ pc'[c] = "done"
        \/ pc'[c] = "pick" /\ result'[c].kind = "none"
    BY <1>1 DEF StartClaim, Finish, Result, TypeOK
  <2> QED
    BY <2>1, <2>2 DEF Tried, Following
<1>2. CASE Finish(c, "failed") /\ UNCHANGED <<snap, cand, from, at, redirect, left, silent>>
  <2>1. pc'[c] = "done" /\ result'[c].kind = "failed"
    BY <1>2 DEF Finish, Result, TypeOK
  <2> QED
    BY <1>2, <2>1 DEF Tried, Following
<1> QED
  BY <1>1, <1>2

\* Every step of a create or of a node keeps the count.
LEMMA CreateKeepsTried == TypeOK /\ AllTried /\ [CreateNext]_allVars => AllTried'
<1> SUFFICES ASSUME TypeOK, AllTried, [CreateNext]_allVars, NEW d \in Calls PROVE Tried(d)'
  BY DEF AllTried
<1>0. Tried(d)
  BY DEF AllTried
<1>1. ASSUME UNCHANGED <<pc, snap, cand, from, at, redirect, left, silent, result>>
      PROVE  Tried(d)'
  BY <1>0, <1>1, TriedFrame
<1>2. ASSUME NEW c \in Calls,
             \/ \E optIn \in BOOLEAN : \E s \in Snapshots(optIn) : StartClaim(c, s)
             \/ Finish(c, "failed") /\ UNCHANGED <<snap, cand, from, at, redirect, left, silent>>
      PROVE  Tried(d)'
  <2>1. CASE c = d
    BY <1>0, <1>2, <2>1, StartTried
  <2>2. CASE c # d
    BY <1>0, <1>2, <2>2, OneCallMoves, TriedFrame
  <2> QED
    BY <2>1, <2>2
<1>3. ASSUME NEW c \in Calls, Routing(c) PROVE Tried(d)'
  <2>1. Handle(c) \/ AnswerLost(c)
    BY <1>3 DEF Routing
  <2>2. CASE c = d
    BY <1>0, <2>1, <2>2, HandleTried
  <2>3. CASE c # d
    BY <1>0, <2>1, <2>3, OneCallMoves, TriedFrame
  <2> QED
    BY <2>2, <2>3
<1>4. ASSUME NEW c \in Calls, ClaimPool(c) PROVE Tried(d)'
  BY <1>2, <1>4 DEF ClaimPool, ClaimWithoutInventory
<1>5. ASSUME NEW c \in Calls, resolveTemplate(c) PROVE Tried(d)'
  <2>1. CASE UNCHANGED vars
    BY <1>1, <2>1 DEF vars
  <2>2. CASE \E s \in Snapshots(TRUE) : StartClaim(c, s)
    BY <1>2, <2>2
  <2>3. CASE Finish(c, "failed") /\ UNCHANGED <<snap, cand, from, at, redirect, left, silent>>
    BY <1>2, <2>3
  <2> QED
    BY <1>5, <2>1, <2>2, <2>3 DEF resolveTemplate
<1>6. ASSUME NEW c \in Calls, Create(c), ~ClaimPool(c), ~resolveTemplate(c) PROVE UNCHANGED vars
  BY <1>6 DEF Create, RefuseRequest, RefuseObject, answerExhausted, answerFailure, Claimed,
     answerKube, initEnvd, initFails, releaseAll
<1>7. ASSUME NEW c \in Calls, LeaseExpires(c) PROVE UNCHANGED vars
  BY <1>7 DEF LeaseExpires
<1>8. CASE NodeStep
  BY <1>1, <1>8 DEF NodeStep, NodeDelivers, NodeRefuses
<1>9. CASE UNCHANGED allVars
  BY <1>1, <1>9 DEF allVars, vars
<1> QED
  BY <1>1, <1>3, <1>4, <1>5, <1>6, <1>7, <1>8, <1>9 DEF CreateNext, AllAnswered, vars

\* claimUndelivered and claimRedirected: over both claims of a create, "no
\* warm capacity" is answered only after every candidate of the snapshot said
\* that it delivered nothing.
THEOREM WarmCandidatesAreExhausted == ForkSpec => []WarmCandidatesExhausted
<1>1. ForkInit => AllTried
  <2> SUFFICES ASSUME ForkInit, NEW c \in Calls PROVE Tried(c)
    BY DEF AllTried
  <2> QED
    BY DEF ForkInit, CreateInit, Init, Tried, Following, Result
<1>2. ForkInv /\ AllTried /\ [ForkNext]_forkAllVars => AllTried'
  <2> SUFFICES ASSUME ForkInv, AllTried, [ForkNext]_forkAllVars PROVE AllTried'
    OBVIOUS
  <2>1. TypeOK
    BY DEF ForkInv, CreateInv, IInv
  <2>2. ASSUME \/ refuseFork \/ (\E asked \in SUBSET Kids \ {{}} : forkSandbox(asked))
               \/ ForkStep \/ \E k \in Kids : KidExpires(k)
        PROVE  UNCHANGED allVars
    BY <2>2 DEF refuseFork, forkSandbox, ForkStep, NodeForks, NodeForkFails, handOverAll,
       forkREST, Fork, wait, answerFork, setInstanceMetadata, initKid, handOverFails,
       releaseKid, KidExpires
  <2>3. CASE UNCHANGED forkAllVars
    BY <2>1, <2>3, CreateKeepsTried DEF forkAllVars
  <2> QED
    BY <2>1, <2>2, <2>3, CreateKeepsTried DEF ForkNext
<1>3. AllTried => WarmCandidatesExhausted
  BY DEF AllTried, Tried, WarmCandidatesExhausted
<1> QED
  BY <1>1, <1>2, <1>3, ForkInvariant, PTL DEF ForkSpec
=============================================================================
