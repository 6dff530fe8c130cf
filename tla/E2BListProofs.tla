---------------------------- MODULE E2BListProofs ----------------------------
(***************************************************************************)
(* Proofs about the watch and the paged list, for any fleet, any claims,   *)
(* any pinned name and any limits.  The first part is about the watch      *)
(* alone, the second about a walk through the pages of a list that changes *)
(* in any way between two of them, and the third shows that the pages cut  *)
(* from the inventories the watch is derived from are such a walk,         *)
(* whatever the nodes and the watch do meanwhile.                          *)
(***************************************************************************)
EXTENDS E2BList, FiniteSetTheorems, TLAPS

\* A row is of a claim that was made on the node that publishes it, and a node
\* publishes one row of a claim.
RowsOfClaims ==
    \A n \in Nodes :
        /\ \A i \in rows[n] : claim[i.id].node = n /\ claim[i.id].state # "unborn"
        /\ \A i, j \in rows[n] : i.id = j.id => i = j

\* An entry the watch knows is of a claim that was made, under its name.
KnownOfClaims ==
    \A k \in Names : known[k] # NoItem =>
        NameOf[known[k].id] = k /\ claim[known[k].id].state # "unborn"

\* The node is asked about an entry the watch holds.
AskedIsKnown == pc = "held" => Pinned # NoName /\ known[Pinned] # NoItem

\* The client holds what the watch knows; under a name claimed twice, an object
\* whenever the watch knows one.
ClientFollows ==
    /\ (Pinned = NoName => IsInjective(NameOf)) => view = known
    /\ \A k \in Names : known[k] = NoItem <=> view[k] = NoItem
    /\ Pinned = NoName => {k \in Names : view[k] # NoItem} = {NameOf[i.id] : i \in last}
    /\ pc = "open" => view = Nothing /\ last = {}

IInv ==
    /\ TypeOK
    /\ RowsOfClaims
    /\ KnownOfClaims
    /\ AskedIsKnown
    /\ ClientFollows
    /\ deleted # "held"

-----------------------------------------------------------------------------
\* What TypeOK says of the scenario.
LEMMA ScenarioType ==
    ASSUME TypeOK
    PROVE  NameOf \in [Ids -> Names] /\ Pinned \in Names \cup {NoName}
<1>1. [name |-> NameOf, pin |-> Pinned] \in [name : [Ids -> Names], pin : Names \cup {NoName}]
  BY ScenariosAssumption DEF TypeOK
<1> QED
  BY <1>1

\* An item read from the inventories is a selected row of a listed node.
LEMMA InventoryItems ==
    ASSUME TypeOK, RowsOfClaims, NEW i \in listInventories
    PROVE  /\ i \in Items
           /\ claim[i.id].state # "unborn"
           /\ \E n \in Nodes : n = claim[i.id].node /\ i \in rows[n]
<1>1. PICK n \in listed : i \in rows[n]
  BY DEF listInventories
<1> QED
  BY <1>1 DEF TypeOK, RowsOfClaims

\* What the opening list of a pinned watch and its polls return: nothing, or
\* one item of the name, of a claim that was made.
Answer(items) ==
    /\ items = {} \/ \E i \in items : items = {i}
    /\ \A i \in items : /\ i \in Items
                        /\ NameOf[i.id] = Pinned
                        /\ claim[i.id].state # "unborn"

LEMMA OneOfIsAnswer ==
    ASSUME NEW S, NEW items \in OneOf(S),
           \A i \in S : i \in Items /\ NameOf[i.id] = Pinned /\ claim[i.id].state # "unborn"
    PROVE  Answer(items)
BY DEF OneOf, Answer

LEMMA PinnedAnswers ==
    ASSUME TypeOK, RowsOfClaims
    PROVE  /\ \A items \in sweepPinned : Answer(items)
           /\ \A items \in pollPinned : Answer(items)
           /\ \A items \in listPinned : Answer(items)
<1>1. ASSUME NEW n \in Nodes, NEW i \in Matching(rows[n])
      PROVE  i \in Items /\ NameOf[i.id] = Pinned /\ claim[i.id].state # "unborn"
  BY <1>1 DEF Matching, TypeOK, RowsOfClaims
<1>2. ASSUME NEW items \in sweepPinned PROVE Answer(items)
  <2>1. \A i \in {x \in Matching(listInventories) : IsSelected(x)} :
           i \in Items /\ NameOf[i.id] = Pinned /\ claim[i.id].state # "unborn"
    BY InventoryItems DEF Matching
  <2> QED
    BY <1>2, <2>1, OneOfIsAnswer DEF sweepPinned
<1>3. ASSUME NEW items \in pollPinned PROVE Answer(items)
  <2>1. CASE known[Pinned] = NoItem
    BY <1>2, <1>3, <2>1 DEF pollPinned
  <2>2. CASE known[Pinned] # NoItem
    <3> DEFINE n == claim[known[Pinned].id].node
               mine == IF n \in listed THEN Matching(rows[n]) ELSE {}
    <3>1. PICK s \in OneOf(mine) : items = {i \in s : IsSelected(i)}
      BY <1>3, <2>2 DEF pollPinned
    <3>2. \A i \in mine : i \in Items /\ NameOf[i.id] = Pinned /\ claim[i.id].state # "unborn"
      BY <1>1 DEF TypeOK
    <3> HIDE DEF mine
    <3>3. Answer(s)
      BY <3>1, <3>2, OneOfIsAnswer
    <3> QED
      BY <3>1, <3>3 DEF Answer
  <2> QED
    BY <2>1, <2>2
<1>4. ASSUME NEW s \in lookupName PROVE Answer(s)
  <2> DEFINE published == Matching(UNION {rows[n] : n \in listed})
             live == Matching({Row(id) : id \in {i \in Ids : \E n \in listed : Holds(n, i)}})
  <2>1. \A i \in published : i \in Items /\ NameOf[i.id] = Pinned /\ claim[i.id].state # "unborn"
    BY <1>1 DEF Matching, TypeOK
  <2>2. \A i \in live : i \in Items /\ NameOf[i.id] = Pinned /\ claim[i.id].state # "unborn"
    BY DEF Matching, Row, Holds, Items, TypeOK
  <2>3. s \in OneOf(published \cup live) \/ s = {}
    BY <1>4 DEF lookupName
  <2> HIDE DEF published, live
  <2>4. CASE s = {}
    BY <2>4 DEF Answer
  <2>5. CASE s \in OneOf(published \cup live)
    BY <2>1, <2>2, <2>5, OneOfIsAnswer
  <2> QED
    BY <2>3, <2>4, <2>5
<1>5. ASSUME NEW items \in listPinned PROVE Answer(items)
  <2>1. PICK s \in lookupName :
           items \in IF s = {} THEN {{}}
                     ELSE IF \A i \in s : IsSelected(i) THEN {s} ELSE sweepPinned
    BY <1>5 DEF listPinned
  <2>2. items = {} \/ items = s \/ items \in sweepPinned
    BY <2>1
  <2>3. Answer({})
    BY DEF Answer
  <2> QED
    BY <1>2, <1>4, <2>2, <2>3
<1> QED
  BY <1>2, <1>3, <1>5

-----------------------------------------------------------------------------
LEMMA InitIsGood == Init => IInv
<1> SUFFICES ASSUME Init PROVE IInv
  OBVIOUS
<1>1. PICK s \in Scenarios : NameOf = s.name /\ Pinned = s.pin
  BY DEF Init
<1>2. s = [name |-> NameOf, pin |-> Pinned]
  BY <1>1, ScenariosAssumption
<1>3. (CHOOSE v \in Versions : TRUE) \in Versions
  BY SelectedAssumption
<1>4. TypeOK
  BY <1>2, <1>3 DEF Init, TypeOK, Nothing
<1> QED
  BY <1>4 DEF Init, IInv, RowsOfClaims, KnownOfClaims, AskedIsKnown, ClientFollows, Nothing

\* A step of the nodes changes no node a claim was made on and unmakes no claim.
LEMMA ClaimStep ==
    ASSUME IInv, UNCHANGED <<asked, rows, listed, watchVars>>,
           claim' \in [Ids -> [node : Nodes \cup {NoNode}, ver : Versions,
                               state : {"unborn", "held", "over"}]],
           \A i \in Ids : claim[i].state # "unborn" =>
               claim'[i].state # "unborn" /\ claim'[i].node = claim[i].node
    PROVE  IInv'
<1>1. TypeOK'
  BY DEF IInv, TypeOK, asked, watchVars
<1>2. RowsOfClaims'
  <2>1. ASSUME NEW n \in Nodes, NEW i \in rows[n]
        PROVE  claim'[i.id].node = n /\ claim'[i.id].state # "unborn"
    <3>1. i.id \in Ids
      BY <2>1 DEF IInv, TypeOK, Items
    <3> QED
      BY <2>1, <3>1 DEF IInv, RowsOfClaims
  <2> QED
    BY <2>1 DEF IInv, RowsOfClaims, asked, watchVars
<1>3. KnownOfClaims'
  <2>1. ASSUME NEW k \in Names, known[k] # NoItem
        PROVE  claim'[known[k].id].state # "unborn"
    <3>1. known[k].id \in Ids
      BY <2>1 DEF IInv, TypeOK, Items
    <3> QED
      BY <2>1, <3>1 DEF IInv, KnownOfClaims
  <2> QED
    BY <2>1 DEF IInv, KnownOfClaims, asked, watchVars
<1>4. AskedIsKnown' /\ ClientFollows' /\ deleted' # "held"
  BY DEF IInv, AskedIsKnown, ClientFollows, asked, watchVars, Nothing, IsInjective
<1> QED
  BY <1>1, <1>2, <1>3, <1>4 DEF IInv

\* A node publishes the claims it holds, one row each.
LEMMA PublishStep ==
    ASSUME IInv, NEW n \in Nodes, Publish(n)
    PROVE  IInv'
<1> DEFINE new == {Row(id) : id \in {i \in Ids : Holds(n, i)}}
<1>1. \A i \in new : i \in Items /\ claim[i.id].node = n /\ claim[i.id].state # "unborn"
  BY DEF Row, Holds, Items, IInv, TypeOK
<1>2. \A i, j \in new : i.id = j.id => i = j
  BY DEF Row
<1>3. rows' = [rows EXCEPT ![n] = new] /\ listed' = listed \cup {n}
      /\ UNCHANGED <<asked, claim, watchVars>>
  BY DEF Publish
<1> HIDE DEF new
<1>4. TypeOK'
  BY <1>1, <1>3 DEF IInv, TypeOK, asked, watchVars
<1>5. RowsOfClaims'
  BY <1>1, <1>2, <1>3 DEF IInv, TypeOK, RowsOfClaims
<1>6. KnownOfClaims' /\ AskedIsKnown' /\ ClientFollows' /\ deleted' # "held"
  BY <1>3 DEF IInv, KnownOfClaims, AskedIsKnown, ClientFollows, asked, watchVars, Nothing,
     IsInjective
<1> QED
  BY <1>4, <1>5, <1>6 DEF IInv

LEMMA EnvironmentStep == IInv /\ Environment => IInv'
<1> SUFFICES ASSUME IInv, Environment PROVE IInv'
  OBVIOUS
<1>1. ASSUME NEW id \in Ids, ClaimOver(id) PROVE IInv'
  BY <1>1, ClaimStep DEF ClaimOver, IInv, TypeOK
<1>2. ASSUME NEW id \in Ids, NEW n \in Nodes, ClaimMade(id, n) PROVE IInv'
  BY <1>2, ClaimStep DEF ClaimMade, IInv, TypeOK
<1>3. ASSUME NEW id \in Ids, NEW v \in Versions, ClaimChanges(id, v) PROVE IInv'
  BY <1>3, ClaimStep DEF ClaimChanges, IInv, TypeOK
<1>4. ASSUME NEW n \in Nodes, Publish(n) PROVE IInv'
  BY <1>4, PublishStep
<1>5. ASSUME NEW n \in Nodes, Unlist(n) PROVE IInv'
  BY <1>5 DEF Unlist, IInv, TypeOK, RowsOfClaims, KnownOfClaims, AskedIsKnown, ClientFollows,
     asked, watchVars, Nothing, IsInjective
<1> QED
  BY <1>1, <1>2, <1>3, <1>4, <1>5 DEF Environment

-----------------------------------------------------------------------------
\* Whatever the opening list returns is of claims that were made.
LEMMA ListedItems ==
    ASSUME TypeOK, RowsOfClaims, NEW items \in listItems
    PROVE  \A i \in items : i \in Items /\ claim[i.id].state # "unborn"
<1>1. CASE Pinned = NoName
  BY <1>1, InventoryItems DEF listItems
<1>2. CASE Pinned # NoName
  BY <1>2, PinnedAnswers DEF listItems, Answer
<1> QED
  BY <1>1, <1>2

LEMMA OpenStep ==
    ASSUME IInv, NEW items \in listItems, open(items)
    PROVE  IInv'
<1>1. \A i \in items : i \in Items /\ i # NoItem /\ claim[i.id].state # "unborn"
  BY ListedItems, NoItemAssumption DEF IInv
<1>2. PICK sent \in [Names -> items \cup {NoItem}] :
         /\ \A k \in Names : LET S == {i \in items : NameOf[i.id] = k}
                             IN  IF S = {} THEN sent[k] = NoItem ELSE sent[k] \in S
         /\ known' = sent
         /\ view' = sent
  BY DEF open
<1>3. /\ last' = items /\ pc' = "rest" /\ UNCHANGED <<nodeVars, deleted>>
  BY DEF open
<1>4. \A k \in Names : /\ sent[k] # NoItem => sent[k] \in items /\ NameOf[sent[k].id] = k
                       /\ sent[k] = NoItem => \A i \in items : NameOf[i.id] # k
  BY <1>1, <1>2
<1>5. TypeOK'
  BY <1>1, <1>2, <1>3 DEF IInv, TypeOK, nodeVars, asked
<1>6. KnownOfClaims' /\ RowsOfClaims' /\ AskedIsKnown' /\ deleted' # "held"
  BY <1>1, <1>2, <1>3, <1>4 DEF IInv, KnownOfClaims, RowsOfClaims, AskedIsKnown, nodeVars, asked
<1>7. ClientFollows'
  <2>1. \A i \in items : NameOf[i.id] \in Names
    BY <1>1, ScenarioType DEF IInv, Items
  <2>2. {k \in Names : sent[k] # NoItem} = {NameOf[i.id] : i \in items}
    BY <1>1, <1>4, <2>1
  <2> QED
    BY <1>2, <1>3, <2>2 DEF ClientFollows, nodeVars, asked
<1> QED
  BY <1>5, <1>6, <1>7 DEF IInv

\* What one name of a tick leaves, whatever rows it reads.
LEMMA DiffFollows ==
    ASSUME IInv, NEW items, NEW k \in Names, NEW d \in diff(items, k),
           \A i \in items : i \in Items /\ claim[i.id].state # "unborn"
    PROVE  /\ d.item \in Items \cup {NoItem} /\ d.seen \in Items \cup {NoItem}
           /\ d.item # NoItem => /\ NameOf[d.item.id] = k
                                 /\ claim[d.item.id].state # "unborn"
           /\ d.item = NoItem <=> d.seen = NoItem
           /\ d.item = NoItem <=> \A i \in items : NameOf[i.id] # k
           /\ /\ view[k] = known[k]
              /\ \A i, j \in items : NameOf[i.id] = k /\ NameOf[j.id] = k => i = j
              => d.seen = d.item
<1> DEFINE S == {i \in items : NameOf[i.id] = k}
           sent == S \ {known[k]}
<1>1. view[k] \in Items \cup {NoItem} /\ (known[k] = NoItem <=> view[k] = NoItem)
  BY DEF IInv, TypeOK, ClientFollows
<1>2. CASE S = {}
  <2>1. d.item = NoItem /\ d.seen = NoItem
    BY <1>2 DEF diff
  <2> QED
    BY <1>2, <2>1
<1>3. CASE S # {}
  <2>1. /\ d.item \in S /\ d.seen \in S \cup {view[k]}
        /\ \/ d.item \in sent /\ d.seen = d.item
           \/ d.item \notin sent /\ d.seen \in sent
           \/ sent = {} /\ d.seen = view[k]
    BY <1>3 DEF diff
  <2>2. d.item # NoItem /\ d.item \in Items
    BY <2>1, NoItemAssumption
  <2>3. d.seen # NoItem
    BY <1>1, <2>1, NoItemAssumption
  <2>4. ASSUME view[k] = known[k],
               \A i, j \in items : NameOf[i.id] = k /\ NameOf[j.id] = k => i = j
        PROVE  d.seen = d.item
    BY <2>1, <2>4
  <2> QED
    BY <1>1, <2>1, <2>2, <2>3, <2>4
<1> QED
  BY <1>2, <1>3

\* The rows of a name that is claimed once are one row.
LEMMA OneRowPerName ==
    ASSUME IInv, IsInjective(NameOf),
           NEW i \in listInventories, NEW j \in listInventories, NameOf[i.id] = NameOf[j.id]
    PROVE  i = j
<1>1. i.id \in Ids /\ j.id \in Ids
  BY InventoryItems DEF IInv, Items
<1>2. i.id = j.id
  BY <1>1, ScenarioType DEF IInv, IsInjective
<1>3. \E n \in Nodes : i \in rows[n] /\ j \in rows[n]
  BY <1>2, InventoryItems DEF IInv
<1> QED
  BY <1>2, <1>3 DEF IInv, RowsOfClaims

LEMMA TickStep ==
    ASSUME IInv, tick
    PROVE  IInv'
<1> DEFINE items == listInventories
<1>1. \A i \in items : i \in Items /\ claim[i.id].state # "unborn"
  BY InventoryItems DEF IInv
<1>2. PICK d \in [Names -> UNION Range([k \in Names |-> diff(items, k)])] :
         /\ \A k \in Names : d[k] \in diff(items, k)
         /\ known' = [k \in Names |-> d[k].item]
         /\ view' = [k \in Names |-> d[k].seen]
  BY DEF tick
<1>3. /\ last' = items /\ Pinned = NoName /\ pc = "rest"
      /\ UNCHANGED <<nodeVars, pc, deleted>>
  BY DEF tick
<1> HIDE DEF items
<1>4. ASSUME NEW k \in Names
      PROVE  /\ d[k].item \in Items \cup {NoItem} /\ d[k].seen \in Items \cup {NoItem}
             /\ d[k].item # NoItem => /\ NameOf[d[k].item.id] = k
                                      /\ claim[d[k].item.id].state # "unborn"
             /\ d[k].item = NoItem <=> d[k].seen = NoItem
             /\ d[k].item = NoItem <=> \A i \in items : NameOf[i.id] # k
             /\ IsInjective(NameOf) => d[k].seen = d[k].item
  <2>1. ASSUME IsInjective(NameOf)
        PROVE  /\ view[k] = known[k]
               /\ \A i, j \in items : NameOf[i.id] = k /\ NameOf[j.id] = k => i = j
    BY <2>1, OneRowPerName DEF IInv, ClientFollows, items
  <2>2. d[k] \in diff(items, k)
    BY <1>2
  <2> QED
    BY <1>1, <2>1, <2>2, DiffFollows
<1>5. TypeOK'
  BY <1>1, <1>2, <1>3, <1>4 DEF IInv, TypeOK, nodeVars, asked
<1>6. KnownOfClaims' /\ RowsOfClaims' /\ AskedIsKnown' /\ deleted' # "held"
  BY <1>2, <1>3, <1>4 DEF IInv, KnownOfClaims, RowsOfClaims, AskedIsKnown, nodeVars, asked
<1>7. ClientFollows'
  <2>1. \A i \in items : NameOf[i.id] \in Names
    BY <1>1, ScenarioType DEF IInv, Items
  <2>2. {k \in Names : view'[k] # NoItem} = {NameOf[i.id] : i \in items}
    BY <1>2, <1>4, <2>1
  <2>3. IsInjective(NameOf) => view' = known'
    BY <1>2, <1>4
  <2>4. \A k \in Names : known'[k] = NoItem <=> view'[k] = NoItem
    BY <1>2, <1>4
  <2> QED
    BY <1>3, <2>2, <2>3, <2>4 DEF ClientFollows, nodeVars, asked, IsInjective
<1> QED
  BY <1>5, <1>6, <1>7 DEF IInv

LEMMA TickPinnedStep ==
    ASSUME IInv, tickPinned
    PROVE  IInv'
<1>1. PICK items \in pollPinned :
         /\ last' = items
         /\ \/ /\ items = {} /\ known[Pinned] # NoItem
               /\ pc' = "held"
               /\ UNCHANGED <<known, view>>
            \/ /\ \E d \in diff(items, Pinned) :
                     /\ known' = [known EXCEPT ![Pinned] = d.item]
                     /\ view' = [view EXCEPT ![Pinned] = d.seen]
               /\ UNCHANGED pc
  BY DEF tickPinned
<1>2. Pinned # NoName /\ pc = "rest" /\ UNCHANGED <<nodeVars, deleted>>
  BY DEF tickPinned
<1>3. Answer(items)
  BY PinnedAnswers DEF IInv
<1>4. Pinned \in Names
  BY <1>2, ScenarioType DEF IInv
<1>5. last' \in SUBSET Items /\ view = known
  BY <1>1, <1>2, <1>3 DEF Answer, IInv, ClientFollows
<1>6. CASE pc' = "held" /\ known[Pinned] # NoItem /\ UNCHANGED <<known, view>>
  BY <1>2, <1>5, <1>6
  DEF IInv, TypeOK, KnownOfClaims, RowsOfClaims, AskedIsKnown, ClientFollows, nodeVars, asked
<1>7. ASSUME NEW d \in diff(items, Pinned), UNCHANGED pc,
             known' = [known EXCEPT ![Pinned] = d.item],
             view' = [view EXCEPT ![Pinned] = d.seen]
      PROVE  IInv'
  <2>1. /\ d.item \in Items \cup {NoItem} /\ d.seen = d.item
        /\ d.item # NoItem => /\ NameOf[d.item.id] = Pinned
                              /\ claim[d.item.id].state # "unborn"
    <3>1. /\ \A i \in items : i \in Items /\ claim[i.id].state # "unborn"
          /\ \A i, j \in items : NameOf[i.id] = Pinned /\ NameOf[j.id] = Pinned => i = j
      BY <1>3 DEF Answer
    <3>2. view[Pinned] = known[Pinned]
      BY <1>5
    <3> QED
      BY <1>4, <1>7, <3>1, <3>2, DiffFollows
  <2>2. TypeOK'
    BY <1>2, <1>5, <1>7, <2>1 DEF IInv, TypeOK, nodeVars, asked
  <2>3. view' = known'
    BY <1>5, <1>7, <2>1
  <2>4. KnownOfClaims'
    BY <1>2, <1>7, <2>1 DEF IInv, TypeOK, KnownOfClaims, nodeVars, asked
  <2>5. RowsOfClaims' /\ AskedIsKnown' /\ ClientFollows' /\ deleted' # "held"
    BY <1>2, <1>7, <2>3 DEF IInv, RowsOfClaims, AskedIsKnown, ClientFollows, nodeVars, asked
  <2> QED
    BY <2>2, <2>4, <2>5 DEF IInv
<1> QED
  BY <1>1, <1>6, <1>7

LEMMA HeldByNodeStep ==
    ASSUME IInv, heldByNode
    PROVE  IInv'
<1>1. pc = "held" /\ pc' = "rest" /\ UNCHANGED <<nodeVars, last>>
  BY DEF heldByNode
<1>2. Pinned # NoName /\ Pinned \in Names /\ known[Pinned] # NoItem
  BY <1>1, ScenarioType DEF IInv, AskedIsKnown
<1>3. view = known
  BY <1>2 DEF IInv, ClientFollows
<1> DEFINE id == known[Pinned].id
<1>4. /\ id \in Ids /\ NameOf[id] = Pinned
      /\ claim[id].state \in {"held", "over"}
  BY <1>2 DEF IInv, TypeOK, KnownOfClaims, Items
<1>5. CASE UNCHANGED <<known, view, deleted>>
  BY <1>1, <1>2, <1>5
  DEF IInv, TypeOK, KnownOfClaims, RowsOfClaims, AskedIsKnown, ClientFollows, nodeVars, asked
<1>6. ASSUME NEW silent \in BOOLEAN, silent \/ ~LiveMatch,
             known' = [known EXCEPT ![Pinned] = NoItem],
             view' = [view EXCEPT ![Pinned] = NoItem],
             deleted' = IF claim[id].state = "over" \/ ~IsSelected(Row(id)) THEN "over"
                        ELSE IF silent \/ claim[id].node \notin listed THEN "silent"
                        ELSE "held"
      PROVE  IInv'
  <2>1. claim[id].node \in listed /\ claim[id].state = "held" /\ IsSelected(Row(id)) => LiveMatch
    BY <1>4 DEF LiveMatch, Holds
  <2>2. deleted' \in {"over", "silent"}
    BY <1>4, <1>6, <2>1
  <2>3. view' = known'
    BY <1>3, <1>6
  <2>4. TypeOK'
    BY <1>1, <1>6, <2>2 DEF IInv, TypeOK, nodeVars, asked
  <2>5. KnownOfClaims'
    BY <1>1, <1>6 DEF IInv, TypeOK, KnownOfClaims, nodeVars, asked
  <2>6. RowsOfClaims' /\ AskedIsKnown' /\ ClientFollows' /\ deleted' # "held"
    BY <1>1, <1>2, <2>2, <2>3 DEF IInv, RowsOfClaims, AskedIsKnown, ClientFollows, nodeVars, asked
  <2> QED
    BY <2>4, <2>5, <2>6 DEF IInv
<1> QED
  BY <1>5, <1>6 DEF heldByNode

LEMMA WatchInvariant == Spec => []IInv
<1>1. IInv /\ [Next]_vars => IInv'
  <2> SUFFICES ASSUME IInv, [Next]_vars PROVE IInv'
    OBVIOUS
  <2>1. CASE runWatch
    <3>1. CASE openFails
      BY <3>1 DEF openFails, IInv, TypeOK, KnownOfClaims, RowsOfClaims, AskedIsKnown,
         ClientFollows, nodeVars, asked
    <3> QED
      BY <2>1, <3>1, OpenStep, TickStep, TickPinnedStep, HeldByNodeStep DEF runWatch
  <2>2. CASE Stop
    BY <2>2 DEF Stop, IInv, TypeOK, KnownOfClaims, RowsOfClaims, AskedIsKnown,
       ClientFollows, nodeVars, asked
  <2>3. CASE Environment
    BY <2>3, EnvironmentStep
  <2>4. CASE UNCHANGED vars
    BY <2>4 DEF vars, IInv, TypeOK, KnownOfClaims, RowsOfClaims, AskedIsKnown,
       ClientFollows, asked, Nothing, IsInjective
  <2> QED
    BY <2>1, <2>2, <2>3, <2>4 DEF Next
<1> QED
  BY <1>1, InitIsGood, PTL DEF Spec

\* runWatch: whatever is published, changed and claimed again between the
\* ticks, the client of a watch holds what the next tick is diffed with.
THEOREM WatchLosesNothing == Spec => []ViewIsKnown
<1>1. IInv => ViewIsKnown
  BY DEF IInv, ClientFollows, ViewIsKnown
<1> QED
  BY <1>1, WatchInvariant, PTL

\* heldByNode: a pinned watch never reports a deletion that the node, asked and
\* answering, denies.
THEOREM WatchInventsNoDeletion == Spec => []DeletedOnlyIfNotHeld
<1>1. IInv => DeletedOnlyIfNotHeld
  BY DEF IInv, DeletedOnlyIfNotHeld
<1> QED
  BY <1>1, WatchInvariant, PTL

-----------------------------------------------------------------------------
(* A walk through the pages.                                               *)

\* The instance counts as everyone does.
LEMMA SameCounts ==
    ASSUME NEW S
    PROVE  /\ Pages!IsFiniteSet(S) <=> IsFiniteSet(S)
           /\ Pages!Cardinality(S) = Cardinality(S)
BY DEF Pages!IsFiniteSet, IsFiniteSet, Pages!Cardinality, Cardinality

\* The order of the keys is a strict total order, ascending and descending.
LEMMA CompareIsOrder ==
    ASSUME Pages!ConstantsOK, NEW desc \in BOOLEAN,
           NEW i \in Ids, NEW j \in Ids, NEW k \in Ids
    PROVE  /\ ~Pages!compare(i, i, desc)
           /\ Pages!compare(i, j, desc) => ~Pages!compare(j, i, desc)
           /\ Pages!compare(i, j, desc) /\ Pages!compare(j, k, desc) => Pages!compare(i, k, desc)
           /\ i = j \/ Pages!compare(i, j, desc) \/ Pages!compare(j, i, desc)
<1>1. /\ StartedAt[i] \in Nat /\ StartedAt[j] \in Nat /\ StartedAt[k] \in Nat
      /\ IdRank[i] \in Nat /\ IdRank[j] \in Nat /\ IdRank[k] \in Nat
      /\ IdRank[i] = IdRank[j] => i = j
  BY DEF Pages!ConstantsOK
<1>2. CASE desc
  BY <1>1, <1>2 DEF Pages!compare
<1>3. CASE ~desc
  BY <1>1, <1>3 DEF Pages!compare
<1> QED
  BY <1>2, <1>3

\* A page takes what is left from the front: nothing left comes before an item
\* of the page without being on it.
LEMMA CutIsPrefix ==
    ASSUME Pages!ConstantsOK, NEW desc \in BOOLEAN, NEW S \in SUBSET Ids,
           NEW after \in Ids \cup {NoId}, NEW limit \in Nat,
           NEW i \in Pages!cut(S, after, desc, limit), NEW j \in Pages!behind(S, after, desc),
           Pages!compare(j, i, desc)
    PROVE  j \in Pages!cut(S, after, desc, limit)
<1> DEFINE rest == Pages!behind(S, after, desc)
           before(x) == {k \in rest : Pages!compare(k, x, desc)}
<1>1. rest \subseteq Ids
  BY DEF Pages!behind
<1>2. i \in rest /\ Cardinality(before(i)) < limit
  BY SameCounts DEF Pages!cut
<1>3. before(j) \subseteq before(i)
  BY <1>1, <1>2, CompareIsOrder
<1>4. IsFiniteSet(before(i))
  BY <1>1, FS_Subset, SameCounts DEF Pages!ConstantsOK
<1>5. Cardinality(before(j)) <= Cardinality(before(i))
  BY <1>3, <1>4, FS_Subset
<1>6. Cardinality(before(i)) \in Nat /\ Cardinality(before(j)) \in Nat
  BY <1>3, <1>4, FS_Subset, FS_CardinalityType
<1>7. Cardinality(before(j)) < limit
  BY <1>2, <1>5, <1>6
<1> QED
  BY <1>7, SameCounts DEF Pages!cut

\* In the middle of a walk nothing served is behind the cursor, and what every
\* list held was served or is behind it.
Frontier ==
    walk.pc = "paging" =>
        /\ walk.after \in Ids
        /\ \A i \in walk.served : i = walk.after \/ Pages!compare(i, walk.after, walk.desc)
        /\ \A i \in walk.always : i \in walk.served \/ Pages!compare(walk.after, i, walk.desc)

PageInv ==
    /\ Pages!WalkIsExact
    /\ walk.pc = "idle" => walk = Pages!NoWalk
    /\ Frontier

\* One page keeps the invariant.
LEMMA PageKeepsInv ==
    ASSUME Pages!ConstantsOK, PageInv,
           NEW items \in SUBSET Ids, NEW desc \in BOOLEAN, NEW limit \in 1..MaxLimit,
           Pages!listSandboxesV2(items, desc, limit)
    PROVE  PageInv'
<1> DEFINE rest == Pages!behind(items, walk.after, desc)
           page == Pages!cut(items, walk.after, desc, limit)
<1>a. walk \in Pages!Walks /\ limit \in Nat
  BY DEF PageInv, Pages!WalkIsExact, Pages!ConstantsOK
<1>b. /\ walk.after \in Ids \cup {NoId} /\ walk.served \in SUBSET Ids
      /\ walk.always \in SUBSET Ids /\ walk.repeated = FALSE
  BY <1>a DEF Pages!Walks, PageInv, Pages!WalkIsExact
<1>c. page \subseteq rest /\ rest \subseteq items
  BY DEF Pages!cut, Pages!behind
\* What the page starts from, in an idle and in a paging walk.
<1>1. /\ \A i \in rest : i \notin walk.served
      /\ \A i \in walk.always \cap items : i \in walk.served \/ i \in rest
      /\ \A i \in walk.served, t \in rest : Pages!compare(i, t, desc)
  <2>1. CASE walk.pc = "idle"
    <3>1. walk.served = {} /\ rest = items
      BY <2>1 DEF PageInv, Pages!NoWalk, Pages!behind
    <3> QED
      BY <3>1
  <2>2. CASE walk.pc = "paging" /\ desc = walk.desc
    <3>1. /\ walk.after \in Ids /\ walk.after # NoId
          /\ \A i \in walk.served : i = walk.after \/ Pages!compare(i, walk.after, desc)
          /\ \A i \in walk.always : i \in walk.served \/ Pages!compare(walk.after, i, desc)
      BY <2>2 DEF PageInv, Frontier, Pages!ConstantsOK
    <3>2. rest = {i \in items : Pages!compare(walk.after, i, desc)}
      BY <3>1 DEF Pages!behind
    <3>3. \A i \in walk.served, t \in rest : Pages!compare(i, t, desc)
      BY <1>b, <3>1, <3>2, CompareIsOrder
    <3>4. \A i \in rest : i \notin walk.served
      BY <1>b, <1>c, <3>3, CompareIsOrder
    <3> QED
      BY <3>1, <3>2, <3>3, <3>4
  <2> QED
    BY <2>1, <2>2 DEF Pages!listSandboxesV2
<1>2. PICK token \in Pages!nextToken(items, walk.after, desc, limit) :
         walk' = [pc |-> IF token = NoId THEN "done" ELSE "paging",
                  desc |-> desc,
                  after |-> token,
                  served |-> walk.served \cup page,
                  repeated |-> walk.repeated \/ (page \cap walk.served # {}),
                  always |-> walk.always \cap items]
  BY DEF Pages!listSandboxesV2
<1>3. page \cap walk.served = {}
  BY <1>1, <1>c
<1>4. CASE rest = page
  <2>1. token = NoId
    BY <1>2, <1>4 DEF Pages!nextToken
  <2>2. walk' = [pc |-> "done", desc |-> desc, after |-> NoId,
                 served |-> walk.served \cup page, repeated |-> FALSE,
                 always |-> walk.always \cap items]
    BY <1>2, <1>3, <1>b, <2>1
  <2>3. walk.always \cap items \subseteq walk.served \cup page
    BY <1>1, <1>4
  <2>4. walk' \in Pages!Walks
    BY <1>b, <1>c, <2>2 DEF Pages!Walks
  <2> QED
    BY <2>2, <2>3, <2>4 DEF PageInv, Pages!WalkIsExact, Frontier
<1>5. CASE rest # page
  <2>1. token \in page /\ \A j \in page \ {token} : Pages!compare(j, token, desc)
    BY <1>2, <1>5 DEF Pages!nextToken
  <2>2. token \in Ids /\ token # NoId
    BY <1>c, <2>1 DEF Pages!ConstantsOK
  <2>3. walk' = [pc |-> "paging", desc |-> desc, after |-> token,
                 served |-> walk.served \cup page, repeated |-> FALSE,
                 always |-> walk.always \cap items]
    BY <1>2, <1>3, <1>b, <2>2
  <2>4. walk' \in Pages!Walks
    BY <1>b, <1>c, <2>2, <2>3 DEF Pages!Walks
  <2>5. \A i \in walk.served \cup page : i = token \/ Pages!compare(i, token, desc)
    BY <1>1, <1>c, <2>1
  <2>6. ASSUME NEW i \in walk.always \cap items
        PROVE  i \in walk.served \cup page \/ Pages!compare(token, i, desc)
    <3>1. CASE i \in walk.served \cup page
      BY <3>1
    <3>2. CASE i \notin walk.served \cup page
      <4>1. i \in rest /\ i # token
        BY <1>1, <2>1, <3>2
      <4>2. ~Pages!compare(i, token, desc)
        BY <1>a, <1>b, <2>1, <3>2, <4>1, CutIsPrefix
      <4> QED
        BY <2>2, <4>1, <4>2, CompareIsOrder
    <3> QED
      BY <3>1, <3>2
  <2> QED
    BY <2>2, <2>3, <2>4, <2>5, <2>6 DEF PageInv, Pages!WalkIsExact, Frontier
<1> QED
  BY <1>4, <1>5

\* However the list changes between the pages of one walk (listSandboxesV2), no
\* sandbox is served twice and none that stayed in it is missing at the end.
THEOREM PagedWalkIsExact ==
    ASSUME Pages!ConstantsOK
    PROVE  Pages!Spec => []Pages!WalkIsExact
<1>1. walk = Pages!NoWalk => PageInv
  BY DEF Pages!NoWalk, PageInv, Pages!WalkIsExact, Frontier, Pages!Walks
<1>2. PageInv /\ [Pages!Next]_walk => PageInv'
  <2> SUFFICES ASSUME PageInv, [Pages!Next]_walk PROVE PageInv'
    OBVIOUS
  <2>1. ASSUME NEW items \in SUBSET Ids, NEW desc \in BOOLEAN, NEW limit \in 1..MaxLimit,
               Pages!listSandboxesV2(items, desc, limit)
        PROVE  PageInv'
    BY <2>1, PageKeepsInv
  <2>2. CASE Pages!endWalk
    BY <2>2 DEF Pages!endWalk, Pages!NoWalk, PageInv, Pages!WalkIsExact, Frontier, Pages!Walks
  <2>3. CASE UNCHANGED walk
    BY <2>3 DEF PageInv, Pages!WalkIsExact, Frontier, Pages!compare
  <2> QED
    BY <2>1, <2>2, <2>3 DEF Pages!Next
<1>3. PageInv => Pages!WalkIsExact
  BY DEF PageInv
<1> QED
  BY <1>1, <1>2, <1>3, PTL DEF Pages!Spec

-----------------------------------------------------------------------------
(* The pages of the e2b list.                                              *)

\* A client that reads pages beside the watch does not disturb it, so what is
\* proved of the watch holds of the composition.
THEOREM ListImplementsWatch == ListSpec => Spec
<1>1. [ListNext]_listVars => [Next]_vars
  BY DEF ListNext, getPage, endWalk, listVars
<1> QED
  BY <1>1, PTL DEF ListSpec, ListInit, Spec

\* listSandboxesV2 (src/pkg/e2bcompat/server.go): a client that pages through
\* the published rows takes the steps of PagedList.
THEOREM ListImplementsPagedList == ListSpec => Pages!Spec
<1>1. ListInit => walk = Pages!NoWalk
  BY DEF ListInit
<1>2. TypeOK => listed_ \in SUBSET Ids
  BY DEF TypeOK, Items, listed_
<1>3. TypeOK /\ [ListNext]_listVars => [Pages!Next]_walk
  BY <1>2 DEF ListNext, getPage, endWalk, listVars, Pages!Next
<1>4. IInv => TypeOK
  BY DEF IInv
<1> QED
  BY <1>1, <1>3, <1>4, ListImplementsWatch, WatchInvariant, PTL DEF ListSpec, Pages!Spec

\* docs/e2b-compat.md:149: no sandbox is served twice by the pages of one walk,
\* and none that stayed listed throughout it is missing at its end.
THEOREM ListWalkIsExact == ListSpec => []WalkIsExact
BY PagesAssumption, PagedWalkIsExact, ListImplementsPagedList, PTL DEF WalkIsExact
=============================================================================
