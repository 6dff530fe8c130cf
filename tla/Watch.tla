-------------------------------- MODULE Watch --------------------------------
(***************************************************************************)
(* Watch (runWatch in src/pkg/scale/sandboxstore_impl.go): the current     *)
(* view as Added events, then, on every tick, the view derived again from  *)
(* the nodes' published inventories and diffed with the one before.  A     *)
(* watch pinned to one name opens like a Get, polls only the node of the   *)
(* entry it holds, and asks that node before it reports the entry deleted. *)
(*                                                                         *)
(* The nodes are external: they hold claims, whose state (the version)     *)
(* changes, and publish them late.  A name is claimed again only once its  *)
(* earlier claim is over.  The client is modelled by what it makes of the  *)
(* events: Added and Modified put an object, Deleted removes it.           *)
(***************************************************************************)
EXTENDS Integers, FiniteSets, Functions

CONSTANTS
    Ids,       \* claim ids
    Names,     \* namespace/name of a Sandbox
    Nodes,     \* nodes running sandboxd
    NoNode,    \* no node
    Versions,  \* the states of a claim a resource version tells apart
    Selected,  \* the versions the watch's selectors match
    Scenarios, \* what each claim is named and what the watch is pinned to
    NoName,    \* no name: the watch covers the fleet
    NoItem     \* no object

ASSUME SelectedAssumption == Selected \subseteq Versions /\ Versions # {}
ASSUME NoNameAssumption == NoName \notin Names
ASSUME ScenariosAssumption ==
    Scenarios \subseteq [name : [Ids -> Names], pin : Names \cup {NoName}]

Items == [id : Ids, ver : Versions]

ASSUME NoItemAssumption == NoItem \notin Items

VARIABLES
    NameOf,   \* the name each claim is made under
    Pinned,   \* the name the watch is pinned to, or NoName
    claim,    \* each claim: its node, version and whether it is held
    rows,     \* the items each node last published
    listed,   \* the nodes whose inventory the source holds
    pc,       \* the watch: "open", "rest", "held" or "stopped"
    known,    \* the view the next tick is diffed with
    view,     \* what the client holds after the events it was sent
    last,     \* history: the items the last list or poll returned
    deleted   \* history: a pinned entry was reported deleted while held

asked == <<NameOf, Pinned>>
nodeVars == <<asked, claim, rows, listed>>
watchVars == <<pc, known, view, last, deleted>>
vars == <<asked, claim, rows, listed, pc, known, view, last, deleted>>

TypeOK ==
    /\ [name |-> NameOf, pin |-> Pinned] \in Scenarios
    /\ claim \in [Ids -> [node : Nodes \cup {NoNode}, ver : Versions,
                          state : {"unborn", "held", "over"}]]
    /\ rows \in [Nodes -> SUBSET Items]
    /\ listed \in SUBSET Nodes
    /\ pc \in {"open", "rest", "held", "stopped"}
    /\ known \in [Names -> Items \cup {NoItem}]
    /\ view \in [Names -> Items \cup {NoItem}]
    /\ last \in SUBSET Items
    /\ deleted \in {"never", "over", "silent", "held"}

Nothing == [k \in Names |-> NoItem]

Init ==
    /\ \E s \in Scenarios : NameOf = s.name /\ Pinned = s.pin
    /\ claim = [id \in Ids |-> [node |-> NoNode, ver |-> CHOOSE v \in Versions : TRUE,
                                state |-> "unborn"]]
    /\ rows = [n \in Nodes |-> {}]
    /\ listed = Nodes
    /\ pc = "open"
    /\ known = Nothing
    /\ view = Nothing
    /\ last = {}
    /\ deleted = "never"

-----------------------------------------------------------------------------
(* The nodes.                                                              *)

Holds(n, id) == claim[id].state = "held" /\ claim[id].node = n
Row(id) == [id |-> id, ver |-> claim[id].ver]

ClaimMade(id, n) ==
    /\ claim[id].state = "unborn"
    /\ \A j \in Ids : claim[j].state = "held" => NameOf[j] # NameOf[id]
    /\ claim' = [claim EXCEPT ![id].state = "held", ![id].node = n]
    /\ UNCHANGED <<asked, rows, listed, watchVars>>

ClaimChanges(id, v) ==
    /\ claim[id].state = "held"
    /\ v # claim[id].ver
    /\ claim' = [claim EXCEPT ![id].ver = v]
    /\ UNCHANGED <<asked, rows, listed, watchVars>>

ClaimOver(id) ==
    /\ claim[id].state = "held"
    /\ claim' = [claim EXCEPT ![id].state = "over"]
    /\ UNCHANGED <<asked, rows, listed, watchVars>>

Publish(n) ==
    /\ rows' = [rows EXCEPT ![n] = {Row(id) : id \in {i \in Ids : Holds(n, i)}}]
    /\ listed' = listed \cup {n}
    /\ UNCHANGED <<asked, claim, watchVars>>

Unlist(n) ==
    /\ n \in listed
    /\ listed' = listed \ {n}
    /\ UNCHANGED <<asked, claim, rows, watchVars>>

-----------------------------------------------------------------------------
\* Mutated forms of the definitions below.

\* The tick reports a name once, as Added, and never again.
diffAddsOnly(items, k) ==
    LET S == {i \in items : NameOf[i.id] = k}
    IN  IF S = {} THEN {[item |-> NoItem, seen |-> NoItem]}
        ELSE {[item |-> i, seen |-> IF known[k] = NoItem THEN i ELSE view[k]] : i \in S}

\* A pinned watch reports its entry deleted without asking the node.
heldByNodeNotAsked ==
    /\ pc = "held"
    /\ view' = [view EXCEPT ![Pinned] = NoItem]
    /\ known' = [known EXCEPT ![Pinned] = NoItem]
    /\ pc' = "rest"
    /\ deleted' = IF claim[known[Pinned].id].state = "held" THEN "held" ELSE deleted
    /\ UNCHANGED <<nodeVars, last>>

\* A pinned watch keeps its entry whatever the node answers.
heldByNodeAlways ==
    /\ pc = "held"
    /\ pc' = "rest"
    /\ UNCHANGED <<nodeVars, known, view, last, deleted>>

-----------------------------------------------------------------------------
(* What the watch reads.                                                   *)

IsSelected(item) == item.ver \in Selected

\* materialize: the selected rows of the listed nodes.
listInventories == {i \in UNION {rows[n] : n \in listed} : IsSelected(i)}

Matching(items) == {i \in items : NameOf[i.id] = Pinned}

\* One item of a set, or none when the set is empty: what a lookup of one name
\* returns.
OneOf(items) == IF items = {} THEN {{}} ELSE {{i} : i \in items}

\* lookupName: the row of a listed node, published or its own; a silent node
\* is a miss when no row is published either.
lookupName ==
    LET published == Matching(UNION {rows[n] : n \in listed})
        live == Matching({Row(id) : id \in {i \in Ids : \E n \in listed : Holds(n, i)}})
    IN  OneOf(published \cup live) \cup IF published = {} THEN {{}} ELSE {}

\* pollPinned without an entry: any node's selected row.
sweepPinned == OneOf({i \in Matching(listInventories) : IsSelected(i)})

\* pollPinned: the node of the entry, or every node when there is none.
pollPinned ==
    IF known[Pinned] = NoItem THEN sweepPinned
    ELSE LET n == claim[known[Pinned].id].node
             mine == IF n \in listed THEN Matching(rows[n]) ELSE {}
         IN  {{i \in s : IsSelected(i)} : s \in OneOf(mine)}

\* listPinned: the opening list; a hit the selectors reject is looked for
\* among the published rows.
listPinned ==
    UNION {IF s = {} THEN {{}}
           ELSE IF \A i \in s : IsSelected(i) THEN {s} ELSE sweepPinned
           : s \in lookupName}

\* listItems: what the opening list may return.
listItems == IF Pinned = NoName THEN {listInventories} ELSE listPinned

-----------------------------------------------------------------------------
(* The watch.                                                              *)

\* The opening list, each item sent as Added; of two rows under one name the
\* last one sent is known, and is what the client holds.
open(items) ==
    /\ pc = "open"
    /\ \E sent \in [Names -> items \cup {NoItem}] :
          /\ \A k \in Names :
                LET S == {i \in items : NameOf[i.id] = k}
                IN  IF S = {} THEN sent[k] = NoItem ELSE sent[k] \in S
          /\ known' = sent
          /\ view' = sent
    /\ last' = items
    /\ pc' = "rest"
    /\ UNCHANGED <<nodeVars, deleted>>

\* The opening list failed: the watch goes on with an empty view.
openFails ==
    /\ pc = "open"
    /\ pc' = "rest"
    /\ UNCHANGED <<nodeVars, known, view, last, deleted>>

\* One name of a tick: the item known afterwards and what the client then has
\* seen last.  Rows are taken in an unspecified order; each one that differs
\* from the item known before the tick is sent, and the last one is known.
diff(items, k) ==
    LET S == {i \in items : NameOf[i.id] = k}
        sent == S \ {known[k]}
    IN  IF S = {} THEN {[item |-> NoItem, seen |-> NoItem]}
        ELSE {d \in [item : S, seen : S \cup {view[k]}] :
                 \/ d.item \in sent /\ d.seen = d.item
                 \/ d.item \notin sent /\ d.seen \in sent
                 \/ sent = {} /\ d.seen = view[k]}

\* A tick of a fleet watch.
tick ==
    /\ pc = "rest"
    /\ Pinned = NoName
    /\ LET outcomes == [k \in Names |-> diff(listInventories, k)]
       IN  \E d \in [Names -> UNION Range(outcomes)] :
              /\ \A k \in Names : d[k] \in outcomes[k]
              /\ known' = [k \in Names |-> d[k].item]
              /\ view' = [k \in Names |-> d[k].seen]
    /\ last' = listInventories
    /\ UNCHANGED <<nodeVars, pc, deleted>>

\* A tick of a pinned watch.  An entry its node's rows no longer hold is not
\* reported before the node is asked.
tickPinned ==
    /\ pc = "rest"
    /\ Pinned # NoName
    /\ \E items \in pollPinned :
          /\ last' = items
          /\ \/ /\ items = {} /\ known[Pinned] # NoItem
                /\ pc' = "held"
                /\ UNCHANGED <<known, view>>
             \/ /\ items # {} \/ known[Pinned] = NoItem
                /\ \E d \in diff(items, Pinned) :
                      /\ known' = [known EXCEPT ![Pinned] = d.item]
                      /\ view' = [view EXCEPT ![Pinned] = d.seen]
                /\ UNCHANGED pc
    /\ UNCHANGED <<nodeVars, deleted>>

\* Whether the node of the entry holds a claim of its name the selectors match.
LiveMatch ==
    \E id \in Ids : /\ claim[known[Pinned].id].node \in listed
                    /\ Holds(claim[known[Pinned].id].node, id)
                    /\ NameOf[id] = Pinned
                    /\ IsSelected(Row(id))

\* heldByNode: the node is asked; one that does not answer in time, or has no
\* listed address, does not hold the entry.
heldByNode ==
    /\ pc = "held"
    /\ pc' = "rest"
    /\ \/ /\ LiveMatch
          /\ UNCHANGED <<known, view, deleted>>
       \/ \E silent \in BOOLEAN :
            /\ silent \/ ~LiveMatch
            /\ known' = [known EXCEPT ![Pinned] = NoItem]
            /\ view' = [view EXCEPT ![Pinned] = NoItem]
            /\ LET id == known[Pinned].id
               IN  deleted' = IF claim[id].state = "over" \/ ~IsSelected(Row(id)) THEN "over"
                              ELSE IF silent \/ claim[id].node \notin listed THEN "silent"
                              ELSE "held"
    /\ UNCHANGED <<nodeVars, last>>

\* The caller stops the watch or its context ends.
Stop ==
    /\ pc \in {"rest", "held"}
    /\ pc' = "stopped"
    /\ UNCHANGED <<nodeVars, known, view, last, deleted>>

runWatch ==
    \/ \E items \in listItems : open(items)
    \/ openFails \/ tick \/ tickPinned \/ heldByNode

Environment ==
    \/ \E id \in Ids : \/ ClaimOver(id)
                       \/ \E n \in Nodes : ClaimMade(id, n)
                       \/ \E v \in Versions : ClaimChanges(id, v)
    \/ \E n \in Nodes : Publish(n) \/ Unlist(n)

Next == runWatch \/ Stop \/ Environment

Spec == Init /\ [][Next]_vars

\* The ticker ticks on; the cached inventories always answer.
FairSpec == Spec /\ WF_vars(runWatch)

-----------------------------------------------------------------------------
\* Between two ticks the client holds exactly what the next tick is diffed with:
\* no change is lost between the poll, the diff and the events, whatever was
\* published meanwhile.  A fleet watch promises it of names claimed once: two
\* inventories that both hold a name are taken in no fixed order.  Of any other
\* name it promises that the client never gets stuck with it or without it:
\* names appear in its view and leave it exactly as the polls return them.
ViewIsKnown ==
    /\ pc \in {"rest", "held"} /\ (Pinned = NoName => IsInjective(NameOf)) => view = known
    /\ pc = "rest" /\ Pinned = NoName =>
          {k \in Names : view[k] # NoItem} = {NameOf[i.id] : i \in last}

\* A pinned watch does not report its entry deleted while the node, asked and
\* answering, holds it.
DeletedOnlyIfNotHeld == TypeOK /\ deleted # "held"

Absent(k) ==
    /\ \A id \in Ids : NameOf[id] = k => claim[id].state # "held"
    /\ \A n \in listed : \A i \in rows[n] : NameOf[i.id] # k

\* A name that is over and that no inventory holds any more leaves the
\* client's view, so a caller waiting for the deletion is released.
GoneIsReported ==
    \A k \in Names : <>[](Absent(k) /\ pc # "stopped") => <>[](view[k] = NoItem)
=============================================================================
