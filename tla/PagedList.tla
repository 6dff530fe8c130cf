------------------------------ MODULE PagedList ------------------------------
(***************************************************************************)
(* GET /v2/sandboxes (listSandboxesV2, listPage and its methods in         *)
(* src/pkg/e2bcompat/server.go): a client walks the list a page at a time. *)
(* Each page is cut from the list as it is at that moment: the first limit *)
(* items, in the order asked for, behind the last one already served,      *)
(* whose key the cursor carries.  The items in the list come and go        *)
(* between the pages.                                                      *)
(*                                                                         *)
(* An item is its id; its key is the second it was started in and its id.  *)
(* The server keeps nothing between two pages.                             *)
(***************************************************************************)
EXTENDS Integers, FiniteSets

CONSTANTS
    Ids,       \* sandbox ids
    NoId,      \* no cursor
    StartedAt, \* the second each sandbox was started in
    IdRank,    \* the place of each id in the order of strings
    MaxLimit   \* the largest limit

\* Ids are told apart by their place in the order of strings.
ConstantsOK ==
    /\ NoId \notin Ids
    /\ IsFiniteSet(Ids)
    /\ StartedAt \in [Ids -> Nat]
    /\ IdRank \in [Ids -> Nat] /\ \A i, j \in Ids : IdRank[i] = IdRank[j] => i = j
    /\ MaxLimit \in Nat \ {0}

VARIABLE walk  \* the client: where it is and what it was served

\* A walk: its order, the item its cursor names, and, for the properties, what
\* it was served, whether any item twice, and what every list it read held.
Walks == [pc : {"idle", "paging", "done"}, desc : BOOLEAN, after : Ids \cup {NoId},
          served : SUBSET Ids, repeated : BOOLEAN, always : SUBSET Ids]

NoWalk == [pc |-> "idle", desc |-> FALSE, after |-> NoId,
           served |-> {}, repeated |-> FALSE, always |-> Ids]

-----------------------------------------------------------------------------
\* compare: i comes before j.
compare(i, j, desc) ==
    LET less(a, b) == \/ StartedAt[a] < StartedAt[b]
                      \/ StartedAt[a] = StartedAt[b] /\ IdRank[a] < IdRank[b]
    IN  IF desc THEN less(j, i) ELSE less(i, j)

\* Mutated form of behind: a cursor that carries the second alone.
behindTime(S, after, desc) ==
    IF after = NoId THEN S
    ELSE {i \in S : IF desc THEN StartedAt[i] < StartedAt[after]
                    ELSE StartedAt[after] < StartedAt[i]}

\* What the cursor leaves.
behind(S, after, desc) == IF after = NoId THEN S ELSE {i \in S : compare(after, i, desc)}

\* cut: the first limit of those.
cut(S, after, desc, limit) ==
    LET rest == behind(S, after, desc)
    IN  {i \in rest : Cardinality({j \in rest : compare(j, i, desc)}) < limit}

\* The item the next cursor names: the last one served, when something is left.
nextToken(S, after, desc, limit) ==
    LET page == cut(S, after, desc, limit)
    IN  IF behind(S, after, desc) = page THEN {NoId}
        ELSE {i \in page : \A j \in page \ {i} : compare(j, i, desc)}

\* One page of the items is read; the walk is over with the first page without a cursor.
listSandboxesV2(items, desc, limit) ==
    /\ \/ walk.pc = "idle"
       \/ walk.pc = "paging" /\ desc = walk.desc
    /\ \E token \in nextToken(items, walk.after, desc, limit) :
         LET page == cut(items, walk.after, desc, limit)
         IN  walk' = [pc |-> IF token = NoId THEN "done" ELSE "paging",
                      desc |-> desc,
                      after |-> token,
                      served |-> walk.served \cup page,
                      repeated |-> walk.repeated \/ (page \cap walk.served # {}),
                      always |-> walk.always \cap items]

\* The client is done with its list, or gives up.
endWalk ==
    /\ walk.pc # "idle"
    /\ walk' = NoWalk

\* Between two pages the list may become any list.
Next ==
    \/ \E items \in SUBSET Ids, desc \in BOOLEAN, limit \in 1..MaxLimit :
          listSandboxesV2(items, desc, limit)
    \/ endWalk

Spec == walk = NoWalk /\ [][Next]_walk

-----------------------------------------------------------------------------
\* docs/e2b-compat.md:149: "a sandbox created or released between pages neither
\* repeats nor skips the rest".  No sandbox is served twice in one walk, and
\* one that every list read held has been served when the walk is over.
WalkIsExact ==
    /\ walk \in Walks
    /\ ~walk.repeated
    /\ walk.pc = "done" => walk.always \subseteq walk.served
=============================================================================
