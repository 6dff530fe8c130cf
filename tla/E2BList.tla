------------------------------- MODULE E2BList -------------------------------
(***************************************************************************)
(* The e2b list on top of the store's: listed (src/pkg/e2bcompat/server.go) *)
(* reads store.List, the published rows of the listed nodes, keeps what    *)
(* its filters match (here: the states asked for), and a page is cut from  *)
(* that.  A client walks the pages of the list before it opens its watch;  *)
(* claims are made, change, end and are published meanwhile.               *)
(***************************************************************************)
EXTENDS Watch

CONSTANTS
    NoId,      \* no cursor
    StartedAt, \* the second each claim was made in
    IdRank,    \* the place of each id in the order of strings
    MaxLimit   \* bound: the largest limit

VARIABLE walk  \* the client's walk through the pages

listVars == <<vars, walk>>

\* keeps: the filters of the list; here the state they ask for.
keeps(row) == row.ver \in Selected

\* listed: the ids of the published rows the filters keep.
listed_ == {row.id : row \in {i \in UNION {rows[n] : n \in listed} : keeps(i)}}

Pages == INSTANCE PagedList

ASSUME PagesAssumption == Pages!ConstantsOK

ListInit == Init /\ walk = Pages!NoWalk

\* One page, of a client that does not watch yet.
getPage(desc, limit) ==
    /\ pc = "open" /\ Pinned = NoName
    /\ Pages!listSandboxesV2(listed_, desc, limit)
    /\ UNCHANGED vars

\* The client has read its list, or gives up: nothing of the walk is kept.
endWalk ==
    /\ Pages!endWalk
    /\ UNCHANGED vars

ListNext ==
    \/ Next /\ (pc = "open" /\ pc' # "open" => walk = Pages!NoWalk) /\ UNCHANGED walk
    \/ \E desc \in BOOLEAN, limit \in 1..MaxLimit : getPage(desc, limit)
    \/ endWalk

ListSpec == ListInit /\ [][ListNext]_listVars /\ WF_vars(runWatch /\ UNCHANGED walk)

-----------------------------------------------------------------------------
\* docs/e2b-compat.md:149: "a sandbox created or released between pages neither
\* repeats nor skips the rest".  No sandbox is served twice in one walk, and
\* one that every list read held has been served when the walk is over.
WalkIsExact == Pages!WalkIsExact
=============================================================================
