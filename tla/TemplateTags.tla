---------------------------- MODULE TemplateTags ----------------------------
(***************************************************************************)
(* Tags and deletion of one built template (src/pkg/e2bcompat/templates.go) *)
(* while builds of it are published (publishBuild in builds.go).  A tag is *)
(* a label on the template's record at every node that holds it; a request *)
(* finds the holders in the published inventory, reads the labels from the *)
(* newest holder itself, and writes the whole map to every holder, each    *)
(* write good only for the build the inventory showed.  Deleting what is   *)
(* not a built template deletes a snapshot (Snapshots.tla).                *)
(*                                                                         *)
(* The nodes are external: a promote replaces a node's record, labels      *)
(* included; a label map or a delete carrying a digest is refused (412)    *)
(* when the record is another build's, and labels for no record are        *)
(* refused (404).  A build stands for its digest and its creation time:    *)
(* one build at a time is being published here, and concurrent publishes,  *)
(* with times that tie, are BuildExecutor's.  The template has one key.    *)
(***************************************************************************)
EXTENDS Snapshots

CONSTANTS
    Tags,      \* tag names
    MaxBuilds  \* bound: builds promoted, the first included

ASSUME MaxBuildsAssumption == MaxBuilds \in Nat \ {0}

VARIABLES
    rec,       \* each node's record of the template
    pub,       \* the record each node last published, if the inventory lists it
    latest,    \* the newest build promoted
    pubrun,    \* the publish of the latest build
    t,         \* the template requests
    acked      \* history: tags acknowledged on the latest build, see TagsKept

templateVars == <<rec, pub, latest, pubrun, t, acked>>
vars == <<snapVars, templateVars>>

Builds == 1..MaxBuilds
NoRecord == [build |-> 0, labels |-> <<>>]
Unlisted == [build |-> -1, labels |-> <<>>]

\* Label maps: from tags to the builds they point at.
Labels == UNION {[T -> Builds] : T \in SUBSET Tags}
Record == [build : Builds, labels : Labels] \cup {NoRecord}

\* A request: its listing of holders, the newest of them, the map it will
\* write, the holders it has still to call (of a finished delete: those it
\* called), and whether all went well so far;
\* and, for the properties, the newest build when it began, whether another
\* write of the same build's tags or a delete overlapped it, the tags a read has
\* to answer and the ones it did not.
NoRequest == [pc |-> "idle", op |-> "none", tag |-> "none", view |-> <<>>, cur |-> "none",
              tags |-> <<>>, todo |-> {}, ok |-> TRUE,
              since |-> 0, raced |-> FALSE, owed |-> {}, missed |-> {}]
Views == UNION {[H -> Builds] : H \in SUBSET Nodes}
Request ==
    [pc : {"idle", "read", "write", "delete", "answered", "refused"},
     op : {"none", "assign", "untag", "get", "delete"}, tag : Tags \cup {"none"},
     view : Views, cur : Nodes \cup {"none"}, tags : Labels, todo : SUBSET Nodes, ok : BOOLEAN,
     since : 0..MaxBuilds, raced : BOOLEAN, owed : SUBSET Tags, missed : SUBSET Tags]

TypeOK ==
    /\ SnapTypeOK
    /\ rec \in [Nodes -> Record]
    /\ pub \in [Nodes -> Record \cup {Unlisted}]
    /\ latest \in Builds
    /\ pubrun \in [pc : {"none", "list", "delete", "label"}, node : Nodes \cup {"none"},
                   todo : SUBSET (Nodes \X Builds)]
    /\ t \in [Reqs -> Request]
    /\ acked \subseteq Tags

\* The first build is on any of the nodes, untagged and published.
Init ==
    /\ SnapInit
    /\ latest = 1
    /\ \E H \in (SUBSET Nodes) \ {{}} :
          rec = [n \in Nodes |-> IF n \in H THEN [build |-> 1, labels |-> <<>>] ELSE NoRecord]
    /\ pub = rec
    /\ pubrun = [pc |-> "none", node |-> "none", todo |-> {}]
    /\ t = [r \in Reqs |-> NoRequest]
    /\ acked = {}

-----------------------------------------------------------------------------
(* What a request sees.                                                    *)

Only(f, S) == [x \in S |-> f[x]]
Pointing(labels, tag, d) ==
    [x \in DOMAIN labels \cup {tag} |-> IF x = tag THEN d ELSE labels[x]]

\* builtTemplates: the holders the inventory lists, each with its build.
builtTemplates == [n \in {n \in Nodes : pub[n].build \in Builds} |-> pub[n].build]

\* The builds the inventory shows.
Found == {builtTemplates[n] : n \in DOMAIN builtTemplates}

\* ListNodes.
listed == {n \in Nodes : pub[n] # Unlisted}

\* current: a newest holder.
newest(view) == {n \in DOMAIN view : \A m \in DOMAIN view : view[m] <= view[n]}

\* liveOnly: the tags that point at a build some holder reports.
liveOnly(view, labels) ==
    Only(labels, {x \in DOMAIN labels : \E n \in DOMAIN view : view[n] = labels[x]})

\* Mutated form of liveTags: the tags as published.
liveTagsPublished(r) == liveOnly(t[r].view, pub[t[r].cur].labels)

\* liveTags: read from the newest holder itself; a record gone has none.
liveTags(r) == liveOnly(t[r].view, rec[t[r].cur].labels)

-----------------------------------------------------------------------------
(* The requests.                                                           *)

Unstarted(r) == t[r].pc = "idle" /\ q[r].pc = "idle"
Refuse(r) == t' = [t EXCEPT ![r] = [NoRequest EXCEPT !.pc = "refused"]]

\* The writes and deletes under way that found holders of one of these builds.
Writing(builds) ==
    {o \in Reqs : /\ t[o].pc \in {"read", "write", "delete"} /\ t[o].op # "get"
                  /\ \E n \in DOMAIN t[o].view : t[o].view[n] \in builds}

MarkRaced(f, S) == [r \in Reqs |-> IF r \in S THEN [f[r] EXCEPT !.raced = TRUE] ELSE f[r]]

\* builtTemplate: a malformed request, a name that is no built template, or a
\* failed listing is refused; otherwise the request goes on with its view.
Begin(r, op, tag) ==
    /\ Unstarted(r)
    /\ \/ /\ builtTemplates # <<>>
          /\ \E n \in newest(builtTemplates) :
               LET others == IF op = "get" THEN {} ELSE Writing(Found)
               IN  t' = [MarkRaced(t, others) EXCEPT ![r] =
                           [NoRequest EXCEPT !.pc = "read", !.op = op, !.tag = tag,
                               !.view = builtTemplates, !.cur = n, !.raced = others # {},
                               !.owed = IF op = "get" THEN acked ELSE {}]]
          /\ acked' = acked \ {tag}
       \/ Refuse(r) /\ UNCHANGED acked
    /\ UNCHANGED <<snapVars, rec, pub, latest, pubrun>>

\* The tags of the newest holder are read next.
Reading(r, op) == t[r].pc = "read" /\ t[r].op = op

\* A read answers them.
templateSub(r) ==
    /\ Reading(r, "get")
    /\ t' = [t EXCEPT ![r] = [NoRequest EXCEPT !.pc = "answered", !.op = "get",
                 !.missed = IF t[r].view[t[r].cur] = latest /\ rec[t[r].cur].build = latest
                            THEN (t[r].owed \cap acked) \ DOMAIN liveTags(r) ELSE {}]]

\* An assign points its tag at the newest build, or at what the tag its target
\* names points at.
assignTemplateTags(r) ==
    /\ Reading(r, "assign")
    /\ \E d \in {t[r].view[t[r].cur]} \cup {liveTags(r)[x] : x \in DOMAIN liveTags(r)} :
         t' = [t EXCEPT ![r].pc = "write", ![r].cur = "none", ![r].todo = DOMAIN t[r].view,
                        ![r].tags = Pointing(liveTags(r), t[r].tag, d)]

deleteTemplateTags(r) ==
    /\ Reading(r, "untag")
    /\ t' = [t EXCEPT ![r].pc = "write", ![r].cur = "none", ![r].todo = DOMAIN t[r].view,
                      ![r].tags = Only(liveTags(r), DOMAIN liveTags(r) \ {t[r].tag})]

\* The node fails, or a target's tag is not there.
ReadTags(r) ==
    /\ \/ templateSub(r) \/ assignTemplateTags(r) \/ deleteTemplateTags(r)
       \/ t[r].pc = "read" /\ Refuse(r)
    /\ UNCHANGED <<snapVars, rec, pub, latest, pubrun, acked>>

\* Mutated form of SetTemplateLabels: without the digest it was read for.
SetTemplateLabelsAny(n, build, labels) ==
    /\ rec[n] # NoRecord
    /\ rec' = [rec EXCEPT ![n].labels = labels]

\* SetTemplateLabels: the node takes the map for that build's record only.
SetTemplateLabels(n, build, labels) ==
    /\ rec[n].build = build
    /\ rec' = [rec EXCEPT ![n].labels = labels]

\* writeTags, one holder: written, or failed with or without being written.
writeTags(r, n) ==
    /\ t[r].pc = "write"
    /\ n \in t[r].todo
    /\ \E ok \in BOOLEAN :
         /\ t' = [t EXCEPT ![r].todo = @ \ {n}, ![r].ok = @ /\ ok]
         /\ \/ SetTemplateLabels(n, t[r].view[n], t[r].tags)
            \/ ~ok /\ UNCHANGED rec
    /\ UNCHANGED <<snapVars, pub, latest, pubrun, acked>>

\* Mutated form of DeleteTemplate: of the build listed, a newer one being kept.
DeleteTemplateListed(r, n) ==
    rec' = IF rec[n].build = t[r].view[n] THEN [rec EXCEPT ![n] = NoRecord] ELSE rec

\* DeleteTemplate without a digest: whatever the node holds, if anything.
DeleteTemplate(r, n) == rec' = [rec EXCEPT ![n] = NoRecord]

\* deleteTemplate, one holder.
deleteHolder(r, n) ==
    /\ t[r].pc = "delete"
    /\ n \in t[r].todo
    /\ \E ok \in BOOLEAN :
         /\ t' = [t EXCEPT ![r].todo = @ \ {n}, ![r].ok = @ /\ ok]
         /\ \/ DeleteTemplate(r, n)
            \/ ~ok /\ UNCHANGED rec
    /\ UNCHANGED <<snapVars, pub, latest, pubrun, acked>>

\* deleteTemplate of the template's name, or of a snapshot's id.
deleteTemplate(r) ==
    /\ Unstarted(r)
    /\ \/ /\ builtTemplates # <<>>
          /\ t' = [MarkRaced(t, Writing(Found)) EXCEPT ![r] =
                      [NoRequest EXCEPT !.pc = "delete", !.op = "delete", !.since = latest,
                          !.view = builtTemplates, !.todo = DOMAIN builtTemplates]]
          /\ acked' = {}
          /\ UNCHANGED <<snapVars>>
       \/ Refuse(r) /\ UNCHANGED <<snapVars, acked>>
       \/ \E i \in Ids : deleteSnapshot(r, i, listed) /\ UNCHANGED <<t, acked>>
    /\ UNCHANGED <<rec, pub, latest, pubrun>>

\* Every holder of the latest build is in the request's view.
CoversLatest(r) ==
    \A n \in Nodes : rec[n].build = latest => n \in DOMAIN t[r].view

\* forEachHolder is over: one failure fails the whole.
forEachHolder(r) ==
    /\ t[r].pc \in {"write", "delete"}
    /\ t[r].todo = {}
    /\ IF t[r].ok
       THEN t' = [t EXCEPT ![r] = [NoRequest EXCEPT !.pc = "answered", !.op = t[r].op,
                     !.todo = IF t[r].op = "delete" THEN DOMAIN t[r].view ELSE {},
                     !.since = t[r].since]]
       ELSE Refuse(r)
    /\ acked' = IF /\ t[r].op = "assign" /\ t[r].ok /\ ~t[r].raced /\ CoversLatest(r)
                   /\ t[r].tags[t[r].tag] = latest
                THEN acked \cup {t[r].tag} ELSE acked
    /\ UNCHANGED <<snapVars, rec, pub, latest, pubrun>>

TagRequest(r) ==
    \/ \E op \in {"assign", "untag"}, tag \in Tags : Begin(r, op, tag)
    \/ Begin(r, "get", "none")
    \/ ReadTags(r)
    \/ \E n \in Nodes : writeTags(r, n) \/ deleteHolder(r, n)
    \/ forEachHolder(r)
    \/ deleteTemplate(r)

-----------------------------------------------------------------------------
(* A build of the template is promoted and published.                      *)

\* The node's record is replaced, without labels.
Promote(n) ==
    /\ pubrun.pc = "none"
    /\ latest < MaxBuilds
    /\ latest' = latest + 1
    /\ rec' = [rec EXCEPT ![n] = [build |-> latest + 1, labels |-> <<>>]]
    /\ pubrun' = [pc |-> "list", node |-> n, todo |-> {}]
    /\ acked' = {}
    /\ UNCHANGED <<snapVars, pub, t>>

\* publishBuild lists the live holders and ends when one does not answer or its
\* own record is gone.
ListHolders ==
    /\ pubrun.pc = "list"
    /\ \/ /\ rec[pubrun.node].build = latest
          /\ pubrun' = [pubrun EXCEPT !.pc = "delete",
                           !.todo = {h \in Nodes \X Builds :
                                       rec[h[1]].build = h[2] /\ h[2] < latest}]
       \/ pubrun' = [pubrun EXCEPT !.pc = "none"]
    /\ UNCHANGED <<snapVars, rec, pub, latest, t, acked>>

\* An older holder is deleted by its digest, or the delete fails and with it
\* the publish.
DeleteOlder(h) ==
    /\ pubrun.pc = "delete"
    /\ h \in pubrun.todo
    /\ \/ /\ rec' = IF rec[h[1]].build = h[2] THEN [rec EXCEPT ![h[1]] = NoRecord] ELSE rec
          /\ pubrun' = [pubrun EXCEPT !.todo = @ \ {h}]
       \/ UNCHANGED rec /\ pubrun' = [pubrun EXCEPT !.pc = "none", !.todo = {}]
    /\ UNCHANGED <<snapVars, pub, latest, t, acked>>

\* The build's own tags replace what its record carries, if it is still there.
LabelBuild ==
    /\ pubrun.pc = "delete"
    /\ pubrun.todo = {}
    /\ pubrun' = [pubrun EXCEPT !.pc = "none"]
    /\ \/ /\ \E T \in (SUBSET Tags) \ {{}} :
               /\ SetTemplateLabels(pubrun.node, latest, [x \in T |-> latest])
               /\ acked' = IF Writing({latest}) = {} THEN T ELSE {}
          /\ t' = MarkRaced(t, Writing({latest}))
       \/ UNCHANGED <<rec, t, acked>>
    /\ UNCHANGED <<snapVars, pub, latest>>

publishBuild ==
    \/ ListHolders
    \/ \E h \in pubrun.todo : DeleteOlder(h)
    \/ LabelBuild

-----------------------------------------------------------------------------
(* The inventory.                                                          *)

Publish(n) ==
    /\ pub[n] # rec[n]
    /\ pub' = [pub EXCEPT ![n] = rec[n]]
    /\ UNCHANGED <<snapVars, rec, latest, pubrun, t, acked>>

Unlist(n) ==
    /\ pub' = [pub EXCEPT ![n] = Unlisted]
    /\ UNCHANGED <<snapVars, rec, latest, pubrun, t, acked>>

SnapshotRequest(r) ==
    /\ \/ Unstarted(r) /\ (createSnapshot(r) \/ listSnapshots(r, listed))
       \/ SnapStep(r)
    /\ UNCHANGED templateVars

Next ==
    \/ \E r \in Reqs : TagRequest(r) \/ SnapshotRequest(r)
    \/ OtherSnapshot /\ UNCHANGED templateVars
    \/ publishBuild
    \/ \E n \in Nodes : Promote(n) \/ Publish(n) \/ Unlist(n)

Spec == Init /\ [][Next]_vars

-----------------------------------------------------------------------------
\* A tag acknowledged on the latest build, by an assign or by the build's own
\* publish, stays on every holder of it until a request for that very tag or a
\* delete of the template begins, or the build publishes its own tags (a delete
\* that reached one holder leaves it listed a while, with no tags to read, and
\* a write that finds it so clears the others'): writes of other tags keep it,
\* however old the inventory they found the holders in ("so a write never
\* merges onto a stale inventory", templates.go:311), and so does a write that
\* was meant for the build before.  A request racing the acknowledged one is
\* excepted (docs/e2b-compat.md:164).  And a read that began after the
\* acknowledgement and found the build answers the tag.
TagsKept ==
    /\ TypeOK
    /\ \A x \in acked : \A n \in Nodes : rec[n].build = latest =>
           x \in DOMAIN rec[n].labels /\ rec[n].labels[x] = latest
    /\ \A r \in Reqs : t[r].missed = {}

\* An acknowledged delete leaves none of the builds there were when it began on
\* any node the inventory listed as a holder, also where a newer build than
\* the listed one is held.
DeletedTemplateIsGone ==
    \A r \in Reqs : t[r].op = "delete" /\ t[r].pc = "answered" =>
        \A n \in t[r].todo : rec[n] = NoRecord \/ rec[n].build > t[r].since
=============================================================================
