------------------------------- MODULE E2BFork -------------------------------
(***************************************************************************)
(* A fork of a created sandbox (forkSandbox in src/pkg/e2bcompat/          *)
(* lifecycle.go, Fork in src/pkg/scale/sandboxstore_lifecycle.go): the     *)
(* node forks the parent into all the children asked for or none, the      *)
(* store remembers them, and the e2b surface moves every child's envd from *)
(* the parent's token to the child's own, all children at once.  One that  *)
(* cannot be moved takes all of them down.  A Kubernetes fork              *)
(* (NewSandboxForkREST in src/pkg/scale/apiserver/lifecycle_storage.go)    *)
(* returns the children as they are.                                       *)
(*                                                                         *)
(* The node that forks and the envd in a child are external.               *)
(***************************************************************************)
EXTENDS E2BCreate

CONSTANT Kids  \* ids of children

VARIABLES
    fork,  \* the fork: its parent, how far it got, its answer, and as history
           \* whether an answer or a release of it was lost
    kid    \* each child

forkVars == <<fork, kid>>
forkAllVars == <<allVars, fork, kid>>

\* hash: whose token the instance metadata names; token: whose envd obeys; at:
\* where the index sends verbs; todo: how far its hand-over got.
KidType == [live : BOOLEAN, at : Nodes \cup {NoNode},
            hash : {"parent", "own"}, token : {"parent", "own"},
            todo : {"none", "metadata", "init", "ready", "failed"}]

ForkTypeOK ==
    /\ fork \in [pc : {"new", "fork", "remember", "handOver", "release", "answered"},
                 surface : {"e2b", "kube"}, of : Calls, asked : SUBSET Kids,
                 answer : {"none", "created", "refused", "failed"}, risk : BOOLEAN]
    /\ kid \in [Kids -> KidType]

NoKid == [live |-> FALSE, at |-> NoNode, hash |-> "parent", token |-> "parent",
          todo |-> "none"]

\* A microVM that is gone: its metadata and its envd are gone with it.
Gone(k) == [kid[k] EXCEPT !.live = FALSE, !.hash = "parent", !.token = "parent"]

ForkInit ==
    /\ CreateInit
    /\ \E c \in Calls, s \in {"e2b", "kube"} :
          fork = [pc |-> "new", surface |-> s, of |-> c, asked |-> {},
                  answer |-> "none", risk |-> FALSE]
    /\ kid = [k \in Kids |-> NoKid]

\* The answer: 201, a 4xx or a 500.
forkAnswer(answer) == fork' = [fork EXCEPT !.pc = "answered", !.answer = answer]

-----------------------------------------------------------------------------
\* A bad count or timeout, a dry run, a parent that is not found or is paused.
refuseFork ==
    /\ fork.pc = "new"
    /\ code[fork.of] = 201
    /\ \E answer \in {"refused", "failed"} : forkAnswer(answer)
    /\ UNCHANGED <<allVars, kid>>

\* The parent was found and runs: its node is asked.
forkSandbox(asked) ==
    /\ fork.pc = "new"
    /\ code[fork.of] = 201
    /\ fork' = [fork EXCEPT !.pc = "fork", !.asked = asked]
    /\ UNCHANGED <<allVars, kid>>

\* The node forks the parent into every child asked for, with its memory and so
\* with its token; its answer is lost or comes back.
NodeForks ==
    /\ fork.pc = "fork"
    /\ result[fork.of].node \in live[fork.of]
    /\ kid' = [k \in Kids |-> IF k \in fork.asked
                              THEN [NoKid EXCEPT !.live = TRUE] ELSE kid[k]]
    /\ \/ fork' = [fork EXCEPT !.pc = "answered", !.answer = "failed", !.risk = TRUE]
       \/ fork' = [fork EXCEPT !.pc = "remember"]
    /\ UNCHANGED allVars

\* The node refuses or cannot be reached: none was made.
NodeForkFails ==
    /\ fork.pc = "fork"
    /\ \E answer \in {"refused", "failed"} : forkAnswer(answer)
    /\ UNCHANGED <<allVars, kid>>

\* Fork remembers the children and returns them.
Fork ==
    /\ fork.pc = "remember"
    /\ kid' = [k \in Kids |->
                 IF k \in fork.asked
                 THEN [kid[k] EXCEPT !.at = result[fork.of].node, !.todo = "metadata"]
                 ELSE kid[k]]
    /\ UNCHANGED allVars

\* The e2b API hands them over.
handOverAll ==
    /\ fork.surface = "e2b"
    /\ Fork
    /\ fork' = [fork EXCEPT !.pc = "handOver"]

\* The Kubernetes API answers them as they are.
forkREST ==
    /\ fork.surface = "kube"
    /\ Fork
    /\ forkAnswer("created")

-----------------------------------------------------------------------------
(* handOver of one child, each in its own goroutine.                       *)

\* SetInstanceMetadata names the child's token.
setInstanceMetadata(k) ==
    /\ fork.pc = "handOver"
    /\ kid[k].todo = "metadata"
    /\ kid[k].live
    /\ kid' = [kid EXCEPT ![k].hash = "own", ![k].todo = "init"]
    /\ UNCHANGED <<allVars, fork>>

\* envd takes the new token only when the metadata names it.
initKid(k) ==
    /\ fork.pc = "handOver"
    /\ kid[k].todo = "init"
    /\ kid[k].live /\ kid[k].hash = "own"
    /\ kid' = [kid EXCEPT ![k].token = "own", ![k].todo = "ready"]
    /\ UNCHANGED <<allVars, fork>>

\* A call of the hand-over fails, whether or not it took effect.
handOverFails(k) ==
    /\ fork.pc = "handOver"
    /\ kid[k].todo \in {"metadata", "init"}
    /\ \/ kid' = [kid EXCEPT ![k].todo = "failed"]
       \/ /\ kid[k].todo = "metadata" /\ kid[k].live
          /\ kid' = [kid EXCEPT ![k].todo = "failed", ![k].hash = "own"]
       \/ /\ kid[k].todo = "init" /\ kid[k].live /\ kid[k].hash = "own"
          /\ kid' = [kid EXCEPT ![k].todo = "failed", ![k].token = "own"]
    /\ UNCHANGED <<allVars, fork>>

-----------------------------------------------------------------------------
\* Mutated form of wait: the fork is answered unless every child failed.
waitAny ==
    /\ fork.pc = "handOver"
    /\ \A k \in fork.asked : kid[k].todo \in {"ready", "failed"}
    /\ IF \E k \in fork.asked : kid[k].todo = "ready" THEN forkAnswer("created")
       ELSE fork' = [fork EXCEPT !.pc = "release"]
    /\ UNCHANGED <<allVars, kid>>

\* All hand-overs are waited for; one failure fails the fork.
wait ==
    /\ fork.pc = "handOver"
    /\ \A k \in fork.asked : kid[k].todo \in {"ready", "failed"}
    /\ IF \E k \in fork.asked : kid[k].todo = "failed"
       THEN fork' = [fork EXCEPT !.pc = "release"]
       ELSE forkAnswer("created")
    /\ UNCHANGED <<allVars, kid>>

\* releaseAll: every child in turn; a failed release is left to the lease.
releaseKid(k) ==
    /\ fork.pc = "release"
    /\ k \in fork.asked
    /\ \E lost \in BOOLEAN :
          /\ fork' = [fork EXCEPT !.asked = @ \ {k}, !.risk = @ \/ lost]
          /\ \/ kid' = [kid EXCEPT ![k] = Gone(k)]
             \/ lost /\ UNCHANGED kid
    /\ UNCHANGED allVars

\* What the failed hand-over answered, a refusal of the node's or 500.
answerFork ==
    /\ fork.pc = "release"
    /\ fork.asked = {}
    /\ \E answer \in {"refused", "failed"} : forkAnswer(answer)
    /\ UNCHANGED <<allVars, kid>>

\* A child's own lease.
KidExpires(k) ==
    /\ kid[k].live
    /\ kid' = [kid EXCEPT ![k] = Gone(k)]
    /\ UNCHANGED <<allVars, fork>>

ForkStep ==
    \/ NodeForks \/ NodeForkFails \/ handOverAll \/ forkREST \/ wait \/ answerFork
    \/ \E k \in Kids : \/ setInstanceMetadata(k) \/ initKid(k) \/ handOverFails(k)
                       \/ releaseKid(k)

ForkNext ==
    \/ CreateNext /\ UNCHANGED forkVars
    \/ refuseFork
    \/ \E asked \in SUBSET Kids \ {{}} : forkSandbox(asked)
    \/ ForkStep
    \/ \E k \in Kids : KidExpires(k)

\* The fairness is that of the creates.
ForkSpec ==
    /\ ForkInit
    /\ [][ForkNext]_forkAllVars
    /\ \A c \in Calls : WF_allVars(Create(c) \/ Routing(c))

-----------------------------------------------------------------------------
\* A fork is all or nothing to its caller: after 201 every child asked for was
\* made, is found by the index on the parent's node, and on the e2b surface
\* obeys its own token and no longer its parent's; after any other answer none
\* is left, unless the node's answer or a release was lost.
ForkIsExact ==
    /\ ForkTypeOK
    /\ fork.answer = "created" => \A k \in fork.asked :
          /\ kid[k].at = result[fork.of].node
          /\ kid[k].live /\ fork.surface = "e2b" => kid[k].hash = "own" /\ kid[k].token = "own"
    /\ fork.answer \in {"refused", "failed"} /\ ~fork.risk =>
          \A k \in Kids : ~kid[k].live
=============================================================================
