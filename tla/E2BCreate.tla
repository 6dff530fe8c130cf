------------------------------ MODULE E2BCreate ------------------------------
(***************************************************************************)
(* The e2b surface's create (createSandbox in src/pkg/e2bcompat/server.go) *)
(* on top of the store's Claim: one create runs up to two claims, the      *)
(* second for a built template when no warm pool serves the name, then     *)
(* initialises envd in the microVM and gives the microVM back when it      *)
(* cannot.  A Kubernetes create (Create of sandboxREST in                  *)
(* src/pkg/scale/apiserver/storage.go) runs one claim, on the warm pools,  *)
(* and touches no envd.  The steps of a claim are those of ClaimRouting; a *)
(* create is named by its claim call.                                      *)
(***************************************************************************)
EXTENDS ClaimRouting

VARIABLES
    surface,\* which API each create came through
    stage,  \* "new", "pool", "built", "init", "release" or "answered"
    code,   \* the HTTP status answered, 0 before
    live,   \* the nodes holding a live microVM of the create
    envd,   \* the node whose microVM got the create's access token
    risk    \* history: a claim's answer was lost, or the release failed

createVars == <<surface, stage, code, live, envd, risk>>
allVars == <<vars, createVars>>

Stages == {"new", "pool", "built", "init", "release", "answered"}
Codes == {0, 201, 400, 404, 409, 500, 503}

CreateTypeOK ==
    /\ TypeOK
    /\ surface \in [Calls -> {"e2b", "kube"}]
    /\ stage \in [Calls -> Stages]
    /\ code \in [Calls -> Codes]
    /\ live \in [Calls -> SUBSET Nodes]
    /\ envd \in [Calls -> Nodes \cup {NoNode}]
    /\ risk \in [Calls -> BOOLEAN]

CreateInit ==
    /\ Init
    /\ surface \in [Calls -> {"e2b", "kube"}]
    /\ stage = [c \in Calls |-> "new"]
    /\ code = [c \in Calls |-> 0]
    /\ live = [c \in Calls |-> {}]
    /\ envd = [c \in Calls |-> NoNode]
    /\ risk = [c \in Calls |-> FALSE]

writeError(c, status) ==
    /\ stage' = [stage EXCEPT ![c] = "answered"]
    /\ code' = [code EXCEPT ![c] = status]

-----------------------------------------------------------------------------
\* Mutated forms of the definitions below.

\* A failed first claim, not only an empty pool, falls through to the built
\* template.
resolveTemplateAfterAnyError(c) ==
    /\ stage[c] = "pool"
    /\ surface[c] = "e2b"
    /\ pc[c] = "done"
    /\ result[c].kind \in {"noWarm", "failed"}
    /\ \/ /\ \E status \in {404, 503} : writeError(c, status)
          /\ UNCHANGED vars
       \/ /\ stage' = [stage EXCEPT ![c] = "built"]
          /\ UNCHANGED code
          /\ \E s \in Snapshots(TRUE) : StartClaim(c, s)
    /\ UNCHANGED <<surface, live, envd, risk>>

\* A failed envd init answers 500 without giving the microVM back.
initFailsWithoutRelease(c) ==
    /\ stage[c] = "init"
    /\ writeError(c, 500)
    /\ UNCHANGED <<vars, surface, live, envd, risk>>

\* The envd token goes to the node first asked, not to the one that delivered.
initEnvdAtPicked(c) ==
    /\ stage[c] = "init"
    /\ envd' = [envd EXCEPT ![c] = from[c]]
    /\ stage' = [stage EXCEPT ![c] = "answered"]
    /\ code' = [code EXCEPT ![c] = 201]
    /\ UNCHANGED <<vars, surface, live, risk>>

-----------------------------------------------------------------------------
\* An undecodable or unsupported request, or a promoted name used as a
\* template id: answered before anything is claimed.
RefuseRequest(c) ==
    /\ stage[c] = "new"
    /\ surface[c] = "e2b"
    /\ \E status \in {400, 404} : writeError(c, status)
    /\ UNCHANGED <<vars, surface, live, envd, risk>>

\* A dry run, or an object that is refused, has no name or a lease that is over.
RefuseObject(c) ==
    /\ stage[c] = "new"
    /\ surface[c] = "kube"
    /\ writeError(c, 400)
    /\ UNCHANGED <<vars, surface, live, envd, risk>>

\* The first claim, on the warm pools.
ClaimPool(c) ==
    /\ stage[c] = "new"
    /\ stage' = [stage EXCEPT ![c] = "pool"]
    /\ \/ \E s \in Snapshots(FALSE) : StartClaim(c, s)
       \/ ClaimWithoutInventory(c)
    /\ UNCHANGED <<surface, code, live, envd, risk>>

\* The pools had nothing.  A name that is neither built nor pooled is unknown
\* (404); a pooled one, or a failed lookup, is out of capacity (503); a built
\* one is claimed by its key, with Promoted set.
resolveTemplate(c) ==
    /\ stage[c] = "pool"
    /\ surface[c] = "e2b"
    /\ pc[c] = "done"
    /\ result[c].kind = "noWarm"
    /\ \/ /\ \E status \in {404, 503} : writeError(c, status)
          /\ UNCHANGED vars
       \/ /\ stage' = [stage EXCEPT ![c] = "built"]
          /\ UNCHANGED code
          /\ \/ \E s \in Snapshots(TRUE) : StartClaim(c, s)
             \/ /\ Finish(c, "failed")
                /\ UNCHANGED <<snap, cand, from, at, redirect, left, wire, reply,
                               delivered, silent, index>>
    /\ UNCHANGED <<surface, live, envd, risk>>

answerExhausted(c) ==
    /\ stage[c] = "built"
    /\ pc[c] = "done"
    /\ result[c].kind = "noWarm"
    /\ writeError(c, 503)
    /\ UNCHANGED <<vars, surface, live, envd, risk>>

\* A node's 400 or 409 is passed on, anything else is a 500.
answerFailure(c) ==
    /\ stage[c] \in {"pool", "built"}
    /\ surface[c] = "e2b"
    /\ pc[c] = "done"
    /\ result[c].kind = "failed"
    /\ \E status \in {500} \cup IF reply[c].kind = "clientError" THEN {400, 409} ELSE {} :
          writeError(c, status)
    /\ UNCHANGED <<vars, surface, live, envd, risk>>

\* The answer to a Kubernetes create: the assignment, 503 or 500.
KubeAnswer(kind) == CASE kind = "ok" -> 201 [] kind = "noWarm" -> 503 [] kind = "failed" -> 500

answerKube(c) ==
    /\ stage[c] = "pool"
    /\ surface[c] = "kube"
    /\ pc[c] = "done"
    /\ stage' = [stage EXCEPT ![c] = "answered"]
    /\ code' = [code EXCEPT ![c] = KubeAnswer(result[c].kind)]
    /\ UNCHANGED <<vars, surface, live, envd, risk>>

Claimed(c) ==
    /\ stage[c] \in {"pool", "built"}
    /\ surface[c] = "e2b"
    /\ pc[c] = "done"
    /\ result[c].kind = "ok"
    /\ stage' = [stage EXCEPT ![c] = "init"]
    /\ UNCHANGED <<vars, surface, code, live, envd, risk>>

\* envd accepts the token inside the microVM the assignment names: 201.
initEnvd(c) ==
    /\ stage[c] = "init"
    /\ result[c].node \in live[c]
    /\ envd' = [envd EXCEPT ![c] = result[c].node]
    /\ stage' = [stage EXCEPT ![c] = "answered"]
    /\ code' = [code EXCEPT ![c] = 201]
    /\ UNCHANGED <<vars, surface, live, risk>>

\* envd, its relay or the template's envs cannot be reached in time.
initFails(c) ==
    /\ stage[c] = "init"
    /\ stage' = [stage EXCEPT ![c] = "release"]
    /\ UNCHANGED <<vars, surface, code, live, envd, risk>>

\* releaseAll outlives the request's cancellation; a failed release, whether
\* or not the node acted on it, is left to the lease.
releaseAll(c) ==
    /\ stage[c] = "release"
    /\ \/ /\ live' = [live EXCEPT ![c] = @ \ {result[c].node}]
          /\ UNCHANGED risk
       \/ /\ \/ live' = [live EXCEPT ![c] = @ \ {result[c].node}]
             \/ UNCHANGED live
          /\ risk' = [risk EXCEPT ![c] = TRUE]
    /\ writeError(c, 500)
    /\ UNCHANGED <<vars, surface, envd>>

-----------------------------------------------------------------------------
\* A step of the claim in progress.
Routing(c) ==
    /\ stage[c] \in {"pool", "built"}
    /\ \/ /\ Handle(c)
          /\ UNCHANGED createVars
       \/ /\ AnswerLost(c)
          /\ risk' = [risk EXCEPT ![c] = TRUE]
          /\ UNCHANGED <<surface, stage, code, live, envd>>

\* A node handles a request; a delivered microVM lives until it is released
\* or its lease runs out.
NodeStep ==
    \E m \in wire :
        \/ /\ NodeDelivers(m)
           /\ live' = [live EXCEPT ![m.call] = @ \cup {m.node}]
           /\ UNCHANGED <<surface, stage, code, envd, risk>>
        \/ /\ NodeRefuses(m)
           /\ UNCHANGED createVars

LeaseExpires(c) ==
    /\ live[c] # {}
    /\ live' = [live EXCEPT ![c] = {}]
    /\ UNCHANGED <<vars, surface, stage, code, envd, risk>>

Create(c) ==
    \/ RefuseRequest(c) \/ RefuseObject(c) \/ ClaimPool(c) \/ resolveTemplate(c)
    \/ answerExhausted(c) \/ answerFailure(c) \/ Claimed(c)
    \/ answerKube(c) \/ initEnvd(c) \/ initFails(c) \/ releaseAll(c)

AllAnswered ==
    /\ \A c \in Calls : stage[c] = "answered" /\ live[c] = {}
    /\ wire = {}
    /\ UNCHANGED allVars

CreateNext ==
    \/ \E c \in Calls : Create(c) \/ Routing(c) \/ LeaseExpires(c)
    \/ NodeStep
    \/ AllAnswered

\* The handler's goroutine runs and each of its outbound calls has a timeout.
CreateSpec ==
    /\ CreateInit
    /\ [][CreateNext]_allVars
    /\ \A c \in Calls : WF_allVars(Create(c) \/ Routing(c))

-----------------------------------------------------------------------------
\* A create that fails leaves no microVM behind and none on its way, unless a
\* claim's answer was lost or the release failed, the two cases left to the
\* lease; and 404 and 503, which tell the client to stop asking or to retry,
\* never hide a microVM, even when answers are lost.
FailedCreateHoldsNothing ==
    \A c \in Calls :
        /\ stage[c] = "answered" /\ code[c] # 201 /\ ~risk[c] =>
              live[c] = {} /\ Outstanding(c) = {}
        /\ code[c] \in {404, 503} => delivered[c] = <<>> /\ Outstanding(c) = {}

\* A 201 names the one microVM delivered, to which the index routes every later
\* verb, after a redirect too, and its envd holds the caller's token, unless it
\* was the Kubernetes API that claimed it.
CreatedIsInitialised ==
    /\ CreateTypeOK
    /\ \A c \in Calls : code[c] = 201 =>
          /\ delivered[c] = <<index[c]>> /\ result[c].node = index[c]
          /\ surface[c] = "e2b" => envd[c] = index[c]

\* Every create is answered.
CreateAnswered == \A c \in Calls : stage[c] # "new" ~> stage[c] = "answered"
=============================================================================
