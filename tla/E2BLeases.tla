----------------------------- MODULE E2BLeases -----------------------------
(***************************************************************************)
(* The e2b surface's calls on one sandbox (src/pkg/e2bcompat/lifecycle.go  *)
(* and server.go): pause, connect, resume, timeout and refresh, delete,    *)
(* get and metrics.  Each handler is a chain of calls to the store, and    *)
(* through it to the owning node; any other handler, the lease or the      *)
(* publisher may act between two of them, and any call may fail, acted on  *)
(* by the node or not.                                                     *)
(*                                                                         *)
(* The node keeps the sandbox running, hibernated or archived, with a      *)
(* lease in absolute time and what to do at its end; an archive may have   *)
(* an end of its own.  Requests carry whole seconds; the clock is finer,   *)
(* PerSecond instants to the second.  The clock is the node's.  A replica  *)
(* of the API server reads its own, once in a connect, up to MaxSkew away. *)
(***************************************************************************)
EXTENDS Integers

CONSTANTS
    Calls,       \* calls in flight
    Timeouts,    \* the timeouts asked for, in seconds
    DefaultTTL,  \* what the node grants to a request for 0 seconds
    MaxTTL,      \* the node's cap
    WakeTTL,     \* the lease an archived sandbox wakes with
    Retention,   \* how long the node keeps an archive, if not forever, in instants
    PerSecond,   \* instants in a second
    MaxSkew,     \* how far the API server's clock may be off the node's, in instants
    MaxTime      \* bound: the last instant modelled

ASSUME TimeoutsAssumption == Timeouts \subseteq Nat /\ 0 \in Timeouts
ASSUME TTLAssumption ==
    /\ MaxTTL \in Nat \ {0}
    /\ DefaultTTL \in 1..MaxTTL
    /\ WakeTTL \in 1..MaxTTL
ASSUME RetentionAssumption == Retention \in Nat \ {0}
ASSUME ClockAssumption == PerSecond \in Nat \ {0} /\ MaxTime \in Nat \ {0}
ASSUME SkewAssumption == MaxSkew \in Nat

Ops == {"pause", "connect", "resume", "timeout", "delete", "get", "metrics"}
Phases == {"running", "hibernated", "archived", "gone"}
Actions == {"destroy", "archive"}  \* at the end of a lease
Keep == "keep"                     \* a request that leaves the action alone
NoDeadline == 0                    \* the zero time

\* A 404 because a node did not answer is "missed", a 409 on the published
\* phase "assumed".
Answers == {"ok", "resumed", "conflict", "assumed", "notfound", "missed", "error",
            "running", "paused", "sample", "nosample"}

VARIABLES
    now,       \* the node's clock
    phase,     \* the node: the sandbox
    deadline,  \* the node: the end of its lease, or of its archive
    onExpire,  \* the node: what happens then
    label,     \* the phase the inventory publishes
    call,      \* each call: its next step, route, timeout in seconds, expireFor
               \* and the record last read
    reply,     \* the answer given in the last step, or "none"
    seen,      \* history: the phases the sandbox had during the call
    touched    \* history: calls since whose last read another moved the lease

nodeVars == <<phase, deadline, onExpire>>
leaseVars == <<now, nodeVars, label, call, reply, seen, touched>>

LastDeadline == MaxTime + MaxTTL * PerSecond + Retention

LeaseTypeOK ==
    /\ now \in 1..MaxTime
    /\ phase \in Phases
    /\ deadline \in 0..LastDeadline
    /\ phase \in {"running", "hibernated"} => deadline # NoDeadline
    /\ phase = "gone" => deadline = NoDeadline
    /\ onExpire \in Actions
    /\ label \in {"running", "paused"}
    /\ call \in [Calls -> [pc : {"idle", "lookup", "check", "pause", "read", "wake",
                                 "reread", "extend", "renew", "release", "get", "metrics", "sample"},
                           op : Ops,
                           ttl : Nat,
                           expire : Actions \cup {Keep},
                           paused : BOOLEAN,
                           until : 0..LastDeadline]]
    /\ reply \in Answers \cup {"none"}
    /\ seen \in [Calls -> SUBSET Phases]
    /\ touched \in SUBSET Calls

IdleCall == [pc |-> "idle", op |-> "get", ttl |-> 0, expire |-> Keep, paused |-> FALSE,
         until |-> NoDeadline]

LeaseInit ==
    /\ now = 1
    /\ phase = "running"
    /\ deadline \in now..now + MaxTTL * PerSecond
    /\ onExpire \in Actions
    /\ label = "running"
    /\ call = [c \in Calls |-> IdleCall]
    /\ reply = "none"
    /\ seen = [c \in Calls |-> {}]
    /\ touched = {}

At(c, l) == call[c].pc = l
IsPaused == phase \in {"hibernated", "archived"}
Leased == phase \in {"running", "hibernated"}
Exists == phase # "gone"

-----------------------------------------------------------------------------
\* A call takes a step that does not answer it.
Becomes(c, r) == call' = [call EXCEPT ![c] = r] /\ reply' = "none"
Goto(c, l) == Becomes(c, [call[c] EXCEPT !.pc = l])

\* The call is over: what it worked with is forgotten.
Answer(c, a) == call' = [call EXCEPT ![c] = IdleCall] /\ reply' = a

\* The history of a step: the phases each call meets, and the calls under whose
\* hands another one moved the lease.
Track ==
    /\ seen' = [c \in Calls |-> IF call'[c].pc = "idle" THEN {} ELSE seen[c] \cup {phase'}]
    /\ touched' = {c \in Calls :
                     /\ call'[c].pc # "idle"
                     /\ \/ /\ call'[c] = call[c]
                           /\ c \in touched \/ deadline' \notin {deadline, NoDeadline}
                        \/ c \in touched /\ call[c].pc \notin {"read", "reread"}}

-----------------------------------------------------------------------------
(* The node (external).                                                    *)

\* What a request for s seconds is granted.
granted(s) == IF s <= 0 THEN DefaultTTL ELSE IF s > MaxTTL THEN MaxTTL ELSE s

\* A lease that ends archives the sandbox, for good or for the node's
\* retention, or destroys it.
Lapse ==
    /\ Leased
    /\ now >= deadline
    /\ \/ /\ onExpire = "archive"
          /\ phase' = "archived"
          /\ deadline' \in {NoDeadline, now + Retention}
       \/ /\ onExpire = "destroy"
          /\ phase' = "gone"
          /\ deadline' = NoDeadline
    /\ reply' = "none"
    /\ UNCHANGED <<now, onExpire, label, call>>

\* An archive whose retention ends is destroyed.
Expire ==
    /\ phase = "archived"
    /\ deadline # NoDeadline /\ now >= deadline
    /\ phase' = "gone"
    /\ deadline' = NoDeadline
    /\ reply' = "none"
    /\ UNCHANGED <<now, onExpire, label, call>>

PublishPhase ==
    /\ label' = IF IsPaused THEN "paused" ELSE "running"
    /\ reply' = "none"
    /\ UNCHANGED <<now, nodeVars, call>>

Tick ==
    /\ now < MaxTime
    /\ now' = now + 1
    /\ reply' = "none"
    /\ UNCHANGED <<nodeVars, label, call>>

\* The node restores a paused sandbox, an archived one under a new lease.
Woken ==
    /\ phase' = "running"
    /\ deadline' = IF phase = "archived" THEN now + WakeTTL * PerSecond ELSE deadline
    /\ UNCHANGED onExpire

-----------------------------------------------------------------------------
\* Mutated forms of the definitions below.

\* The published phase is trusted.
isPausedPublished(c) ==
    /\ At(c, "check")
    /\ IF call[c].paused THEN Answer(c, "conflict") ELSE Goto(c, "pause")
    /\ UNCHANGED <<now, nodeVars, label>>

\* The seconds left are rounded down.
leftFloor(c, skew) == (call[c].until - (now + skew)) \div PerSecond

\* A lease is renewed only to change the action at its end.
needsRenewForAction(c, skew) == call[c].expire # Keep

-----------------------------------------------------------------------------
(* The handlers.                                                           *)

\* A request arrives; one for resume may name autoPause.
Call(c, o, t, e) ==
    /\ At(c, "idle")
    /\ Becomes(c, [IdleCall EXCEPT !.pc = "lookup", !.op = o, !.ttl = t, !.expire = e])
    /\ UNCHANGED <<now, nodeVars, label>>

\* lookup: GetByClaimID, which may name a sandbox that is over and, when a node
\* does not answer, may miss one that is not.  The phase it comes with, of which
\* only pause makes use, is the published one or the node's.
lookup(c) ==
    /\ At(c, "lookup")
    /\ \/ CASE call[c].op = "pause" ->
                 \E p \in {label = "paused", IsPaused} :
                     Becomes(c, [call[c] EXCEPT !.pc = "check", !.paused = p])
            [] call[c].op = "timeout" -> Goto(c, "renew")
            [] call[c].op = "delete" -> Goto(c, "release")
            [] call[c].op = "get" -> Goto(c, "get")
            [] call[c].op = "metrics" -> Goto(c, "metrics")
            [] OTHER -> Goto(c, "read")
       \/ ~Exists /\ Answer(c, "notfound")
       \/ Answer(c, "missed")
       \/ Answer(c, "error")
    /\ UNCHANGED <<now, nodeVars, label>>

\* isPaused: the node's record, or the phase lookup came with when the node
\* does not answer.
isPaused(c) ==
    /\ At(c, "check")
    /\ \/ Exists /\ IsPaused /\ Answer(c, "conflict")
       \/ Exists /\ ~IsPaused /\ Goto(c, "pause")
       \/ ~Exists /\ Answer(c, "notfound")
       \/ IF call[c].paused THEN Answer(c, "assumed") ELSE Goto(c, "pause")
    /\ UNCHANGED <<now, nodeVars, label>>

\* Pause: the node hibernates a running sandbox and refuses or ignores another.
Pause(c) ==
    /\ At(c, "pause")
    /\ \/ phase = "running" /\ phase' = "hibernated" /\ (Answer(c, "ok") \/ Answer(c, "error"))
       \/ IsPaused /\ UNCHANGED phase /\ (Answer(c, "ok") \/ Answer(c, "conflict"))
       \/ ~Exists /\ UNCHANGED phase /\ Answer(c, "notfound")
       \/ UNCHANGED phase /\ Answer(c, "error")
    /\ UNCHANGED <<now, deadline, onExpire, label>>

\* The call learns the lease from the record as the node has it.
Learn(c) == Becomes(c, [call[c] EXCEPT !.pc = "extend", !.until = deadline])

\* connect and resume read the record; a legacy resume refuses a running one.
\* The record of a paused one is read again once it is awake.
Read(c) ==
    /\ At(c, "read")
    /\ \/ Exists /\ IsPaused /\ Becomes(c, [call[c] EXCEPT !.pc = "wake", !.paused = TRUE])
       \/ Exists /\ ~IsPaused /\ IF call[c].op = "resume" THEN Answer(c, "conflict")
                               ELSE Learn(c)
       \/ ~Exists /\ Answer(c, "notfound")
       \/ Answer(c, "error")
    /\ UNCHANGED <<now, nodeVars, label>>

\* getSandbox answers with the node's state.
getSandbox(c) ==
    /\ At(c, "get")
    /\ \/ Exists /\ Answer(c, IF IsPaused THEN "paused" ELSE "running")
       \/ ~Exists /\ Answer(c, "notfound")
       \/ Answer(c, "error")
    /\ UNCHANGED <<now, nodeVars, label>>

\* Resume: the node wakes the sandbox; a wake whose answer is lost has happened.
Resume(c) ==
    /\ At(c, "wake")
    /\ \/ /\ Exists
          /\ IF IsPaused THEN Woken ELSE UNCHANGED nodeVars
          /\ Goto(c, "reread") \/ Answer(c, "error")
       \/ ~Exists /\ Answer(c, "notfound") /\ UNCHANGED nodeVars
       \/ Answer(c, "error") /\ UNCHANGED nodeVars
    /\ UNCHANGED <<now, label>>

\* The record is read again for the lease the wake left.
reread(c) ==
    /\ At(c, "reread")
    /\ \/ Exists /\ Learn(c)
       \/ ~Exists /\ Answer(c, "notfound")
       \/ Answer(c, "error")
    /\ UNCHANGED <<now, nodeVars, label>>

\* The whole seconds left of the lease by the API server's clock, rounded up;
\* an archive kept for good has the zero time, long past.
left(c, skew) ==
    IF call[c].until = NoDeadline THEN -1 ELSE -((now + skew - call[c].until) \div PerSecond)

needsRenew(c, skew) == call[c].ttl > left(c, skew) \/ call[c].expire # Keep

Connected(c) == IF call[c].paused THEN "resumed" ELSE "ok"

\* connect, once it knows the lease: it renews for the larger of the timeout
\* and what is left, or answers.
connect(c) ==
    /\ At(c, "extend")
    /\ \E skew \in -MaxSkew..MaxSkew :
          IF needsRenew(c, skew)
          THEN Becomes(c, [call[c] EXCEPT !.pc = "renew",
                                          !.ttl = IF @ > left(c, skew) THEN @ ELSE left(c, skew)])
          ELSE Answer(c, Connected(c))
    /\ UNCHANGED <<now, nodeVars, label>>

\* Renew: the node grants a lease from now, except to an archived sandbox.
Renew(c) ==
    /\ At(c, "renew")
    /\ \/ /\ Leased
          /\ deadline' = now + granted(call[c].ttl) * PerSecond
          /\ onExpire' = IF call[c].expire = Keep THEN onExpire ELSE call[c].expire
          /\ Answer(c, Connected(c)) \/ Answer(c, "error")
          /\ UNCHANGED phase
       \/ phase = "archived" /\ Answer(c, "conflict") /\ UNCHANGED nodeVars
       \/ ~Exists /\ Answer(c, "notfound") /\ UNCHANGED nodeVars
       \/ Answer(c, "error") /\ UNCHANGED nodeVars
    /\ UNCHANGED <<now, label>>

\* Release: a sandbox the node does not hold counts as released.
Release(c) ==
    /\ At(c, "release")
    /\ \/ /\ phase' = "gone"
          /\ deadline' = NoDeadline
          /\ Answer(c, "ok") \/ Answer(c, "error")
       \/ Answer(c, "error") /\ UNCHANGED <<phase, deadline>>
    /\ UNCHANGED <<now, onExpire, label>>

\* readEnvdMetrics reads the record and asks envd through the passive relay,
\* which wakes nothing.
readEnvdMetrics(c) ==
    /\ call[c].pc \in {"metrics", "sample"}
    /\ \/ phase = "running" /\ IF At(c, "metrics") THEN Goto(c, "sample")
                               ELSE Answer(c, "sample")
       \/ IsPaused /\ Answer(c, "nosample")
       \/ ~Exists /\ Answer(c, "notfound")
       \/ Answer(c, "error")
    /\ UNCHANGED <<now, nodeVars, label>>

Requested(c) ==
    \E o \in Ops, t \in Timeouts, e \in Actions \cup {Keep} :
        /\ o \notin {"connect", "resume", "timeout"} => t = 0
        /\ o # "resume" => e = Keep
        /\ Call(c, o, t, e)

Handle(c) ==
    \/ lookup(c) \/ isPaused(c) \/ Pause(c) \/ Read(c) \/ Resume(c) \/ reread(c)
    \/ connect(c) \/ Renew(c) \/ Release(c) \/ getSandbox(c) \/ readEnvdMetrics(c)

LeaseNext ==
    /\ \/ \E c \in Calls : Requested(c) \/ Handle(c)
       \/ Lapse \/ Expire \/ PublishPhase \/ Tick
    /\ Track

LeaseSpec == LeaseInit /\ [][LeaseNext]_leaseVars

-----------------------------------------------------------------------------
\* The step in which call c is answered.
Answered(c) == call[c].pc # "idle" /\ call'[c].pc = "idle"

\* What an answer claims held at some time during the call, so a client that
\* acts on it is never misled by a race: "already paused" and "no sample" to a
\* sandbox that was paused, "already running" to one that ran, 404 and a
\* finished delete to one that was gone.  Only "missed" and "assumed", given
\* when a read failed, claim nothing.
AnswersAreTrue ==
    /\ []LeaseTypeOK
    /\ [][\A c \in Calls :
             Answered(c) =>
               LET was(P) == (seen[c] \cup {phase'}) \cap P # {}
                   a == reply'
                   o == call[c].op
               IN  /\ a \in {"paused", "nosample"} => was({"hibernated", "archived"})
                   /\ a \in {"running", "sample", "resumed"} => was({"running"})
                   /\ a = "notfound" => was({"gone"})
                   /\ a = "conflict" /\ o = "pause" => was({"hibernated", "archived"})
                   /\ a = "conflict" /\ o = "timeout" => was({"archived"})
                   /\ a = "conflict" /\ o = "resume" => was({"running", "archived"})
                   /\ a = "ok" /\ o = "pause" => was({"hibernated", "archived"})
                   /\ a = "ok" /\ o = "connect" => was({"running"})
                   /\ a = "ok" /\ o = "delete" => was({"gone"})]_leaseVars

\* A connect or resume moves the lease.
Renews(c) ==
    /\ At(c, "renew")
    /\ call[c].op # "timeout"
    /\ Answered(c)
    /\ deadline' # deadline

\* docs/e2b-compat.md:155, of connect's timeout: it "extends the lease [...] and
\* never shortens it", and :156 the same of a resume with autoPause.
NeverShortens == [][\A c \in Calls : Renews(c) => deadline' >= deadline]_leaseVars

\* A connect or resume cuts a lease short only if another call moved the lease
\* after it read the deadline, or by as much as the API server's clock is ahead
\* of the node's: neither rounding to seconds, the node's cap nor the lease its
\* own wake was given does.
LeaseNotCut ==
    [][\A c \in Calls \ touched : Renews(c) => deadline' + MaxSkew >= deadline]_leaseVars

\* A connect that succeeds leaves at least the lease asked for, less the part of
\* a second that rounding hides, what the API server's clock is behind the
\* node's and what the node's cap takes, and the action at its end that
\* autoPause names, unless another call moved the lease or it ended meanwhile.
LeaseGranted ==
    [][\A c \in Calls \ touched :
          /\ Answered(c)
          /\ call[c].op \in {"connect", "resume"}
          /\ reply' \in {"ok", "resumed"}
          /\ Leased
          => LET asked == IF call[c].ttl > MaxTTL THEN MaxTTL ELSE call[c].ttl
             IN  /\ deadline' + MaxSkew > now + (asked - 1) * PerSecond
                 /\ call[c].expire # Keep => onExpire' = call[c].expire]_leaseVars
=============================================================================
