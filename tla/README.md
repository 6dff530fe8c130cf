# Verification of sandbox-operator

sandbox-operator puts a Kubernetes API and an e2b-compatible API in front of a
fleet of nodes that each run `sandboxd` and keep warm microVMs. It stores
nothing of its own: every answer is assembled from inventories the nodes
publish every few seconds, from a small in-memory index, and from the nodes
themselves. What makes it hard to get right is therefore always the same: a
decision taken on something that was true a moment ago, in a handler that is a
chain of calls to machines that may be slow, restarted or gone, beside other
handlers doing the same.

This directory holds TLA+ modules that model that control logic, TLC
configurations that check them on small instances, and TLAPS proofs of the most
important properties for every instance. `PROJECT.json` maps every definition
to the source lines it models, lists the runs, the mutants that show each
property can fail, the hazards, the findings and the theorems.

## Running it

    tlc -workers 2 -config E2BFork.cfg E2BFork
    tlapm E2BForkProofs.tla

`PROJECT.json` pairs every module with its configuration. Each run finishes
within three minutes on two cores.

## Inventory of the system

| component | state it keeps | operations | talks to | what is hard about it |
|---|---|---|---|---|
| resolution index, `pkg/scale/nodeindex.go` | two generations of a map from a name or claim id to a node | lookup, remember | read path, claim routing | at its limit a generation is retired while keys in it are read and stored again |
| claim routing, `Claim` in `pkg/scale/sandboxstore_impl.go` | none beyond the call | sample two candidates, ask, follow a 307 to peers, sample again | nodes, inventory source, index | an answer may be lost while the node delivers; candidates are stale; peers may be unknown |
| read path and verbs, `resolve`, `Get`, `Release`, `sandboxstore_lifecycle.go` | the index | index row, index live, sweep of rows, live sweep, then the verb on the node | nodes, inventory source | published rows outlive claims, names are claimed again, several replicas share nothing |
| watch and list, `runWatch` | the view last sent | open, tick, diff, confirm a deletion | nodes, inventory source, client | a poll-based watch has to lose no change and invent no deletion |
| Kubernetes inventory source, `kubeinventory/source.go` | snapshot of `NodeInventory` objects, newest stamp | put, drop, list | informer | staleness judged between clocks that disagree |
| mesh inventory source, `meshinventory/source.go` | members, failures, last answers, snapshot | tick: poll, learn peers, forget, fold, publish | nodes | nodes that restart under another address, go silent, or are named by gossip only |
| e2b create, `e2bcompat/server.go`, `envd.go` | none | claim a pool, else a template, init envd, release on failure | claim routing, guest | the second claim and the release must not leave a microVM behind |
| e2b lifecycle and listing, `e2bcompat/lifecycle.go`, `server.go` | none | fork, snapshots, paged list; pause, connect, resume, timeout, refresh, delete, get, metrics | store, node | read, compute, write against a lease others move; children that start on their parent's token; a cursor into a list that changes |
| template builds, `e2bbuild/executor.go`, `e2bcompat/builds.go` | records, slots | register, start, run (claim, prepare, promote, publish, release), sweep | nodes | concurrent builds of one name, restarts, failing calls |
| e2b template tags, `e2bcompat/templates.go` | none | assign, read and delete tags, delete a template | store, nodes | read, change and write of label maps over several holders |
| warm-pool driver, `scale/warmpool/driver.go` | none | list, resolve keys, spread, PUT each node's whole set, write status | API server, nodes | a PUT drains what it omits |
| envd proxy, `envdproxy/` | cache of recent owners, probe budget | resolve, probe, admit, relay | inventory source, nodes, guest | a cache judged by a token, a budget anybody can use up |
| API server storage, `scale/apiserver/` | none | REST verbs onto the store | store | mapping of errors, rows without a claim id |
| sandboxd client, `pkg/sandboxd/` | none | HTTP calls | nodes | which failures may have taken effect |
| uploads, guest processes, wiring, API types | none | byte streams, flags, schemas | | pure I/O or declarations |

What makes each correct, in short: a claim costs at most one microVM and names
where it is; a claim that was returned is found and verbs act on the claim
asked for; a watch's client converges to the list without false deletions; an
inventory source lists exactly the nodes that are alive by its rule; a create
or a build that fails leaves nothing behind; a pool that is wanted is not
drained; a lease is not cut by a call that promises to extend it; a token
admits to its own sandbox only; an acknowledged tag stays while its build does;
a fork is all or nothing; a walk through the pages misses and repeats nothing.

## Modules

The nodes (`sandboxd`), the API server and the guest are external. They are
modelled from how `src/` uses them: a node answers, refuses, acts without its
answer arriving, or stays silent; an inventory is published late, becomes stale
or disappears. In every module the actions of the environment interleave with
every step of a handler, and a handler is cut into steps at its calls to
others and at its locks.

* **LossyIndex** is the abstract index: a key maps to the node last remembered
  or to nothing, and may be forgotten at any time. **NodeIndex** is the code's
  two-generation map: `cur` and `prev` are the two maps, `storeLocked` retires a
  generation, `lookupRetired` promotes. The histories `last` and `age` say what
  was stored last and how many other stores followed. `ImplementsLossyIndex`
  is the refinement, with what a lookup would answer as the mapping.
  **NodeIndexProofs** proves it and the invariants.
* **ClaimRouting** is `Claim` and `claimRedirected`. `pc` is how far a call got,
  `cands` and the rest its local variables, `wire` the requests in flight to the
  nodes, `reply` the answer, `delivered` (history) what the nodes gave the call.
  A node may deliver after the caller has lost its answer.
* **E2BCreate** EXTENDS ClaimRouting with `createSandbox`: the claim of a pool,
  the second claim of a promoted template when there was no capacity, the envd
  initialisation of what came back, the release when it fails, and the status
  code. `surface` says which API the create came through: a Kubernetes `Create`
  makes one claim and touches no envd. **E2BFork** EXTENDS it with a fork of
  what was created, on either surface: the node's fork of the parent, the
  hand-over of each child to its own token side by side, and the release of all
  when one fails. The composed specification checks all layers at once, and
  **E2BForkProofs** proves it layer by layer, the claim routing first.
* **ReadPath** uses an instance of LossyIndex (so what it shows holds for every
  index that refines it) and models `resolve` with its four stages, then `Get`,
  `Release` or another verb on the node found, as both APIs reach them
  (`Delete` and the lifecycle subresources of the API server, `deleteSandbox` of
  e2b). `rows` is what each node last published, by a `bare` node without claim
  ids, `held` (history) the claims a request is entitled to find.
  **ReadPathProofs** proves its three properties.
* **Watch** models `runWatch` and the list functions under it, fleet-wide and
  pinned to a name, and the client by what it makes of the events. `NameOf`
  and `Pinned` are chosen at the start from the scenarios of `MCWatch`.
* **PagedList** is the walk of a client through `GET /v2/sandboxes` over a list
  that may be any list at each page; **E2BList** EXTENDS Watch and instantiates
  it with the list that is really there, the published rows the filters keep.
  **E2BListProofs** proves the safety of the watch, that the walk is exact, and
  that the composed specification implements both.
* **KubeInventory**: the snapshot rebuilt on each informer event and the
  staleness rule, with clocks up to `Skew` apart. (Its specification is
  `KubeSpec`, since FleetProofs extends it beside the others.)
* **MeshInventory**: one action per tick, because only the tick touches the
  members and all its reads end within it; the nodes change between ticks.
  **FleetProofs** proves both sources.
* **BuildExecutor**: a record, a slot and a run per build, with `publishBuild`
  and `liveHolders` at the end of a run, and a restart of the process. Stamps
  are the nodes' own: `Ahead` says how far each clock is ahead, by at most
  `MaxSkew`. `liveHolders` asks the nodes the inventory lists at that moment,
  which may be any of them; `missed` (history) are the nodes a publish was not
  shown although they held an older build. **BuildExecutorProofs** proves its
  four properties.
* **Snapshots**: create, list and delete of snapshots over a listing that asks
  the nodes in parallel. **TemplateTags** EXTENDS it with the tag and delete
  requests of one built template, its record and labels on each node (`rec`),
  the published view of them (`pub`) and a publish of new builds (`pubrun`)
  beside them. The histories `acked` and `raced` say which tags of the latest
  build were acknowledged and which requests met another.
  **E2BLifecycleProofs** proves both modules.
* **WarmPool**: `reconcileOnce` pool by pool and node by node, with the status
  writes and the restarts of the driver; **WarmShares**, which it EXTENDS: the
  arithmetic of `distribute` and `apportionWarm`. A node's targets are a function
  over the keys it has pools of, as a PUT replaces the whole set. The pools,
  templates and replicas of the model are those of the manager's informer cache,
  which the driver reads: it follows the API server with a lag, so "wanted" and
  "changed" are meant by the cache. **FleetProofs** proves that a wanted pool is
  kept.
* **E2BLeases**: the calls on one sandbox. `now` is the node's clock, by which
  leases are granted and end; `left` is computed by the API server's, which is
  off by up to `MaxSkew` either way. Time is finer than the seconds the
  requests carry, since rounding is part of what is checked. An archive is kept
  forever or for `Retention` and then gone (`Expire`). `touched` (history)
  are the calls whose view of the lease another call made obsolete.
  **E2BLifecycleProofs** proves its three properties. (Their specifications are
  `WarmSpec` and `LeaseSpec`, as those modules extend several.)
* **EnvdProxy**: requests from the route to the relay: the cache of recent
  owners (`recent`, with the ticks an entry is still good for), the published
  lookup, the probe with its budget, the admission, the relay and the wake. An
  id is a sandbox and a spelling, since the cache is keyed by what was typed.
  **EnvdProxyProofs** proves its five properties.

`MC*` modules only add the symmetry sets and the values that a configuration
file cannot write. Definitions whose comment calls them mutated forms are never
used by a specification; the mutants of `PROJECT.json` put them in the place of
the definition they resemble.

## Runs

| run | bounds | what it shows |
|---|---|---|
| `index` | 5 keys, 2 nodes, 2 entries a generation | with more keys than two generations hold, the maps keep their bound, a key survives `MaxEntries` other stores (`Retained`), and the index implements LossyIndex: a lookup answers the latest node or none |
| `create` | 1 create, 3 nodes, redirects to up to 2 peers, a fork into up to 2 children | `AtMostOneDelivery` over both claims of a create; no warm candidate is left unasked; a failed create holds nothing, and 404 and 503 hide no microVM; a 201 was initialised, and is indexed, where it runs; a fork is all or nothing and its children obey their own token; every create is answered |
| `read_path` | 2 claims of one name, 2 nodes, 1 request beside claims, ends, publishes and other replicas | `ReadAfterWrite`; hits and indexed ids name the owner (`RoutedToOwner`); what a delete or a verb says is over is over, also when rows carry no claim id |
| `watch` | 2 claims over 2 nodes started in one second, 3 versions, pages of 1 or 2; own names, one name used twice, pinned | `ViewIsKnown`, no deletion the node denies, every lasting one reported, and `WalkIsExact` of the pages read before |
| `mesh` | 2 seeds and a third node, `MaxStale` 1 | `ListingFollowsAnswers` (answering nodes listed, silent ones dropped in time), named nodes found in two ticks, `MembersFollowMesh` (seeds kept, dead members forgotten) |
| `kube` | 3 publishers, window 2, skew 2, 8 instants | the fleet never empties by itself; fresh nodes stay, trailing ones go |
| `build` | 3 builds of one name, 2 nodes with clocks 1 instant apart, any of them listed, 2 slots, 3 instants (so stamps tie and swap their order) | no slot leaks and a running record is not swept (`RunningIsRecorded`); a finished build holds no microVM; the promote with the newest stamp survives; a ready build has replaced those promoted more than the skew before it, on the nodes its publish was shown (`ReadyReplacesOlder`) |
| `templates` | 2 requests of any kind, 2 holders, 2 tags, 2 builds, 1 snapshot, own or another namespace's (never both at once; the theorem is about any number) | `TagsKept`: an acknowledged tag is on every holder until its build goes, it is taken off, a delete begins or another write races it; a delete leaves none of the builds it was asked to; listings and deletes of snapshots say what is true |
| `warm_pool` | 2 nodes, 2 pools of one key, negative, small and odd replicas, 2 changes | a pool wanted throughout is never drained; a reconcile that reached every node leaves exactly what was asked; the statuses add up to what the fleet has, in proportion |
| `e2b_leases` | 2 calls of any kind, leases of 1 and 2 seconds, half-second clock, API server up to half a second ahead or behind, retention of half a second | answers are true of some moment of the call; up to the skew, a connect grants what it was asked and cuts no lease it could know of |
| `e2b_leases_race` | the same, without skew | **violation**: see findings |
| `envd_proxy` | 2 requests, 2 spellings of one id, 2 nodes, 1 cache entry, TTL 1, 1 probe | the cache keeps its bound and its age limit, admits and wakes by token only, and a live sandbox is reached, published or not |

The bounds are the smallest at which the cases the code distinguishes occur
together: more keys than an index holds, one candidate more than
`pickPowerOfTwo` draws, a redirect to a peer while a third node is warm, a name
used twice, more builds than slots and two promotes with one stamp, replicas
that do not divide by the nodes, a cache with one entry for two keys, a cursor
between two sandboxes of one second, a tag written while its build is replaced. Type
invariants are checked as a conjunct of one property of each module, or proved.
Every property has a mutant, a plausible slip in the code, that breaks it under the
same bounds, which shows that its case is reached. Counters are bounded by
named constants (`MaxClock`, `MaxTime`, `MaxBuilds`, `MaxChanges`, `MaxWarm`,
`MaxLimit`) or saturate (`Long`, `fails`, ages).
Deadlock is checked except where the system rests or the bound on time ends a
behaviour (`read_path`, `watch`, `mesh`, `e2b_leases`, `envd_proxy`,
`templates`). `warm_pool` starts from any pools, templates and nodes and
runs reconcile after reconcile, so its two changes fall into the first one or
into any later one.

### Fairness

`CreateSpec`, and `ForkSpec` with it, has weak fairness of each create's own steps (`Create(c)` and
`Routing(c)`): a handler runs in its own goroutine, and every call it makes to a
node ends, by the client's timeout if not by an answer, which `AnswerLost`
stands for. Nothing is assumed of the nodes or of the fork. `FairSpec` of Watch,
and `ListSpec` with it, has weak fairness of `runWatch`: its ticker keeps firing until the watch is stopped. All other
runs check safety without fairness.

## Findings

`e2b_leases_race` (`src/pkg/e2bcompat/lifecycle.go:117`): `connect` renews to a
number of seconds computed from a record it read before; another call that
extends the lease in between is undone, while `docs/e2b-compat.md:155` says the
timeout "never shortens" the lease. The run has `MaxSkew` 0, so the race alone
does it. `LeaseNotCut` states what does hold: a connect shortens no lease that
was not moved after it read by more than the clocks are apart.

Limits met while modelling that are not runs:

* `resolve` takes a matching published row of the indexed node before it asks
  the node (`sandboxstore_impl.go:316`). When a name is released and claimed
  again, a verb by name may go to the ended claim until its node publishes, and
  answers 404; `docs/scaling-design.md:258` asks that a verb succeed on a
  sandbox "claimed milliseconds ago". By claim id it does (`DeletedIsGone`).
* After a 307 whose named peer answered 404, `Claim` drops all the peers named,
  so a promoted claim may answer 503 with advertisers it never asked
  (`docs/e2b-compat.md:191-193`).
* A fleet watch that polls while two inventories hold one name may leave the
  client with the ended claim's object until the surviving row changes: later
  polls that find only that row, at the version already diffed, send nothing
  (`docs/usage.md:88`).
* A node that does not answer within 500 ms counts as not holding a claim
  (`sandboxstore_live.go:31`): a lookup of a live sandbox it has not published
  answers 404, and a pinned watch reports `Deleted` (`docs/usage.md:80-81`).
  `ReadAfterWrite` and `DeletedOnlyIfNotHeld` are about nodes that answer.
* `publishBuild` deletes older builds on the nodes the inventory lists
  (`builds.go:180`) and decides by stamps of different nodes (`builds.go:152`).
  An older build on a node that has dropped out stays when a rebuild is ready,
  and of two promotes closer together than the clocks are apart the earlier one
  may be the one that is kept; `docs/e2b-compat.md:219` says "a rebuild replaces
  the previous build".
* `connect` compares the node's deadline with the API server's clock
  (`lifecycle.go:115`). With that clock ahead, a lone connect may cut a lease by
  the difference, and with it behind, it may skip a renewal and leave that much
  less than was asked.
* Two tag writes that race over two holders may leave the holders with different
  maps, since each holder keeps the write that came last to it;
  `docs/e2b-compat.md:164` speaks of the later write as one. `TagsKept` is about
  tags no other write raced.
* A delete of a template that reached only some of its holders (or was answered
  500) leaves the others with their tags and the inventory naming all of them. A
  tag write that follows and reads a holder that is already empty finds no tags
  there, and writes a map without them to the holders that are left. `TagsKept`
  therefore ends with the beginning of a delete.
* A build writes its own labels after its promote, and so overwrites a tag put
  on the new record in between; a holder that the inventory does not list at the
  moment of a tag write does not get the tag; a snapshot on a node that has
  dropped out of the inventory is answered 404.

## Proofs

Eight modules of proofs hold for every value of the constants, from the
assumptions named in the modules (`NoNode` is not a node, bounds are naturals,
versions exist, ids are finite in number and distinct as strings, the values
of `spec.replicas` are integers and, being int32, finite in number, the clocks
of the nodes are at most `MaxSkew` apart and do not go back) and nothing
else. Each follows one pattern: `Init => Inv`, `Inv /\ [Next]_vars => Inv'` with
one step per action, and `Inv => P`. The inductive invariants were checked with
TLC on the runs' instances before they were proved.

* **NodeIndexProofs**. `LookupIsLatest` is not inductive: an old value in the
  retired generation is harmless only while the current one hides it, which
  `GenerationsAreLatest` says. `Retained` needs `OutsideIsOlder` and
  `ForgottenIsOld`, which tie the number of stores since a key's own to the
  number of entries stored since, by cardinality (the generations are finite
  even if the keys are not: `FiniteGenerations`). `IndexImplementsLossyIndex`
  is the refinement: a store remembers its key and forgets the retired
  generation, and a lookup changes nothing its reader can see.
* **E2BForkProofs**, in four parts.
  `AtMostOneDelivery` depends on what a call knows when it moves on:
  `Knowledge(c)` says that a call that is about to ask has nothing delivered and
  no request open anywhere (`Clean`), that while it waits only the node it asked
  can deliver, and that after a lost answer it ends.
  The second claim of a create starts from a claim that ended clean, so
  `Knowledge` survives it (`StartKeepsInv`); `CreateKnows(c)` adds that a microVM
  that lives was delivered and that a failed claim is clean unless an answer was
  lost, from which `FailedCreateHoldsNothing` and `CreatedIsInitialised` follow.
  `ForkKnows` says which children there can be at each point of a fork and how
  far each one's hand-over got; it rests on `CreatedStays`, that the assignment
  behind a 201 does not change any more.
  `WarmCandidatesExhausted` needs `Tried(c)`: every candidate dropped has said
  that it delivered nothing, and of the peers a redirect named each known one
  has said so, is being asked or is still to be asked, so that dropping them
  with the picked node (`remaining`) drops nobody unheard.
* **ReadPathProofs**. `ReadInv` says what the properties leave out: a row or an
  index entry, however stale, names a claim's own node (`RowsNameOwner`,
  `IndexNamesOwner`), a hit matches the key asked for (`HitIsOwned`), and until
  the sweep of the live nodes has asked the owner of a claim the request is
  entitled to, that node is still on its list (`HeldIsSought`).
* **E2BListProofs**, in three parts.
  `ViewIsKnown` of a fleet watch needs that a name claimed once is one row
  (`OneRowPerName`), hence that a claim's rows are its node's and one per claim
  (`RowsOfClaims`); `DeletedOnlyIfNotHeld` needs that the entry asked about is of
  a claim that was made, under the pinned name (`KnownOfClaims`, `AskedIsKnown`).
  In the middle of a walk nothing served is behind the cursor, and what every
  list held was served or is behind it (`Frontier`); a page keeps it because it
  is a prefix of what is left (`CutIsPrefix`) in a strict total order
  (`CompareIsOrder`), which the ids make of the seconds.
  Two refinements, of the composition to Watch and to PagedList, carry both to
  the composition; the run checks two sandboxes, the theorem is about any number.
* **FleetProofs**. For the Kubernetes source, `NewestIsLargest` keeps the
  cached newest stamp equal to the largest stamp held; the staleness properties
  follow from it, among them `UnstampedIsStale`, which no run needs to check
  again. For the mesh, no member's count of failed ticks is behind the silence
  of its node (`FailsCoverSilence`), a node heard in the last tick has a member
  that answered with it whichever members the fold left (`HeardHasMember`), and
  what a tick found settled it left a member (`SettledIsMember`); the fold keeps
  a least failed member, which exists because the counts are naturals. For the
  warm pools, a pool that has kept its key since the list is still to be
  resolved or is resolved to that key (`KeptIsResolved`), so every set that is
  PUT names it, whatever failed or changed meanwhile (`KeptWhileWanted`).
  `AppliedIsExact` and `StatusIsShared` follow from what a reconcile has done by
  each of its steps while nothing has changed since its lists: its lists are
  true (`PoolsAsListed`), the nodes it has put hold what the lists call for
  (`AppliedSoFar`), and the statuses it has written are shares that add up
  (`ToldSoFar`). That these are the right numbers is arithmetic over sums, for
  any number of nodes and pools. FiniteSetsExt defines a sum as the solution of
  an equation over the subsets of a set. The equation is shown to have exactly
  one solution over a finite set (`SumsExist`, `SumsAgree`), hence a sum has a
  recursive equation (`SumEquation`), any term can be taken first (`SumRemove`),
  and sums are linear, monotonic and independent of the order of summation
  (`SumLinear`, `SumMonotonic`, `SumSwap`). Each is an induction over finite
  sets without an operator as a parameter: the subsets a fact is true of are a
  set, and if they were not all there would be a smallest exception
  (`ShrinkFinite`, from the well-foundedness of the naturals). With them
  `DistributeIsEven` (the parts are the quotient, one more for the first
  `r % n` nodes, which are exactly that many: `FirstAreSo`) and `SharesAddUp`
  (what rounding down leaves over is less than one microVM per pool:
  `LeftoverIsFew`) are theorems about the algorithms alone; exchanging the sums
  over nodes and over pools (`SentIsExact`) carries the first to the fleet.
* **BuildExecutorProofs**. A slot per run is a fact about cardinalities
  (`SlotsAreRuns`); `Costs(b)` says where a build's microVM can be at each of its
  steps. `NewestSurvives` needs that a build is promoted once and that what a
  publish set out to delete stays older than itself (`TodoIsOlder`), both by
  stamp. `ReadyReplacesOlder` speaks of time. Its invariant is about holders that
  are older both by stamp and in time (`Older`): until a publish has deleted one
  it was shown, it still means to, and afterwards there is none (`Replaces`). A
  later promote brings no new one, since no stamp is beyond its node's clock
  (`Stamped`), and a promote more than `MaxSkew` older is older by both.
* **EnvdProxyProofs**. What a request is entitled to is live until it ends and a
  probe has still to ask its node (`Entitled`); a node's answer is at most a
  tick old when it is cached (`Timely`), so an entry's remaining ticks and its
  sandbox's ticks since its end never add up to more than `TTL + 1`
  (`EntriesAge`). `WokenOnlyByItsToken` and `StaleWithinTTL` are action
  properties proved from the same invariant.
* **E2BLifecycleProofs**. Snapshots: what there was at the beginning is found,
  gone, or at a node still to be asked or known to be silent
  (`BeforeIsAccounted`). Tags: builds after the first are on one node (`Marked`);
  two requests that write or delete the latest build at the same time both know
  that they race (`RacesAreKnown`), so one that knows of no race finds what it
  wrote on every holder (`Written`, `Covers`), and a write under way carries
  every acknowledged tag but its own (`Carries`, `Opens`). The run has two
  requests, the theorem any number. Leases: a call remembers no more than the
  node told it and every phase it bases its answer on is one it met (`Met`); what
  a connect read of the lease is still so unless another call touched it, and
  what it is about to ask for is no less than what was left, less the skew of the
  API server's clock (`KnowsLease`),
  because the seconds left are rounded up (`LeftCovers`) and every deadline is
  within the node's cap (`Capped`). `LeaseNotCut` and `LeaseGranted` follow for
  any number of calls, any timeouts, any number of ticks to the second and any
  skew.

Model-checked only: liveness (`CreateAnswered`, `GoneIsReported`), which is out
of the prover's reach. Every invariant and every action property of a passing
run is a theorem. `NeverShortens` does not hold (see the findings), so there is
nothing to prove of it.

## Not modelled

* Bytes: uploads to object storage, guest output, relayed streams, and the
  steps of a build inside the guest (one outcome each).
* Formatting, logging, metrics, flags, schema registration, generated code.
* Authentication of callers at the API servers; a handler starts admitted
  (except in EnvdProxy, whose subject it is).
* Uploads: an archive is written under a temporary name and renamed, or put
  into a bucket; its atomicity is the file system's or the bucket's.
* Process wiring (flags, logging, start-up; the restart of the warm-pool driver
  is in WarmPool) and API types (declarations and generated code).
* In modelled components: the steps of a build inside the guest and its logs;
  the listings of templates, which report the published view and change
  nothing; the encoding of requests and replies of the sandboxd client.
* Narrowed by bounds: TemplateTags has one template under one key and one
  publish at a time (concurrent publishes are BuildExecutor's); a label write
  that failed takes effect at once or never; a create is forked at most once,
  and the fork's answers are created, refused or failed; ids are distinct in
  the paged list, so rows without a claim id, which would tie, are outside it.

## Plan

Done, in order of importance: the index and its abstraction; claim routing with
its proofs; create on top of it, then fork on top of that, with their proofs;
the read path on top of the abstract index, for both APIs, with its proofs;
watch and the paged list, with their proofs; the two inventory sources, builds,
template tags and snapshots, the envd proxy and the leases, with their proofs;
the warm-pool driver, with the proofs that a wanted pool is kept, that an
undisturbed reconcile leaves the fleet with exactly the replicas asked for, and
that the statuses add up.

Left: liveness, which stays with TLC.
