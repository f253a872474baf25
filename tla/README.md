# profgate in TLA+

Specifications, model-checking runs and machine-checked proofs for the core of
profgate, a Kubernetes-aware pprof gateway whose optional PGO mode samples the
Pods of a Service, merges the profiles and stores the result. Several gateway
replicas do this together; nothing elects a leader, and everything they agree on
is a key of a NATS JetStream bucket written conditionally on its revision.
PROJECT.json maps every definition to the lines it models.

## The system

| component | state | operations | talks to |
|---|---|---|---|
| Publisher (`internal/pgo/publisher.go`) | reservations per Service | Reserve, Publish, ReleaseResolved | jobs bucket, caches |
| Create, cancel, read, list, download handlers (`internal/httpapi/pgo_collections.go`) | one request each | keyed create, replay, cancel, long poll, download | Publisher, jobs and artifacts buckets, caches |
| Worker (`internal/pgo/worker.go`) | local slots, in-flight entries, `stopped` | scan, claim, renew, cutoff, finish, Drain | jobs and artifacts buckets, Rounds |
| Rounds (`internal/pgo/rounds.go`) | the merge in memory | rounds, samples, Put | Pods through the proxy, Kubernetes discovery |
| Scheduler (`internal/pgo/scheduler.go`) | none beyond the slot keys | tick, consider, createSlot | Publisher, caches |
| Sweeper (`internal/pgo/sweeper.go`) | a pass counter | expire, retire, sweepSlots, sweepOrphans, sweepActive, sweepProbes, reconcileReceipts | all buckets, caches |
| Caches (`internal/pgo/caches.go`) | watched copies of jobs, active keys, slots, overrides, each with its replay marker | apply, reset, Synced, Live, Subscribe, Collections | store watches |
| Store client (`internal/natskv`) | connection, store generation, watches | Get, Create, Update, Delete, Watch, View | NATS |
| Policy (`internal/pgo/policy.go`, `internal/httpapi/pgo_policy.go`) | overrides in the config bucket | Effective, Validate, conditional writes | config bucket |
| HTTP server, admission, proxy (`internal/httpapi`, `internal/admit`, `internal/proxy`) | admission count, connections | profile, listing, drain | Pods |
| Auth (`internal/auth`) | JWKS cache, sessions in cookies | verify, refresh, login | OIDC issuer |
| Kubernetes (`internal/k8s`) | informer caches | Targets, Confirm | API server |
| CLI (`internal/client`, `cmd/profgate`) | credential cache and lock files | login, refresh, collect | gateway, issuer |
| TLS reload (`internal/tlscert`) | the current key pair | poll, swap | files |

What makes it hard: every step of a publication, a claim or a clean-up is its own
store call and any other replica may act in between; a call that answers
`ErrUnavailable` may have happened, or may still happen; replicas die between any
two calls; leases are compared on clocks that disagree; work in a merge cannot be
interrupted; and clean-up works from caches that lag.

What makes it right, per component: a Service has at most one live Collection and
is never freed under it; an idempotency key stands for one Collection and every
caller is told the same one; an ended record stays ended; what a dead replica
leaves behind is reclaimed; at most one attempt samples at a time; a drain leaves
nothing behind and returns; a Collection always ends.

## Modules

`Collections` is the abstract specification: the life of a Collection as
`unpublished`, `live`, `ended`, `forgotten`, with at most one live per Service and
at most one standing per idempotency key.

`Publication` is the protocol that implements it.

* `job`, `active`, `receipt` are the keys `job.<id>`, `active.<ns>.<svc>` and
  `idem.<hash>`, each with its revision; the state `notPublished` is `failed` with
  reason `not_published`, the one reason another component tells apart.
* `Call` is one conditional store call with its three outcomes. An `unavailable`
  one may put its write in `late`, and `LateArrival` lets it take effect at any later
  moment, if the key still allows it.
* `pub[i]` is one request or scheduler decision: the handler's receipt look-ups
  (`LookupReceipt`, `LookupRecord`, `ClearStale`), `Publish` (`PublishCreateJob`,
  `PublishCreateActive`, `PublishCreateReceipt` and its recovery, `PublishPending`),
  the loser's path (`Discard`, then the look-up of `refuseLoser`) and `withdraw`.
  `Stop` is every early return, failed read or crash.
* `agent[a]` is everyone else: `ReadRecord` and `UpdateRecord` stand for the scan's
  terminations, claims, renewals, the final update, cancel requests and the expiry
  flip, each of them a read and a conditional update at the revision read;
  `ReleaseRead`, `SweepActive`/`SweepRead`, `RetireRecord`/`DropRead` and
  `Reconcile`/`ReconcileRead` are releaseActive, sweepActive, retire with dropReceipt
  and reconcileReceipts. An agent that holds an old read is the sweeper's lagging cache.
* There is no clock: whatever the code does after a grace, a deadline or a retention
  may happen at any moment, so the safety properties need none of them.

`PublicationInv` states the inductive invariant and `PublicationProofs` the proofs.

`Lease` is one record from pending to its end, with time.

* `rec` is the record; `own[k]` the owner loop, in-flight entry and work of attempt
  `k`; `scan[r]` the visit replica `r` is in the middle of; `wkr[r]` its slots, entry,
  `stopped` and whether its drain has returned; `objects` the stored artifacts.
* A replica reads `Clock(r) = now + Offset[r]`. `Tick` never passes a timer or a call
  deadline by more than `Slack`. The code's own abort flag and the entry's cancelled
  flag have the same effect from then on and are one flag here.
* `VisitTerminate`/`VisitClaim` are the fresh read and the decision, `TerminateUpdate`
  and `ClaimUpdate` the conditional write; `RenewCall`, `RenewUpdate`, `RenewReturn`
  are the call, the store and the installation of the cutoff, between which
  `Cutoff` may cancel; `FinishGate` and `FinishUpdate` are the gate and the final
  write; `StopWork` and `DrainReturn` are Drain.

`Barrier` is the caches of one replica and the generations they are read behind.

* `conn`, `gen`, `reported` and `mover` are the connection, `client.gen`, the moves the
  observer was told of and the holder of `moveMu`; `log` is the stream behind each watched
  prefix; `watch` and `chan` are one watch's goroutine and subscription, and the entries,
  replay marker included, between it and its cache.
* `cache[k]` is one watched cache with its entries, generation and marker; `attempt` is
  the call of `Caches.Run`; `req` is a long poll from the generation it captures through
  its subscription, its reads and its wait.
* `Move`, `BumpGeneration` and `Report` are moveGeneration; `Check` to `Send` the loop of
  consumeWatcher and `GenState` to `ReopenFailed` the reopening around it; `Apply` one
  entry of a cache's consumer, with `Rebuilt` and `Pulsed` for its reset and its wake-ups.
  The specification assumes what the client's code says, that nats.go runs the connection
  callback before the connection is usable again. With `Reruns` FALSE one call of `Run`
  is explored.

`Ceiling` is the reservations of one replica; the other replicas are `Other`.

* `job` and `active` are the keys, with `late` as in `Publication`; what `Publication`
  proves of revisions is not repeated: a conditional write takes effect exactly when the
  key still is what its revision names.
* `pc[i]` is a scheduler decision or create request and `res[i]` its reservation, which is
  `held` by the request, `tracked` once it is bound to what was written, and `released`.
  `CheckLive`, `Reserve`, `CreateSlot`, `CreateJob`, `CreateActive`, `Discard`,
  `ReceiptFails`, `Withdraw` and `PublishPending` are the steps that take, bind or return it.
* `seen` is the caches: `DeliverJob` and `DeliverActive` in any order, `Cut` and `Replay`
  when a generation is lost, `Crash` for a restart, which forgets every reservation.
* `ResolveCached`, `ResolveRecord` and `ResolveActive` are the release rule, whose two
  reads are two steps. `End`, `Retire`, `FreeService` and `OtherTakes` are everyone else.
* `CeilingHolds` counts Services with a Collection that may be worked on (pending or
  running). Keys a failed publication leaves behind may exceed the ceiling for a while.

`Slots` is when a Service fires, with time.

* `slot` is the slot keys with their `retainUntil`; `pass[r]` the pass replica `r` is in the
  middle of, with the slot and period its one reading of the clock and of its cached policy
  gave; `every` and `known` the stored and the cached policy; `fired` what was begun.
* `Begin` is `consider` up to the slot, `CreateSlot` the key with its three outcomes,
  `SweepSlot` the sweep. A pass stalls at most `MaxStall`, which the five-second deadline
  of every call bounds.

`Artifacts` is the artifact bucket.

* `rec` is the records with the attempt whose object they name, `objects` the bucket, `work`
  the owner of each attempt from its Put to its final update or its discard; a Put without
  an answer may stand or arrive later.
* `swp` is a sweeper's pass with the cached jobs and the listing it began from: `ExpireDue`,
  `ExpireGone` and `FlipExpired` are expire, `Retire` is retire, `OrphanRead` and
  `OrphanDelete` are sweepOrphans. `cached` lags behind `rec` and `Deliver` catches up.
* `rd` is one request: a download, or the latest walk from the cached candidates; then the
  chunks, whose consumer may be removed and made anew between any two.
* The deadlines are choices: retention may end, and an object may be old enough, at any
  moment. A failed or cancelled outcome of an owner is one of the steps of `EndRecord`.

`Gateway` is one replica's process with the requests it serves.

* `life`, `probe`, `worker`, `stage` and `clock` are the startup flags, a call of `/readyz`
  between its check and its answer, the Collection worker, and the shutdown of `serve`: the
  delay, `Shutdown` with its bound, the cut of what is left, then the worker, the informers
  and the exit.
* `req[r]` is one request: where its handler is (`pc`), why its context ended first
  (`cause`), what the context of its own budget reports (`err`), whether the client is still
  there and what it heard, and the code recorded. `gate` is the admission gate.
* Codes are kept as far as somebody else is blamed by them: a route's own answer, a refusal,
  a timeout of the Pod, a failed stream, a client that left, a drain that cut.
* Time is counted down in ticks. A deadline that has come is honoured before the next tick
  (`Due`); at one instant everything may happen in any order.
* A `Shutdown` that fails goes on like one that drained. The read deadline of a policy
  body and a second signal are left out.

`Sampling` is the work of one attempt.

* `api` and `lists` are the Pods as the API server and the lagging informer cache hold
  them; a replaced Pod keeps its name and gets a new uid. `feed`, `sampler` and `att.out`
  are the round's job channel, its goroutines and the one result channel; `merged` and
  `manifest` the running profile and what is said of it; `cut` the end of the work context.
* `Fan` is the start of a round, with the version rule and the selection of targets;
  `Confirm`, `Fetch` and `Receives` a sampler's confirmation, its profile and the handing
  over; `Absorb` the collector; `FeederQuits`, `SamplerLeaves` and `Drains` how a failed
  round ends before `run` returns; `Sleeps` and `FinishRounds` the rest of the loop.

`Eligibility` is which Pods are targets: one listing, plain or with `explain`, reading the
Service, its slices and its Pods in turn while the Pod cache moves (`InformerMoves`). `Walk`
takes the places of the endpoints (a slice, one of its endpoints) in the order the cache
lists them and adds to the `facts` of each endpoint's Pod what it says; `Respond` attributes
and filters. `AnswerFollowsTheRules` is stated over the sets of Pods and endpoints, without
the walk.

`Collecting` is one run of `profgate collect` over the handlers of `Publication`, which it
extends: `Post` sends a create under the one key of the run, `Handler` lets a publication
take its step and, if that was its last, answer; `LoseAnswer` and `Hear` are what the client
learns, and when it sends again. `Elsewhere` is everything done to a record by others.

`SigningKeys` is bearer tokens over the issuer's key sets, with time. `held` is the set in
use, `fetch` every fetch under way or waiting for `fetchMu`, `attempt` the cooldown of the
on-demand refresh, `due` the timer; `token[v]` a verification, which keeps the set it loaded
(`ks`) when another replaces it.

`Sessions` is browser logins over replicas that share nothing but a key file: `secret` is
the file as the operator writes it, `volume[r]` and `sealer[r]` what has reached replica
`r`'s disk and memory; `jar` the browser's sealed cookies; `rotation` the documented steps,
each of which waits as long as the document says. `calls[r]` is a callback between its check
and its new session.

`Credentials` is the command line's token cache between processes: `cache` and `locks` are
its files, `file` the contexts file, which has no lock, `proc[p]` one command of one process
(login by browser or device code, a request that may refresh, logout, delete, use), `idp` the
issuer with every refresh token it rotated. A process may die between any two operations,
and a user may remove a lock file it left.

`Reload` is the files read again at run time: a certificate pair, whose halves are two reads,
and the users file, judged against the inline users. `Listing` is a walk through the pages of
a Service's Collections: `history` is the store, `applied[r]` how far replica `r`'s cache has
got, `walk` the client's cursor, filters and rows. `Policies` is the edits of an override:
`ReadETag` and `SetPolicy` are the command, `ServeRead` and `ServeWrite` the handler's own
read and conditional write, `flying` the writes that may land after their caller gave up.

The `MC` modules give the constants of the runs. Four of them, `MCReplica`, `MCSweeper`,
`MCGateway` and `MCClients`, put machines that share no state side by side: `machine` is
chosen in the initial state and only that machine moves, so the states explored are the sum
and not the product; fairness is restated for each machine while it is the one chosen.
The `Collecting` of `MCClients` has no agents, since `Elsewhere` stands for them.
`MCBarrier` and the artifacts of `MCSweeper` begin later in a behaviour of their module, in
several states each: an initial state there is one the module reaches, written down so that
the steps that lead to it need not be explored again, with the mishaps the scenario is about
still to come.

## Runs

| run | instance | shows |
|---|---|---|
| publication | 2 requests with one key, 1 agent, 1 late write | `TypeOK`, `LiveHoldsActive`, `StandingIsBound`, `AnswersAgree`, `EndIsFinal`, `ImplementsCollections` |
| publication_freed | 1 keyed request, 1 agent, 2 late writes, fairness | `NothingIsLeft`: neither an active key nor a receipt stays behind |
| replica | lease: 2 replicas one unit apart, 2 attempts, 1 late write; rounds: 3 Pods, 2 rounds of 2 targets, 2 samplers, 1 replaced Pod, pinned or not; targets: 2 Pod names, 7 Pods, 32 slice lists, 6 requests, 1 event; sessions: 2 replicas, 1 browser, 2 logins, 2 ticks, a `sessionTTL` of 1 and a `transactionTTL` of 2, 1 bad file; listing: 2 replicas, 3 records, pages of 1 and 2, 3 writes | `OneSampler`; `ArtifactIsItsManifest`, `RoundIsBounded`; `AnswerFollowsTheRules`; `EveryReplicaOpens`; `WalkIsWhole` |
| lease_life | 1 replica with 2 slots, crash and drain, 2 attempts, fairness | `SlotAccounting`, `DrainedIsSilent`, `WorkEnds` (every Collection ends and every drain returns) |
| lease_object | 1 replica, 1 late write | `CompletedHasObject` is violated |
| sampling_inflight | 1 sampler, 2 Pods, 1 round | `AtMostMaxParallel` is violated |
| barrier | 2 watches, `Run` called again after a failed open; scenarios: up with 1 request, 1 write and a drop or a recreation; up without a request, 1 write and both; starting, with a write and a drop, a write and a recreation, or a drop and a failed open; fairness | `GuardedReadIsAPoint`, `NeverLeftAsleep`, `BarrierReopens` |
| barrier_recreated | 2 watches, 1 write, 1 recreation, 1 failed open, `Run` called again | `GuardedReadIsAPoint` is violated |
| ceiling | 2 publications for 2 Services, a ceiling of 1, 1 late write, 1 outage, fairness | `CeilingHolds`, `ReservationReturned` |
| sweeper | slots: 2 replicas one unit apart, periods 1 and 3, 1 policy change, passes until 3, sweeps until 10; artifacts: 3 Collections, pages of 2, 1 mishap; scenarios: a request over two completed ones under a failed one, or 2 attempts of one beside an older completed one; fairness | `TypeOK`, `OncePerSlot`; `CommittedIsKept`, `ExpiredHasNoObject`, `LatestIsNewest`, `NoSpoiltRead`; `SweptInTheEnd` for both |
| gateway | process: 2 requests, 1 slot, limits of 1 and 2 ticks, durations 0 and 2, grace and slack 2; files: 3 certificates over 2 keys, 6 users files, 4 edits; fairness | `BlameIsRight`, `NoSilentAnswer`, `DrainCoversAdmitted`, `DiscoveryOutlivesWork`, `NothingHangs`; `LastGoodIsServed` |
| clients | tokens: 2 verifications, 2 key sets, 7 ticks, a cooldown of 3 fetches, 1 failed fetch; credentials: 2 processes, 2 contexts and the unnamed one, 3 grants, 1 mishap; policies: 2 editors, 2 bodies, 2 ceilings, 3 revisions, 1 unanswered call; collect: 1 command, 2 attempts, claims, ends and sweeps elsewhere, 1 late write | `WithdrawnIsRefused`, `CopyFollowsTheIssuer`; `SpentOnlyWhenLost`, `CacheFollowsTheUser`; `NoEditIsLost`; `CollectsOnce` |

Bounds. Two requests are what a race for a Service or a key takes; one agent
holds a stale read while the requests and a late write move. `MaxLate` bounds the writes
outstanding at once, `MaxRev` how often a record is renewed: a renewal only makes the
revision an earlier reader holds older, which the claim already does. In `Lease` time is counted in
units of the margin: `Skew` 1, a lease of 3 or 4, enough for a renewal, a lapse, a
reclaim and, in lease_life, the deadline of the latest possible claim and the end of a drain
begun after the last reclaim. Clocks one
unit apart with one unit of slack are the extreme of `ClockAssumption`: one more and
`OneSampler` fails. The identifiers of publication, and the attempts of one command, are
interchangeable, and publication and clients use that symmetry; so are the replicas of
`Sessions` and of `Listing`, in replica.
In `Ceiling` a ceiling of one and two Services is the least that can be exceeded, one of
them contended by another replica, one publication with a slot key and one without. In
`Slots` a period of three lies over slots of length one, stalls and clocks are at the
extreme of `ClockAssumption`, and time ends after the last key's retention. In `Artifacts` a mishap is a lapsed lease or a call
without an answer; one of them, an older Collection for the walk to fall back to, a failed
one above it that fills a page of two until it is swept, and a profile of two chunks are what
the properties take.
In `Gateway` two requests for one slot are the least that contend; the trace limit is the
longer one, so that a drain sized by the other is too short, and a request that was
admitted as the listener closed is told from one admitted a tick before (`ahead`).
In `Barrier` one drop with one write before and one after it is what a replayed marker
and an entry of the wrong generation take; two watches let one be current while the
other is not, and let an opening be abandoned with one of them replaying. The scenarios
combine a request with one kind of cut, since it is woken by the first; both kinds meet a
replica that is up. A recreation after a failed open is left to barrier_recreated, where
`GuardedReadIsAPoint` is false.
In `Sampling` the Pods differ by their versions only, which are taken in order; three Pods for two samplers leave one target in the feed when a round fails,
and two rounds with a rollout between them meet both halves of the version rule. In
`Eligibility` the Pods are one in each state a rule speaks of, two with a second address, and
the slices name a Pod twice, stale, with the wrong uid, or in another family. In
`SigningKeys` seven ticks see a key withdrawn and the last set that held it grow stale, with
a cooldown longer than two fetches, the case in which the bound is the sharper one; in
`Sessions` two ticks see a whole rotation, with a login begun at any point of it and a
transaction that may outlive the step that drops its key; in
`Credentials` two processes and one mishap are a refresh lost in one while the other waits
for its lock. In `Listing` two records share an instant, so that a page may end between them.
The theorems hold without the bounds of their modules, and without any bound on time.
Deadlock is not checked: all publications over, the record terminal at the end of
time, or a command that has ended, is a stop the system may make.

Fairness. In `Publication` no pass hangs (every call carries a five-second timeout),
and scans and sweeps recur for as long as a replica runs, so a read or a call that
could succeed again and again succeeds in the end; handlers promise nothing. In
`Lease` time passes, calls are answered or time out, the cutoff timer and the drain's
wait fire, and a recurring scan sooner or later gets its termination in between two
renewals; the work promises nothing, which is the point of `WorkEnds`. In
`Barrier` every goroutine that can go on does, the client reconnects without end
(`MaxReconnects(-1)`) and its callback runs; a request's own timer is not relied on. In
`Ceiling` a publication's calls carry deadlines, ticks recur, and a read that could succeed
again and again does; the scan and the sweeper end and free what was left. In `Slots`
passes end, time passes and sweeps recur. In `Artifacts` watches deliver, every record ends
(`WorkEnds` of `Lease`), passes recur and an object grows old. In `Gateway` the clock, the
process's own steps and its drain go on; clients, Pods, the API server, the issuer and the
operator promise nothing. In `Reload` both polling loops recur, each with its own ticker;
whoever writes the files promises nothing. The other modules state safety and assume no
fairness.

## What the violated runs show

* `CompletedHasObject`: `finish` deletes the object on any error of its final update.
  When that update committed without its answer arriving, the completed record names
  an object that is gone; the specification deletes it on `ErrRevisionMismatch` only.
* `GuardedReadIsAPoint`, in barrier_recreated: when an attempt of `Caches.Run` fails half
  way and the bucket is recreated before the next, no generation moves, the new attempt
  replays over the entries of the old one, and the caches open with keys that no longer
  exist, contrary to the comment on the caches and to the specification.
* `AtMostMaxParallel`: the comment on `runRound` (internal/pgo/rounds.go:310) counts a decoded
  profile per sampler. The outcome a sampler has handed over is still being merged when the
  sampler has decoded its next, so a round holds one more than that, and than the
  memory formula of docs/specs/pgo.md:394 counts.

## What else modelling showed

These are consequences of the code that no run of its own shows.

* A `collect` whose first answer was lost may be answered `429 collection_in_progress` by the
  Collection of its own first attempt: the retry is refused from the cache, or loses the
  active key, while the first publication has not bound its receipt yet. docs/specs/cli.md:913
  says that answer "means a Collection this command did not create holds the Service".
  `CollectsOnce` holds regardless: the command may be told it is busy, and there is still one
  Collection. The clause about a refused command is therefore about one with one attempt.
* The latest route reads one page of the newest records of any state (runtime.go:400 with an
  empty query, cut at `MaxListCollections` in caches.go:786) and ignores that there are more. A
  Service with a hundred failed or cancelled Collections above a completed one is answered
  404, where docs/specs/pgo.md:2792 says so "when the Service has none" and :2806 that the
  completed one before them is served. `LatestIsNewest` is about the page that was read.
* A rotation of the cookie key waits one `sessionTTL` before the old key leaves, and no check
  bounds `transactionTTL` by it (internal/config/config.go:305): with five and fifteen minutes a
  login begun just before the promotion comes back with a transaction cookie no replica opens,
  where docs/specs/auth.md:957 has the procedure leave "every cookie openable at every step".
  `EveryReplicaOpens` claims every session, and a login for one `sessionTTL`.
* A route under `/auth/` writes its header and its body one after the other and the cut is
  checked at each (internal/httpapi/auth.go:40): a drain that expires in between leaves a client
  that stayed with a status and no body, although the comment there says a route then "writes
  nothing the client could mistake for an answer". `NoSilentAnswer` allows that, then only.
* Any 4xx of the issuer but 429 deletes the credential it was answered for, whether or not the
  refresh token is still good (internal/client/refresh.go:46, and its test for
  `invalid_client`); `CacheFollowsTheUser` counts it among the ends of a credential.
* With a `jwksRefreshMin` of two fetches or less, which the configuration accepts down to a
  second, several verifications may wait for the fetch mutex in turn, and the look after it
  does not check the age of the set again: a withdrawn key is then accepted for as long as
  fetches keep failing. `WithdrawnIsRefused` states both cases.
* A token whose key was published within the cooldown of the last on-demand refresh is refused
  until the cooldown or the timer ends; `PublishedIsFound` allows it that long.
* The contexts file has no lock, so of two commands that save it the later one wins; what it
  overwrote includes the name of a context, whose cached token then stays until a command
  names it again. `NoOrphanByDelete` excuses exactly that save.
* `/readyz` reads its gates and then answers: a drain that begins between the two is answered
  200 once more, and the probe after it is not (cmd/profgate/serve.go:222).

## Proofs

`PublicationProofs` proves, for every set of identifiers, Services, keys and agents,
every assignment of keys and every bound: `TypeOK`, `LiveHoldsActive`,
`StandingIsBound`, `AnswersAgree`, `EndIsFinal` and that `Publication` implements
`Collections`. The assumptions are that the sentinels are no identifiers and that a
receipt key belongs to one Service, which holds because the key is a hash of the
principal, the Service and the header.

None of the properties is inductive: what protects a live Collection's active key is
not its current value but what every process that might delete it can still do. The
invariant `IInv` says so. `Entitled`: a record that is live, or initializing while
its publication may still make it live, holds its active key, and correspondingly its
receipt. `PubOK`, `AgentOK`, `LateOK`: every delete somebody holds or left behind
names a revision that is past, or the revision of a key whose Collection is `Released`
(or, for a receipt, `StaleDead`): ended, or given up on with no publishing write under
way. `RecordOK`: the revision of a record tells how far it is, so a conditional write
at revision 1 can only meet the initializing record.

The proof splits steps in two. A step is `Quiet` when it neither creates nor publishes
a record; then revisions only grow, nobody's entitlement grows and everything known
stays known (`PubStable`, `AgentStable`, `LateStable`). Every action but the create,
the publish and their late arrivals is quiet and is left with its own process's facts
(`PubMove`, `AgentMove`). The loud ones are proved by `LoudMove` for the one record
they touch. `StoreStep` adds that each step is one `Sound` write or none, from which
`EndIsFinal` and the refinement follow.

Of `Collecting` it proves `CollectsOnce`, for any number of attempts that carry one key (the
theorem's hypothesis, which is what `Create` sends), lost answers and late writes. `CollectInv`
adds to `IInv` where the attempts of the command are: only what it sent has begun to publish,
a loser that looks up who beat it was never published, and a refusal rests on an attempt that
is `Closed`: over, never published, and with no write left that would publish it. That at most
one attempt stands is `Entitled`: all of them share the one receipt.

`SweeperProofs` proves the two modules of the sweeper.

Of `Slots` it proves `TypeOK` and `OncePerSlot` for any replicas, offsets,
periods, jitter hash, policy changes and all time. The assumptions are the limits the
configuration enforces (a period is at least `minEvery` and at most the retention margin)
and `ClockAssumption`, that a pass writes within the shortest period and the skew margin.
`OncePerSlot` is not inductive, because the key of a slot that fired is later forgotten:
`Spent` adds that such a slot still has its key, kept for the shortest retention at least,
or is `Past`, its retention behind some replica's clock; `PassFresh` that a pass under way
began at most `MaxStall` ago. `NoPassAboutThePast` then derives from the clock assumption
that no pass under way is about a past slot.

`ClientsProofs` proves what a client carries from one request to the next.

Of `Policies` it proves `NoEditIsLost` for any editors, bodies, ceilings and number of lost
answers. The property is not inductive, since a handler compares a revision its caller read
long ago and a write may land after its caller gave up. `PoliciesInv` adds `Faithful`:
revisions only grow, so a revision read together with a value names that value for as long as
the store still has it, for the edits under way and for the writes in flight; and a create is
decided only for a caller that had read an absence.

Of `Credentials` it proves `SpentOnlyWhenLost` and `CacheFollowsTheUser` for any processes,
contexts, issuers, grants, deaths and lost answers; the only assumption about the start is
that one context at most is logged in to, since the two entries of one grant are not what
the issuer made. `CredInv` says who may touch an entry and where a refresh token is. A lock
has one holder (`Exclusive`), so the entry a process read under it is the entry it presents,
deletes or replaces (`HeldOK`). A refresh token sits in one entry, or is on its way to one in
the hands of one process (`EntryOK`, `AnswerOK`), and a token on disk is spent only if its
successor is lost or on its way to that entry; the process it is on its way with holds the
lock, so no other is presenting it. The issuer may refuse any token, good or not: an entry
leaves by a permanent refusal of that very credential, by a logout or with its context.

Of `Listing` it proves `WalkIsWhole`, for any finite set of records, replicas, page sizes and
lags. `WalkInv` says what a cursor stands for: it is the last row shown, rows come in the order
of the listing, and every record that was there throughout and was not shown sorts after it.
So a page, which is the first records after the cursor, skips none of them, and an empty
continuation means there is none left. `Page` is defined by what a sorted listing is, and that
one exists for every finite set (the assumption `IsFiniteSet(Ids)`) is a lemma.

`BarrierProofs` proves `GuardedReadIsAPoint` for any number of prefixes, keys, writes, cuts and
failed opens, under the hypothesis that `Caches.Run` is called once or no stream is recreated:
the run barrier_recreated shows it false with both. Between the store and a cache an entry is
in one of three places, the subscription, the watch's hand or the channel, and the proof reads
them as one `Pipe`. `Line` says what the pipe of a watch of the current generation holds.
Until the cache is synced (`Filling`): some entries of earlier generations, which the first one
of the current generation makes the cache forget; entries that bring the cache to the contents
the watch was opened at; the marker; the stream from there. Afterwards (`Settled`) the cache is
the stream as of one write, and the pipe carries the rest. `Ordered` and `Cuts` say that
generations only grow along the pipe and that a watch cut without notice is of an earlier one;
`Attempts` that a call of `Run` that has not opened every watch has left a cache unsynced;
`Known` is where the hypothesis is used: what an earlier attempt left is either nothing, or of
keys the stream still names, so that the replay overwrites it. The assumption on the constants
is that the marker is no key.

`LeaseProofs` proves `OneSampler`, `SlotAccounting` and `DrainedIsSilent` for any replicas,
offsets, lease, slots, attempts and late writes, from `ClockAssumption`: two clocks differ, the
slack included, by at most twice the skew margin, and a call with its slack ends well inside
a lease. `OneSampler` relates owners of different replicas,
and nothing any one of them holds says where the others are. `LeaseInv` goes through the
record: an owner that is not cut off is the owner of the current attempt; its clock is at
most `Slack` past its cutoff; the lease in the record outlasts that cutoff by the margin, also
while a renewal is on its way or its answer is; and a claim that may still land, from a
replica or from a lost call, is conditional on a revision at which nobody was at work. The
other two are about one replica's counter: `Accounts` follows the set of its owner loops,
whose cardinality changes by one with every claim, exit and crash.

Of `Sampling` it proves `ArtifactIsItsManifest` and `RoundIsBounded` for any number of Pods,
rounds, targets, samplers and replaced Pods. What is merged was selected from a cache that
lags, confirmed later and read later still, and the counters are sums over outcomes that
arrive in any order. `SampleInv` says why neither goes wrong. A uid is one Pod's, in the
cluster and in the cache, and is never given again (`ClusterOK`, `Old`), so the Pod that
still has a selected uid is the one that was listed and runs the resolved version
(`Pinned`); and a target of the round is in one place at a time, in the feed, with one
sampler, received, or in the manifest (`PlacesOK`, `RecordedOK`), so its entry is new when
it is counted. `CoverOK` adds that every round behind has a sample.

Of `Eligibility` it proves `AnswerFollowsTheRules`, for any finite set of Pod names, any Pods,
slice lists and requests, and any number of informer events. The assumptions are that an
object has a uid, that no Pod lists an empty address, and that an endpoint names a Pod. The
property compares a walk, which keeps the first address it met and forgets the rest, with
rules over sets. `ElInv` says what the walk knows at every moment: the facts of a selected Pod
are what the endpoints `Met` so far say of it (`Sums`), and nothing is known of any other uid
(`Told`). `NotedSums` is the one step of the walk, for an endpoint in any order; `Decided`
derives from `Sums` that a Pod is a target exactly when the rules admit it and that its
attributed reason is the first of the table that holds. That the counts add up is
`CountsAddUp`: the sizes of the classes of a finite set sum to its size. A listing without
explain reads the live cache, so nothing is claimed of one during which a Pod changed.

`CeilingProofs` proves `CeilingHolds` for any finite set of Services, any identifiers, ceiling,
lost answers, lost generations and restarts. The ceiling is checked against what a replica
knows, its reservations and its caches, and what matters is what there is. `CeilingInv`
closes the gap: every publication that is live, or that a write under way or left behind may
still make live (`Entitled`), is `Known`: reserved, or shown by the caches in use; and the
Services `Loaded` that way are at most the ceiling. A reservation is let go only after two
reads, and the proof is that what the first read showed is still true at the second.

Of `Artifacts`, `SweeperProofs` proves `CommittedIsKept`, `ExpiredHasNoObject`, `LatestIsNewest` and
`NoSpoiltRead` for any Collections, attempts, chunks, page sizes, requests and mishaps. A sweeper, a
request or a delete that was lost acts on something it learned earlier; the invariant says of
each such thing which *stable* fact it was: the object is `Sealed` (no Put can bring it back),
`Gone` or `Doomed`, the record is `Over`, the attempt `Finished`. `Evolves` is what every step
does to records, objects and work, and each stable fact is shown once to survive it; what is
left for an action is its own process.

`AuthProofs` proves three things about what proves who a client is.

* `EveryReplicaOpens`, for any replicas, browsers, logins and TTLs: a replica is at most one
  step of the rotation behind the file, a cookie sealed with the new key exists only once every
  replica opens it, and when the old key leaves, every session under it has expired and every
  login under it is a `sessionTTL` old.
* `CopyFollowsTheIssuer`, for any verifications and key sets, keys published again included:
  the fetches exclude each other, the answer under way is at least as new as the copy in use,
  and a verification that may be refused has seen a fetch that began after its key was out.
* `WithdrawnIsRefused`, for any intervals. The look after a refresh does not check again how
  old the copy is, so the bound rests on how long a verification can wait for `fetchMu`. With a
  cooldown longer than two fetches (`jwksRefreshMin` is a minute by default and a fetch at most
  ten seconds) that is behind one other fetch at most. With a shorter one more may queue, and
  what bounds the wait is that a fetch which succeeds swaps the copy: since the copy of a
  waiting verification was swapped in, only fetches that failed have passed.

`GatewayProofs` proves `BlameIsRight`, `NoSilentAnswer`, `DrainCoversAdmitted` and
`DiscoveryOutlivesWork` for any requests, limits, durations and timeouts. `RequestOK` ties the
cause of a request's context to what happened: to its client, its budget, the drain, with the
one exception that a stream's own write deadline ends it without any of them; a status
without its body has been heard only in a process whose drain has expired. `StageOK` says
that in a closing process the budget of every request that was ahead of the listener's
closing ends before the drain's bound does. That takes `BudgetGrace` at most `DrainSlack`;
both are thirty seconds in the code, two constants in two packages, and `GatewayAssumption`
records it.

Every invariant and every action property of the passing runs is proved. Only model-checked are
the liveness properties, which are out of the prover's reach: `NothingIsLeft`, `WorkEnds`,
`NeverLeftAsleep`, `BarrierReopens`, `ReservationReturned`, `SweptInTheEnd`, `NothingHangs` and
`LastGoodIsServed`. The places where a proof would need an induction over data use the least
number principle instead (`WFMin` over the natural numbers), which no prover has to instantiate
with an operator.

## Not modelled

Cryptography and password hashing, HTTP parsing and the route table, JSON layout, Kubernetes
API traffic, the arithmetic of the profile merge (a library's), configuration parsing,
preflight, metrics, the UI and the deployment chart. Of the sweeper only `sweepProbes` is
missing: it deletes what an interrupted preflight left, by age alone. The assumptions of the
modules are inequalities the configuration enforces or constants of the code keep, besides the
clock assumptions, which are about the environment. The
components table of PROJECT.json says for each part what is left out of it.

## Plan

What could be added: the token bucket, the order in which parameters are refused, the
limits of the configuration, as operators checked against reference definitions.

A run answers one question; machines that share no state share one.
