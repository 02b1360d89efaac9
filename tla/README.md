# TLA+ models of cliproxy

cliproxy is a Go proxy that serves AI provider APIs from a pool of credentials. This
directory holds specifications of its concurrent core, the TLC configurations that check
them on small instances, and theorems that the TLA+ proof system checks for every value of
the constants. Paths below are relative to `src/`.

## 1. The system

| Component | State | Operations | Talks to |
|---|---|---|---|
| **Execution registry** `sdk/cliproxy/executionregistry` | lifecycle word, pending dispatches, scopes with their bound resource, cumulative sequence per release group, barrier | BeginDispatch, End, Install, Bind, EndWithRelease, SetReleaseSink, Drain, Close, WaitPending, ObserveBarrier, FreezeInFlight | requests own the scopes; calls its release sink outside its mutex |
| **Release flusher** `internal/home/concurrency_release.go` | latest and acknowledged sequence per group, waiters, wake and force channels, backoff | MarkDirty, SetSender, Run, flush, Flush | is the sink of the registry; sends to Home over a client that is replaced |
| **Home subscriber** `sdk/cliproxy/service_home.go` | current client, registry, flusher, generation, config queue | start, lifetime loop, detach, settle, drain, replace, last flush | composes the two above with the Home client |
| **Home client** `internal/home/client.go` | connection, membership, fence, ambiguous-dispatch flag | subscribe, dispatch, push, take over, fence | Home |
| **Credential state** `sdk/cliproxy/auth/conductor_{cooldown,lifecycle,refresh}.go` | records with per-model cooldowns, quotas, totals, tokens | MarkResult, Register, Update, Remove, ResetQuota, reconcile, cooling switch, refresh | every request; model registry; scheduler; token files |
| **Credential scheduler** `sdk/cliproxy/auth/scheduler.go` | per-model entries with state and next retry | upsert, remove, rebuild, promote, pick | keeps records of the credential state, shared or copied |
| **Auto refresh loop** `.../auto_refresh_loop.go` | heap of due times, dirty set, wake channel, jobs channel | reschedule, handle due, apply dirty, work | refresh of the credential state |
| **Cooldown persistence** `.../cooldown_state.go` | store, saved records | persist, swap store, restore | credential state, across restarts |
| **Session affinity** `.../session_cache.go`, `selector.go` | bindings, alias groups, generations, quarantine | pick, bind, rebind, merge, report, invalidate, expire | selection; results of requests |
| **Request execution and failover** `.../conductor_{execution,stream,ordered_failover,selection}.go` | per request: tried set, attempts, round or candidate, last error, first-chunk timer, open stream | pick, prepare, call, refresh, record, weigh, wait, reset, deliver | credential state and scheduler; executors; the client's context |
| **Usage pipeline** `sdk/cliproxy/usage`, `internal/redisqueue` | manager queue, plugin, retained items, subscribers | Publish, Stop, dispatch, Enqueue, Pop, subscribe, switches | requests; management API; forwarder to Home |
| **WebSocket relay** `internal/wsrelay` | sessions, pending requests | request, dispatch, cleanup, replace | executors |
| **Model registry** `internal/registry` | models and clients with reference counts, suspensions | register, unregister, suspend, resume | credential state, HTTP API |
| **Watcher** `internal/watcher` | file hashes, auth update queue | reload, dispatch | service, credential state |
| Plugin host, stores, replay caches, access control, executors, translators, HTTP API, logins, TUI | | | |

What is hard in it:

* The registry's lifecycle word moves by compare-and-swap outside the mutex its maps live
  under; sinks, resources and barriers are called or resolved after the unlock.
* Home is told cumulative numbers over a lossy connection through a client that comes and
  goes: frames are late, lost, repeated.
* A credential is written by mutators that compute a new record, let go of the lock, save
  it and store it; by others in place; and from copies made long before. The scheduler
  works on a shared or a copied record under a mutex of its own.
* A lifetime of the Home connection ends while requests dispatch over it: what Home counts,
  what runs here and what was released must agree across the replacement.
* Two requests of one session rebind it by compare-and-swap while a third, under no lock but the
  cache's, refreshes, fails or expires the same group.
* A request decides whether to try again from records that change between its own reads, with a set of
  tried credentials it carries from round to round, while its client may leave and a timer cancels it.
* Channels are closed by whoever comes first; buffers and windows are bounded; flags are
  read outside the lock they matter to.

What makes each component correct is stated by the properties in section 3;
`PROJECT.json` lists each hazard at its line with the property that covers it, or says
why none does yet.

## 2. Modules

| Module | Models | Grain of a step |
|---|---|---|
| `ExecutionRegistry` | `registry.go`, `observation.go`: all operations | a critical section of `mu`, a CAS, a call of a sink or a resource |
| `ExecutionRegistryProofs` | theorems about it | |
| `ReleaseLedger` | the promise of the release pipeline: told, known, confirmed | |
| `ReleaseFlusher` | `concurrency_release.go`, with Home and the network as external parties; refines `ReleaseLedger` | a critical section of `mu`, a channel operation, an answer of a send |
| `ReleaseFlusherProofs` | theorems about it | |
| `CooldownRules` | the pure part of the credential code: what a result, refresh, reset, merge or reconciliation makes of a record | operators |
| `CredentialState` | one credential, all its writers, and what the scheduler holds of it | a critical section of `Manager.mu`, a save, a call of the scheduler |
| `CredentialStateProofs` | theorems about both | |
| `UsagePipeline` | `manager.go`, `plugin.go`, `queue.go` and the forwarder of Home mode | a critical section, an atomic flag, a clock read, a wakeup, a close |
| `UsagePipelineProofs` | theorems about it | |
| `HomeSubscriber` | `service_home.go` with the client's fence and membership and `conductor_home.go`'s dispatch; Home is external | a critical section, an atomic flag, a call of Home, a join |
| `HomeSubscriberProofs` | theorems about it | |
| `RefreshLoop` | `auto_refresh_loop.go` and the callers around it | a critical section, a channel operation, a read of a record |
| `RefreshLoopProofs` | theorems about it | |
| `SessionAffinity` | `session_cache.go` and the selector's Pick, OnResult and quarantine | a critical section of the cache, of `bindMu` |
| `SessionAffinityProofs` | theorems about it | |
| `RequestFailover` | one request through Execute or ExecuteStream; availability, client and time are external | a pick, a call and its answer, a record, a read of the records, a wait, a timer callback |
| `RequestFailoverProofs` | theorems about it | |
| `MC*` | constants of the instances TLC checks | |

How state and actions correspond to code, module by module (`map` in `PROJECT.json` gives
the lines of every definition):

* **ExecutionRegistry.** Dispatches and their scopes are numbered as the code numbers them
  and keep their id. Each owner walks `EndWithRelease` in the order of the code (deactivate,
  close the resource and wait, count, deliver to the sink captured, delete and signal); Drain
  and Close are callers with a position; the `changed` channel is the set of callers parked
  on it. The sink is `MarkDirty`'s maximum. External: the owner's decision to end.
* **ReleaseFlusher.** Times are reduced to whether the next round is due; a send succeeds,
  or fails having reached Home, not reached it, or being still on its way. `Flush` leaves its
  context in the force channel when it gives up, as the code does. A replaced client is
  a new sender with Run stopped and started.
* **CooldownRules / CredentialState.** Models are model values and durations small
  naturals; failure classes are those MarkResult tells apart. A mutator is
  begin (compute from the current record), persist (may fail), store, publish. A failure may carry
  the code that overrides disabled cooling (`Spared`). In-place
  writers are one step. A refresh and an edit carry their copy. `Late` are goroutines that
  hold a copy for the scheduler. Credentials share locks only, so there is one. Left out:
  timestamps, messages, the observed quota headers, NextRefreshAfter, the marks in
  the model registry, the cooldown file, and a negative transient-error cooldown, which turns that
  cooldown off. A refresh that fails or is cancelled is taken not to have spent its credential.
* **UsagePipeline.** Records are numbered in the order Publish accepts them. The dispatcher
  and the forwarders share `Enqueue`, whose four steps (flag, subscribers, clock, append) are
  separate. A pop is three: the flag, the clock, the critical
  section. A channel is a record of its reader, its map entry, who still owes its close and
  what was sent into it. A push that fails may have reached Home (`doubted`). Home mode is fixed per run and excludes the management API, the
  subscriptions and the switches, which the code refuses or forces there. A heartbeat that
  is down only delays a poll.
* **HomeSubscriber.** One supervisor walks the lifetimes in the order of the code: bootstrap,
  subscribe, probe, receive, cancel, join the worker, detach, fence, settle, and then either keep
  the registry for a takeover or drain it and start over with a fresh one. Requests load the
  published bundle once and keep it, whatever the supervisor does meanwhile. An abort is three
  stores (ambiguous, fence, heartbeat), each a step. The registry and the flusher are their
  promises only: what is pending, installed and ended in each registry, and what was told and
  acknowledged. Home counts grants and releases of a membership; a fresh SUBSCRIBE forgets them.
  Assumed of Home: its configs carry a lifecycle revision above 0 (without one the SUBSCRIBE is a plain one and
  nothing is accounted for); a grant is answered with an object that carries the tuple, or the answer is
  lost in transport (an empty reply or a body that is no object is not aborted by the code and is taken for a
  denial); and no release frame of a closed connection arrives after the next fresh SUBSCRIBE, so
  a push is one step.
* **RefreshLoop.** Instants are one number per record. The loop is a position and the act it is in
  (each `queueReschedule`, heap update and channel send on its own); the wake token, the jobs
  channel, the dirty set and the heap are variables. Requests refresh under the same per-credential
  lock as the workers. A save takes the records' lock; an edit marks the loop afterwards. The write of
  `markRefreshPending` and the dirty mark of the reschedule that follows are one step.
* **SessionAffinity.** A group is the set of its aliases, so the order in which a prompt-cache key
  survives is a choice. Generations are compared for equality only and renamed accordingly. A
  request picks, in the steps of the code, then reports one result; `moved` and `disturbed` are history,
  of what others changed while one request holds `bindMu`. `disturbed` is of one attempt: every observation that
  starts one resets it, so a writer excuses the attempt it met and no later one.
* **RequestFailover.** What a request and the configuration fix is a record, `req`. A pass is one
  `execute*MixedOnce`; rounds and candidates of an ordered chain are passes with different rules for
  what is carried over. A credential is ready, blocked for a short or a long time, or blocked by an
  error no retry round is for: what `CredentialState` computes, reduced to what the request can see. The
  code keeps that per upstream model, so a failure with one model of a pool, or one candidate of a chain, may leave the
  credential available. The tried set and the caller's exclusions are two things: both pick paths honour the
  exclusions, the scheduler's and the selectors', whatever the tried set holds (`OutOfReach`).
  `steady`, `used`, `calls`, `truth` and `told` are history. An error is one of the classes the code treats
  differently; one a rule makes request-scoped is a 429, one of the statuses a rule can give. Which error the client is shown in the end is left out. So is the status of a
  termination other than 429.

## 3. Runs

| Run | Instance | Shows |
|---|---|---|
| `registry_lifecycle` | 2 dispatches, 1 Drain, 2 Close, 1 WaitPending, fair owners | a Drain that returned nil leaves nothing, a Close that returned leaves no resource open, no resource outlives its scope, nobody sleeps through a signal, Drain and Close return |
| `registry_accounting` | 2 dispatches, 2 barriers, 2 snapshots, 1 group, 2 sinks | the sink in charge is never behind, a published barrier has no older dispatch open, a snapshot misses no older execution |
| `release_flusher` | 1 group of 3 sequences, 2 client lifetimes, fair | tickets and Flush tell the truth, a wake is not dropped, every ticket completes; implements `ReleaseLedger` |
| `credential_mutators` | 2 models, 4 calls of every class of result, failing saves, reconciliation; no other writers in place, no late copies | windows survive late successes, edits, refreshes and failures of another kind; a burst climbs the ladder once; the scheduler offers a credential exactly when its record is not blocked; results stay counted |
| `credential_liveness` | 6 kinds of failure, one that overrides disabled cooling, 3 calls, 1 late writer, writers in place, fair | every cooldown ends; no refresh credential is exchanged twice |
| `credential_reset` | smallest that shows it | finding 1 below |
| `usage_pipeline` | 2 records, 1 subscriber of 2 slots, 1 caller, 2 forwarders, 1 refresh notice, 1 lost answer, a clock of 3, retention 1, fair | a record is in one place, or twice at Home for a lost answer, and lost only to a switch, the retention or a full subscriber; a subscriber is cut off rather than skipped, and no channel is closed twice; no caller gets what was past the retention when it asked; Stop drains; Home gets every record that is young enough |
| `home_subscriber` | 2 requests, 2 lifetimes, 1 config message beyond the first of each, fair | a fresh membership starts over nothing that runs; Home's count is what runs, plus what is still to be released, plus what an ambiguous client lost; a slot lost that way is given back; configs commit in order; a run that ends without error has drained and flushed |
| `refresh_loop` | 1 credential, 1 worker, 1 request, 1 edit, a jobs channel of 1, fair | no interleaving forgets a credential; the loop never sleeps past its first check; what is due is refreshed |
| `session_affinity` | 2 requests, 3 credentials, 1 conversation under a prompt-cache key and 1 identifier left over, in up to 2 groups, 1 expiry | an identifier belongs to one whole group; a stale compare-and-swap changes nothing; an attempt to rebind or merge loses only to a writer that came after its own observation, or to one of the groups named in `Immovable`, and a Pick gives up only after three such attempts or when the group is gone; the identifiers a merge dropped come back, whether it succeeds or gives up |
| `session_split` | 1 request, 2 credentials | finding 2 below |
| `request_failover` | 12 kinds of request, 2 credentials, up to 3 rounds or 2 candidates, 1 change by others, 1 failing save | each attempt is recorded once, as what it was; rounds and calls respect their limits, and no credential the caller excludes is used; no request gives up on a credential that was ready all along |

*Bounds.* They are the ids of dispatches, sequences, records, calls and the clock; each is a
CONSTANT named a bound where it is declared. Two dispatches suffice for one to be pending,
installed or counted while another is in any other state, and barriers compare two ids;
two sinks and a replay give every order of delivery. Three sequences and two lifetimes let a
late frame, a retry and a replaced client overlap; groups of releases do not touch each other but for the
wake token, and the theorems of section 4 hold for any number of them. Windows need a clock that
runs past the longest of them after the last call (in `credential_liveness`, `LastCall` and the longest
window its failures can open end before `MaxTime`). `credential_mutators` leaves out a 429 that names
no model: it renames an open window of the whole credential to an ordinary one, which
the code then treats as such. A buffer of two slots with the greeting, a record and a
refresh overflows. Two Home lifetimes are one replacement, of either kind, with a request of
each side of it. One credential suffices in `refresh_loop` because the loop handles ids one at a
time and shares only the channel, the wake token and the timer, which the one credential, a
request and an edit already contend for; with one edit, what two edits and a request do together is left to
the theorems. Three credentials are needed for a merge of two split groups
to choose a third one, and a third identifier for a merge to drop more than the fallback key. With one prompt-cache key
none is dropped by compaction, and both requests are of one conversation; several keys and conversations
are left to the theorems, as is a second subscriber. In `request_failover` two credentials with different
request-retry give a round one of them is excluded from, a third round follows two of different kinds (at once and
after a wait), and a pool of two models reaches every path between them; the settings vary one
feature or two at a time, not all together. Symmetry is used only in runs without
liveness, over values the specification compares but never orders. Deadlock is not checked
where the clock, the calls or the callers run out.

*Fairness.* Weak fairness of goroutines that are runnable, of locks being released and of
wakeups being delivered: the Go scheduler's. Owners end a scope once its resource was closed
or its Bind refused: requests are written so. A send or push that is retried for ever
succeeds in the end (strong fairness of success): Home comes back; nothing here speaks of a
Home that does not. In `credential_liveness` requests keep asking the scheduler, and time
passes. In `home_subscriber` calls of Home end, by answer or timeout, and the receive of a fenced
client fails. In `refresh_loop` a refresh returns. Nobody is obliged to call anything else.

### Findings

Each is the expected violation of one property, in a run of its own.

1. `credential_reset`: `ResetQuota` clears the current record in place while a `MarkResult` is saving a clone
   taken before; the store brings the cleared cooldowns back (`conductor_cooldown.go:986`).
2. `session_split`: "mergeSplitAliasGroupsCAS reconciles two split session alias groups ... into a single group bound to
   authID" (`selector.go:904-910`). When the fallback group is already bound to the credential chosen it is not
   deleted (`:929`), and the compare-and-replace refuses to take over its live aliases three times: the session
   stays split, without any other writer (`GivenSplit`).

Four more comments promise what the code does not do. They have no run of their own; each is stated as a formula
of its module, and TLC refutes it when it is put in place of the properties of the configuration named:

* "When the compare-and-swap loses to a concurrent writer, the group is re-observed and the binding
  retried (bounded), so the auth selected for this request is not silently dropped" (`selector.go:886-889`;
  `RebindsLoseToWriters`, `SessionAffinity_split.cfg`). When both groups of a session are bound to one credential, the
  rebind of one names an alias of the other and is refused three times, without any other writer (`Twofold`).
* `retainedF` is there against "permanently dropping the fallback group's historical aliases"
  (`selector.go:912-916`; `MergesKeepAliases`, `SessionAffinity.cfg`). When a merge that dropped the fallback group
  loses and finds the fallback identifier bound again, it takes over that group's aliases alone (`:926`); the
  others stay unbound (`Overtaken`).
* "Exhausted chains (all candidates retried pre-first-byte) fall through so cooldown and credential rotation over the full
  pool stay in effect" (`conductor_ordered_failover.go:413-416`; `ChainsFallThrough`, `RequestFailover.cfg`). Nothing
  calls that function; `Execute`, `ExecuteCount` and `ExecuteStream` return what the chain returns
  (`conductor_execution.go:71-73`, `:196-198`). `GivesUpRightly` therefore speaks of retry rounds only for
  requests without a chain.
* "Stream bootstrap errors that aren't permanent and don't carry a status are network/transport errors — treat as
  retryable pre-first-byte" (`conductor_ordered_failover.go:136-137`; `BootErrorsAdvance`, `RequestFailover.cfg`). The
  code asks the same question of the cause (`:140`), whose answer is no.

Behaviour of the code that the properties had to allow for, without a document that says otherwise:

* A record broadcast while every subscriber's buffer is full cuts them all off and is not queued: it
  reaches nobody (`queue.go:149-159`). `RecordInOnePlace` allows for it by name (`missed`).
* `LPushUsage` is tried again when only its answer was lost, so Home may get a record twice (`doubted`).
* A pop prunes by the instant its caller read before it waited for the lock; `PopFresh` speaks of that
  instant, not of the one at which the records are handed out.
* `Update` takes over `Success` and `Failed`, saves, and stores its copy; what
  `recordAvailabilityNeutralResult` counts into the old record meanwhile is lost
  (`conductor_lifecycle.go:140`).
* The same `Update` stores the token of the copy it was given: an edit prepared before a refresh, and
  a refreshed record whose save fails, bring the spent refresh credential back, and the next refresh
  sends it again (`conductor_lifecycle.go:140`). `ExchangedOnce` is therefore checked and proved
  without edits and failing saves.
* Resets and the switch of cooling close windows on purpose, also for a mutator that computed its record
  while the switch was off and stores it when it is on again; a credential that is enabled again has the quota of
  the edit that enables it. `WindowsKept` excludes them.
* `RefreshSchedulerEntry` and `syncScheduler` copy a credential under `Manager.mu` and hand it to the
  scheduler later, without `mutationMu`; a `Remove` in between is undone in the scheduler, which
  offers a credential that is gone until the next rebuild (`conductor_selection.go:157`).
  `credential_mutators` therefore has no late copies, and `credential_liveness` no removal.
* `resetRetryRoundExclusions` forgets every credential the request has tried when a round starts at
  once (`conductor_execution.go:1939`), and an ordered chain starts each candidate with an empty tried set
  (`conductor_ordered_failover.go:171`). The caller's exclusions stay: they travel with the options
  (`conductor_selection.go:82-99`, `scheduler.go:487`, `selector.go:395`, `:453`, `:751`).
* An interceptor that terminates a request ends a call; of a stream it ends only the turn
  of the credential, and the next one is tried (`conductor_execution.go:1144`).
* A result that cannot be saved ends a call that was answered, but a stream, an empty completion or a
  candidate of an ordered chain moves on to the next (`conductor_stream.go:543`,
  `empty_completion.go:1471`).
* A stop rule, or a termination, with a status of 429 or 5xx does not stop an ordered chain.
* The refresh loop drops a credential whose last error is a 401; a result that clears that error
  does not tell the loop (`conductor_cooldown.go:761`), so `NeverForgotten` excludes it.
* `RestoreAliasesIfAbsent` and `SetAliases` can overwrite part of an expired group. An entry that is left
  over still names the others, and an `Invalidate` that names it gives only those of the others
  that are live a new generation (`session_cache.go:341-372`): a group bound since is torn into two generations.
  `CompareAndReplaceAliases` compares every entry's generation with the one observed, so such a group cannot be moved
  until it is written anew (`LosesToWriters` allows it, as `Torn`); `CompareAndDeleteGroup` compares one
  entry's (`session_cache.go:413-419`), so the second part of `StaleLoses` speaks of that entry only.
* `OnResult` reads a binding and invalidates the key in two critical sections (`selector.go:1000`): a
  late failure can drop a newer binding, and a late success that knows a fallback key takes one back.

## 4. Proofs

All theorems are checked by tlapm with its SMT, Zenon and temporal (PTL) backends; the
only assumptions are the named ASSUMEs on constants, which TLC also evaluates.

**`ExecutionRegistryProofs`.** `TypeInv` (the type invariant, in which the maps hold exactly
the ids whose owner stands between adding and deleting them, and that an id not handed out
has no owner) is inductive and gives `TypeCorrect`; every other theorem uses it. Frame
lemmas say once which steps touch which part of the state. The strengthenings say what the
steps between two critical sections still owe:

* `ResourceInv`, what the step of an owner says about its resource, for
  `NoResourceOutlivesItsScope`;
* `BarrierInv`, barriers are observed in order, each at an id no later than the next snapshot
  compares with, for `PublishedBarriersSound`;
* `EmptyInv`, a closed registry is empty unless a Close closed it, for `DrainSound`;
* `CloseInv`, the scopes a Close copied cover every resource still open, for `CloseSound`;
* `BoundInv`, no call on its way carries a sequence beyond its group's counter, for `SinksCatchUp`:
  without it a late call could take a sink past the counter;
* `GroupInv`, an accounted scope stays in the map until it is counted, for the action property
  `SnapshotsComplete`.

`NoWakeupLost` and `ReleasesCountedOnce` are inductive beside `TypeInv`; `StateOnlyForward`
is an action property of the steps that write the state word.

**`ReleaseFlusherProofs`.** One invariant (`DataOK`, `Order`): every sequence on its way to
Home, in a round's batch or in a late frame, is at most what was marked, and acknowledged <=
known <= latest. With `TicketsExact` and `FlushedReachedHome` it is inductive and gives
`AcksAreKnown`, `TicketsAreExact` and `FlushReachesHome`; under it every step is a step of
`ReleaseLedger` or a stutter (`FlusherImplementsLedger`). `FlushIsPrompt` needs `RoundCovers`: a round in
which nothing failed has sent or holds everything dirty, unless a token is there or owed.
`TypeCorrect` adds the goroutines' flags and positions.

**`UsagePipelineProofs`.** `ChanInv` is the shape of one channel: in the map, or its close is owed by
one caller, or it is closed. One lemma per way of touching a channel keeps the
shape; it gives `ChannelsClosedOnce`. `SeenInv` says the same of contents: what a channel was sent is the
stretch of the log since it joined, up to the end while it is registered (`NoGapForSubscribers`). Outside Home mode the
dispatcher is the one writer of the retained items; `OneWriter` orders what waits, what it holds and
what is retained by number, and the retained items by time, so that the prefix `pruneLocked` drops is
everything stale (`PopsAreFresh`). `PlaceInv` follows a record from place to place: the places are disjoint,
and with no switch thrown and nothing too old they cover what was accepted. `ToldInv` says that a broadcast
reached a channel or is remembered as missed by one
(`RecordsAreInOnePlace`).

**`CredentialStateProofs`.** `TypeInv` types every record a goroutine holds, through one lemma per operator of
`CooldownRules`. The aggregate of a record is a least or greatest member of a set of instants; that a
finite set of numbers has one needs induction over its cardinality, and the library's induction theorems
cannot be used here, so `Reaches` proves the principle from the pigeonhole theorem of
`FiniteSetTheorems`.

* `TotalsSurvive` from `CountInv`: what a mutator is about to store counts what has been reported. Assumes
  no `neutral` in `Ops`, which counts in place (section 3).
* `RefreshesAreExchangedOnce` from `TokenInv`: the token in use is the newest whenever nobody is between
  exchange and store. Assumes no edits and no failing saves (section 3).
* `SchedulerStaysInStep` from `SchedInv`: shared or copied, the scheduler's record says of availability what the
  manager's says, and an entry foretells it until its instant. Assumes `Late = {}`: a late copy
  undoes what came in between (section 3).
* `BurstsClimbOnce`, an action property, for a non-empty set of models: what one failure does to the
  quotas (`FailModelShape`) and what spreading and aggregating then leave of them.
* `WindowsAreKept` from `SoundInv` (a recovery instant of a model is only recorded together with `exceeded`,
  without which the next failure would not respect it), `CoolingInv` and `KeepInv`: what a mutator is about to
  store outlasts the window of the record it will replace, whoever wrote that in place meanwhile. Assumes no resets, no
  switch of cooling, and that every 429 names its model.

The hypotheses on `Ops`, `Late` and `Results` are those of the runs that check the same property, and
TLC violates the property without them, for the reasons section 3 gives. In `Spec` they leave everything else as it is.

**`HomeSubscriberProofs`.** `HomeInv` is one invariant in parts, because each leans on the others: `ControlInv`
(only the current lifetime has a worker, a heartbeat and a bundle), `RequestInv` (what is pending or installed
belongs to the registry in use, what Home may still answer to its client, and a client that is past is
fenced), `FreshInv` (between lifetimes, a takeover will be asked for or the registry is unused), `CountInv` (Home's
count is what runs, what was ended and what was lost; or it is the count of a membership that the next
SUBSCRIBE makes Home forget) and `EndInv`. It gives `FreshOnlyWhenDrained`, `CapacityIsAccounted`, `RunsEndClean` and
`CommitsStayInOrder`, and the type invariant (`TypeCorrect`).

**`RefreshLoopProofs`.** `WatchInv`: a credential that can be refreshed is on the heap, or about to be looked at (`Kept`), or somebody
who cannot leave without marking it still has to (`Pledged`: an edit, a job in the channel, a worker; not a
request that waits for the lock). It gives `NoneForgotten`. `SleepInv` pairs the wake token with the dirty set and
the timer with the heap, and gives `SleepsOnTime`; that a set of instants has an earliest is carried along the
clock (`FirstInv`).

**`RequestFailoverProofs`.** `TypeInv` includes where a request can stand (`Placed`) and gives `TypeCorrect`. `AttemptInv`, what is
told and known of the attempt at hand at each position, gives `AttemptsAreSettled`. `CallsInv` (calls made and
models left add up to the pool, and one more after a refresh), `BudgetInv`, `ExclusionsInv`, `CallerInv` (no pass used a
credential the caller excludes, with a chain or without) and `CooledInv` (who is tried
or excluded, pass by pass) give `RoundsAreBounded`. `TurnInv`, `CompleteInv` (each pass that ended so that another may follow tried every
credential that was ready all along and had its turn, up to the budget) and `LastRoundInv` give
`RequestsGiveUpRightly`. Of a chain it speaks of the last candidate only: a chain ends at the first error it does not
advance on, and has no retry rounds, whatever its comment says (section 3).

**`SessionAffinityProofs`.** `Inv` adds to `GroupsClosed` what makes it inductive: an entry that is not live is
never reached from a live one, members are ids that were bound, and the ids a request still owes
(`kept`, `todo`, its observations) are its own. It gives `GroupsStayClosed`. `MovedInv` relates an
observation to the history of what changed: an entry outside `moved` is as it was observed, or is
gone with its generation not reused, and gives `StaleSwapsLose`. `Und`, one record of facts per position under `bindMu`,
says what an attempt that no writer has disturbed since its observation knows: the observation is the
group, what a merge deleted is absent, and a group that compare-and-swap could not move is one of those `Immovable` names. It
is re-established by every observation that starts an attempt, and gives `AttemptsLoseToWriters`: of every refused
compare-and-swap of a rebind or a merge, and of every way to give up, the one through
`RestoreAliasesIfAbsent` included. `DroppedIdentifiersComeBack` needs `Inv` alone: what a merge dropped and still owes is in
`kept`, and `CompareAndReplaceAliases`, `SetAliases` and the restore bind all of it but what the compaction of
prompt-cache keys takes out.

**Model-checked only.** All liveness (`CallersReturn`, `MarkedIsAcked`, `CooldownEnds`, `DispatcherDrains`, `ForwardedAtLast`,
`AmbiguityCleared`, `DueIsRefreshed`): fairness and ENABLED are outside the prover. Every safety and action property
that a passing run checks is stated by a theorem. Of the type invariants, the ranges of clocks, ladders and
windows (`TypeOK` of `CredentialState`, `UsagePipeline` and `RefreshLoop`) are not proved: the proofs use types without
those bounds. TLC finds them to hold on the instances of section 3 when they are added to a run.

## 5. Plan

Done, in this order: registry, flusher and ledger; credential rules and state; usage
pipeline; Home subscriber; refresh loop; session affinity; request failover; proofs of the safety of all of them. Left, in this order:

1. `CooldownStore`: a restart restores no window that had been cleared and loses none that was saved.
2. `WsRelay`: a pending request gets a terminal message or a closed channel, once.
3. The model registry's marks and the cross-credential choice, joined to `CredentialState`.
4. Proofs about those modules, as they come, and the ranges of `CredentialState`'s ladder.

## 6. Not modelled

The conversion of requests and answers (executors, translators), login flows, the TUI and
the command line are data or sequential; they are most of the lines of the repository. Stores and
files appear only as a save that fails. Replay caches are bounded maps under one mutex. The plugin host
loads foreign code. The choice between credentials (priority, weights, round robin) is a function of the state
modelled here for one credential; `SessionAffinity` and `RequestFailover` leave it open. Of the
request path, Home mode, model routing and the credits fallback are left out. How a session is recognised in a
request is parsing. The WebSocket relay, the cooldown file, the model registry and the watcher have
hazards of their own (listed in `PROJECT.json` without a property) and are left for later.
Memory-level data races of Go maps are
not modelled; their consequences for values are, where a step reads without the lock.
