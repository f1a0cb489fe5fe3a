# A verification of the dhub2 Kubernetes dashboard

dhub2 shows the state of many Kubernetes clusters in a browser. This directory models the parts of its
backend in which order, failure and concurrency decide whether the screens are right, and the pure functions
on which what a screen says depends. TLC checks the models on small instances; TLAPS proves the central
theorems for every size.

References to code are paths under `src/`; a bare file name is under `src/apps/api/internal/`:

| short | path |
|---|---|
| `registry.go`, `grpc.go` | `clusterstate/registry/registry.go`, `clusterstate/transport/grpc.go` |
| `remote_catalog.go`, `grpc_registry.go`, `remote_provider.go`, `query.go`, `normalize.go`, `projection.go`, `usage_store.go` | `clusterstate/` |
| `catalog.go`, `search*.go`, `index.go`, `recent.go`, `cursor.go`, `detail.go`, `dryrun*.go` | `resourcecatalog/` |
| `stream.go`, `alerts.go` | `stream/` |
| `provider.go`, `server.go`, `handlers.go` | `httpapi/` |
| `alertmanager.go`, `upstream.go` | `datasource/alertmanager/`, `datasource/upstream/` |
| `session.go`, `jwks.go`, `userinfo.go`, `roles.go` | `auth/` |
| `sse.ts` | `src/apps/web/src/api/sse.ts` |
| ADR n | `src/docs/adr/000n-*.md` |

## 1. The system

```
 agent of cluster A --Sync--+                                +--Watch--> API replica 1 --SSE--> browsers
 agent of cluster B --Sync--+--> central registry (memory) --+--Watch--> API replica 2 --SSE--> browsers
                                   |  computes one screen                   |  |  |  |
                                   +--------------Query--------------------> screens  |
  informers of one cluster ----> read model, resource explorer ---------------^       |
                                        Alertmanager, Greptime, Quickwit <--+  |      +--> dashboards (SQLite, PostgreSQL)
                                                   (behind circuit breakers)   +--> Redis (sessions, query cache)
```

| component | state | operations | interacts with | what is hard | what makes it correct |
|---|---|---|---|---|---|
| central registry (`registry.go`, Sync half of `grpc.go`) | per cluster: live and staged snapshot, queued deltas, session generation, times; one byte counter | Hello, Begin, Chunk, Commit, Delta, Heartbeat, disconnect, prune | agents, Watch handlers | an old handler runs beside its successor; deltas during a snapshot; a budget without a common lock; a restart forgets all | one owner per staged snapshot; versions only grow; queued deltas are replayed; bytes charged = bytes kept; abandoned state is released |
| watch feed, replica catalogs (Watch half of `grpc.go`, `grpc_registry.go`, `remote_catalog.go`) | queue, version sent, replica's catalog and staging | Subscribe, send snapshot, forward, apply, reconnect | registry, screens | notifications queued while a snapshot is sent; overflow; broken streams | a catalog is one real version, never goes back, and converges |
| change signals (`stream.go`, `httpapi/stream.go`, `sse.ts`) | ring, subscriptions, counts; Last-Event-ID | Publish, Subscribe, deliver, drop, Close | pollers, informers, browsers | replay beside publishing; slow browsers; restarts | complete replay or reset; everyone is told |
| alert poller (`alerts.go`) and alert lists (`alertmanager.go`) | last complete list | poll, diff, publish; normalise, group | Alertmanager, hub, pod catalog | over-long lists; alerts that move between namespaces; ambiguous uids | every scope is told; groups do not depend on the order of the list |
| circuit breakers (`alertmanager.go`, `upstream.go`, `metrics.go`) | failures, open-until, half-open claim, generation; gauge | allow, finish, abort | upstreams | late answers; cancelled probes; notifications out of order | one probe decides; a recovered upstream is used again |
| query cache (`cache/cache.go`) | L1 with LRU, Redis value and lock, cooldown | Fetch | Redis, data sources | two instances, locks that expire, lost answers of Redis | a lock is removed by its owner; nothing is used beyond its life; every call returns |
| browser sessions (`session.go`) | records, locks and indexes in Redis | login, refresh, logout | identity provider, Redis | two tabs and one rotating token; two clocks | logout is final; no spent token is kept; a live session is indexed |
| keys, roles (`jwks.go`, `userinfo.go`, `roles.go`) | key set; role cache | lookup, refresh; map to scopes | identity provider | overlapping refreshes, slow answers | the current key is accepted; roles are not used too long; a role shows its namespaces only |
| query protection (`queryprotect/protect.go`) | buckets, permits | admit, release, evict | handlers | refunds and evictions while requests run | what runs is what is counted |
| usage store (`usage_store.go`, `usage_poller.go`) | a map of readings per cluster, reservations | update | metrics API, catalog | pollers of all clusters share limits | totals and peaks hold |
| dashboard drafts (`dashboard/`, `httpapi/dashboard.go`) | drafts, revisions | create, clone, save, submit, approve, delete, list | SQLite, PostgreSQL | two editors; two statements | no lost update; caps hold; lists are complete |
| read model (`query.go`, `normalize.go`) | informer caches | every answer to a screen | Kubernetes | pure, but large | direct and central answers agree |
| screens (`httpapi`, `projection.go`, `remote_provider.go`) | cache of answers | open, answer | agents, registry, roles | a screen is asked for twice with two clocks and two scopes | the same sections both ways; nothing beyond the roles |
| resource explorer: life of an entry (`catalog.go`) | informers, state, published list | discover, start, stop, publish, close | Kubernetes | stopped informers that still report | nothing outlives its informer |
| resource explorer: index (`searchdelta.go`, `searchindex.go`, `searchtree.go`) | queue, stale marks, ledgers, trees, generations | batch, publish, recover, rebuild | informers, walkers | four actors and a compare-and-swap; budgets | the index is what a rebuild gives; only rebuilds forget; the ledgers are right |
| resource explorer: requests (`search.go`, `index.go`, `recent.go`, `detail.go`, `dryrun*.go`) | cursors, limits | search, list, detail, review | index, Kubernetes | the index moves between two pages; the object between two reads | walks are complete; a review compares one object with itself |
| cluster-state agent (`cmd/cluster-state-agent/main.go`, `store.go`, `observe.go`) | informers, token, what the session has sent | Hello, snapshot, deltas, heartbeat, rotation | Kubernetes, registry | changes while it reads or waits; lost answers; restarts of either side | the registry follows the cluster; no epoch names two versions |
| TLS identities, query builders, demo data, configuration, process, web screens | little or none | | | | |

`PROJECT.json` names the source files of each component and says what is modelled of it. Its "hazards" are the
reason for the properties: each names the line where it bites and the properties that would catch it.

## 2. The modules

| module | models | checked in |
|---|---|---|
| `CatalogSource` | what the registry promises its readers: one versioned catalog, one notification per change | abstract specification |
| `ClusterRegistry` | registry and Sync handlers of all clusters; implements `CatalogSource` once per cluster (`Source(c)`) | `MCClusterRegistry` |
| `SnapshotDeltas` | `ClusterRegistry` with the history of acknowledged deltas | `MCClusterRegistry` |
| `AgentSync` | the agent of one cluster and its session | `MCServices` |
| `WatchFeed` | Watch handlers, streams and replica catalogs over a `CatalogSource` | `WatchFeed`, `MCServices` |
| `StreamHub` | hub, SSE handler and browsers of one cluster | `MCServices`, `MCStores` |
| `AlertPoller`, `AlertGroups` | the differences of two alert lists as signals; what becomes of one list | `MCStores` |
| `Circuit`, `AlertCircuit` | what a breaker promises; breaker, slots and gauge of Alertmanager, which implement it | `MCServices` |
| `UpstreamCircuit` | breaker and gauge of the shared HTTP client | `UpstreamCircuit`, `MCStores` |
| `QueryCache`, `LocalCache` | one key over several instances and Redis; the memory of one instance | `MCServices`, `MCStores` |
| `SessionRefresh`, `SessionIndex` | refresh and logout of one session; caps over all sessions | `MCStores` |
| `ProviderKeys`, `UserinfoRoles`, `QueryGuard` | keys, roles, query protection | `MCServices`, `MCStores` |
| `UsageStore`, `DashboardDrafts` | readings of pods; drafts over two databases | `MCStores` |
| `ClusterReadModel`, `CentralScreens` | every answer of the cache to a screen, as operators; the screens read directly and through the registry | `MCScreens`, `MCStores` |
| `CatalogLifecycle` | discovery, informers and state of one kind | `MCServices` |
| `SearchDelta` | queue, batches, recoveries, rebuilds and ledger of the incremental index | `SearchDelta`, `MCClusterRegistry` |
| `PartIndex`, `PostingTree`, `RowDirectory` | what a batch does to a partition; the two B+trees | `MCStores`; `PostingTree` alone for one run |
| `SearchLeases` | generations of the index and who pays for them | `MCStores` |
| `Tokens`, `ResourceSearch` | order of tokens; the paged search | `MCStores` |
| `ResourceList`, `ReviewDiff`, `ObjectReview` | lists and recent items; the diff of a review; detail and review | `MCStores` |
| `Stores` | the ten parts of the API process that keep and count something, with what they promise together | `MCStores` |
| `ClusterRegistryProofs`, `WatchFeedProofs`, `AgentSyncProofs`, `StreamHubProofs`, `AlertCircuitProofs`, `ExplorerProofs`, `StoresProofs` | theorems, each about the modules it extends | |
| `SumLemmas` | sums over a finite set when one value changes, comes or goes; folds along a sequence; sorted lines | |
| `MC*` | the constants that TLC checks with | |

The registry and its readers meet at `CatalogSource`: `ClusterRegistry` is shown to implement it
(`ImplementsSource`, checked and proved), and `WatchFeed` is checked against any source of that kind that
is fed as `Fed` says, which `AgentSync` shows of the repository's agent (`FeedsAsAssumed`). So no run has to hold agents, registry and replicas at once.
The parts of the explorer meet in the same way: `SearchDelta` takes an index to be the set of objects it knows,
`PartIndex` shows that what a partition asks of its trees is what a build would ask, and `PostingTree` and `RowDirectory` that a tree holds what was asked:
after any batch while it is one leaf, and after batches of one operation when it has several. After a batch of several operations on several leaves it may not (`tree_batches`).
`PartIndex` calls such a tree `astray`, and `IndexIsRebuild` says nothing of what it holds from then on. A leaf takes 256 entries and a row has
usually three postings or more, so this is the fate of most partitions of more than some 85 rows: of those the property keeps the rows, slots and counts as long as the tree of rows is not astray, and the directory.
`ResourceSearch` searches an index that is what a build gives, so `SearchIsExact` does not speak of a partition that is astray. `CentralScreens` extends `ClusterReadModel` and takes the registry's copy to be the projection of the agent's cache.

`MCServices` and `MCStores` hold parts that share nothing: the variable `which` says which one runs and the
others stay where they began. Their behaviours are those of each part alone; together they need one run.

### How state and actions correspond to the code

Every definition and the lines it models are in `PROJECT.json` "map". What to know before reading the modules:

**ClusterRegistry.** `live`, `staging`, `pending`, `pendingBytes`, `connected`, `generation` are fields of `clusterEntry`;
`silence` stands for its time stamps; `totalBytes` is the atomic counter. `stream[c][g]` is the Sync handler of session `g`: the code takes
the cluster's lock once for the ingress check and again for the frame, so an `"admitted"` handler may find itself
preempted. `commit` is several steps under the lock (`BeginCommit`, `ReplayDelta`, `FailCommit`, `EndCommit`), `committing` is the
lock. A charge of bytes (`reserveBytes`, compare-and-swap) is a step of the action that makes it.

**AgentSync.** `at` is where `syncOnce` is; `token` is the channel `changes` with its capacity of one; `unheard` counts the handlers of the
informers that have not run. An exchange is one step, or `LoseAnswer`: the registry may have acted, the agent does not know. `delivered` is the map
`current`, with the deltas of the loop under way already in it (when one fails, the session and the map go). An object stands for its kind, so `ReadKind` is one list of `SafeProjection`.

**WatchFeed.** `feed`, `queue` are the subscription; `handler`, `sent` the local state of `Service.Watch`; `wire` the gRPC stream;
`catalog` the entry of `RemoteCatalog`, with the guards of `Apply` in `Accepts`. `Forward` has one disjunct for each branch of the
loop (`grpc.go:241-294`). `life` and `history` are history variables; `settled` marks the point from which liveness looks on.

**StreamHub.** `Publish`, `Subscribe`, `CloseSub`, `Shutdown` are the methods of `stream.Hub`; `Deliver`, `EndOfStream`, `Break` the SSE
handler; `Told` is what `sse.ts` does with a signal's ID. `owed` is a history variable: what a client has a right to and has not been told.
`Missed` is the loop of `Subscribe` over the ring.

**Circuits.** A call is a small process: `Enter` (first `breakerAllow`), `Acquire` (slot), `Recheck` (second), then `Succeed`, `Fail` or
`Cancel`. The gauge is set after the unlock, so notices arrive in any order. `UpstreamCircuit` has no slots and no generation in its permits.

**QueryCache, SessionRefresh.** Each Redis call is a step that may succeed, fail without effect, or fail although it took
effect. Locks carry their owner and their remaining life. A flight belongs to an instance; calls join it and may leave it.

**LocalCache.** The loop that removes the back of the list while a limit is passed is written as what it leaves: the longest recent part of the list within
the limits (`Evict`).

**SessionIndex** counts time in halves of a second, because scripts mix seconds and milliseconds. **DashboardDrafts** has one
step per statement of the database.

**SearchDelta.** The callbacks of the informer (`Notify` and its overflow), the list loop, the delta loop and discovery are processes;
the state between an unlock and the next lock is in their program counters. Budgets are the set `tight` of those that refuse now.

**PartIndex.** `slotOf` and `posts` are what a partition asks of its two trees, `trie` and `free` are its slots. `wide` and `astray` are history variables of a partition (see above);
`TreeLeafMax` is where a tree gets its second leaf.

**AlertPoller.** `upstream` is what Alertmanager would list, with the label and the claimed uid of each alert; `snapshot` is that of the poller. A screen's signals follow the namespace that the catalog gives
the uid (`trustedAlertEntity`), its list the namespace label (`handlers.go:553`). `screens` is what each scope listed when it was last told; a screen lists at once when it is told.

**ObjectReview.** `live` is the version that the reading found, `on` the one that the API server had when it answered. It merges the patch before it compares versions, so a rejection may come
whatever the object has become (`DryRunPatch`).

**ResourceSearch, ResourceList.** A request is one step, because it works on one immutable index; the world moves between two
requests. The two indexes of a search (array and persistent) are both computed and compared (`PathsAgree`).

**CentralScreens.** `Question` is a screen, its names and its range; `mode` is direct or central. `OpenScreen` is `withProvider` up to
the answer of the registry, `AnswerScreen` is the handler, and the clock moves between the two. The answers of both modes are records of
sections; `ScreensAgree` compares them.

## 3. The runs

| run | question | instance | result |
|---|---|---|---|
| `registry_sessions` | do interleaved handlers, failed commits, expiry and restarts keep ownership, versions and the promise of `CatalogSource`; is abandoned state released? | 1 cluster, 2 sessions, 2 epochs, 2 deltas | holds |
| `registry_deltas` | does a commit replay every delta queued for it; do the byte counter and limits stay right when two clusters charge one budget; does the incremental index lose nothing that no rebuild makes up for? | 1 cluster, 2 epochs, 2 deltas queued; or 2 clusters, weights 4 and 8, cluster limit 9, total 12; or 1 key of the index, 2 or 3 events | holds, 1.1 M states |
| `feed_replicas` | is a replica always at one real version, and never goes back; are late frames the only ones refused? | 1 replica, 2 epochs, queue 3, wire 1, one restart | holds, 8.2 M states |
| `services_progress` | do agents, replicas, browsers, calls, keys and catalog entries get on? | the seven parts of `MCServices` | holds, 145 k states |
| `stores_safety` | do the 22 parts of `MCStores` answer right, count right and lose nothing? | see the cfg | holds, 1.1 M states |
| `snapshot_acked` | is every delta acknowledged during a transfer in the committed state? | as `registry_deltas` | **violated** |
| `feed_expiry` | does a replica learn of an expiry? | smallest | **violated** |
| `upstream_probes` | one probe at a time? | 3 callers | **violated** |
| `tree_batches` | is the tree right whatever batch comes? | batches of 2 | **violated** |
| `delta_lost` | is a change tracked until it is in the index? | 1 key, 3 events | **violated** |
| `delta_ledger` | is the ledger of held events exact? | 1 key, 3 events | **violated** |
| `screen_events` | does a central screen with a preset range show its events? | 4 worlds, clock of 2 | **violated** |

What `services_progress` checks: `ReplicasConverge` (a replica ends with the live version), `EveryoneIsTold` (a browser is told of all it is owed or reset),
`ImplementsCircuit`, `RecoveredIsUsed` and `GaugeAgrees` (Alertmanager), `EveryCallReturns` (query cache), `CurrentKeyIsAccepted` (the provider's
current key is accepted in the end, forged names or not), `NothingOutlivesItsInformer` and `ServedIsListed` (explorer), `RegistryFollows`
(the registry ends with the present state of every announced object) and `FeedsAsAssumed` (agent).

What `registry_deltas` checks: `WithinBudget` and `BytesAccounted` (registry), `QueuedSurvivesCommit` (what a commit replays),
`OnlyRebuildsForget` and `ReservationsCovered` (incremental index, which shares nothing with the registry: `which` says what runs).

What `stores_safety` checks, by part:

| properties | parts |
|---|---|
| `NothingSkipped`, `ResumeIsCompleteOrReset` | signals |
| `LockIsKept`, `NothingIsUsedTooLong` | query cache, roles |
| `SessionsAreRight` | sessions |
| `NoLostUpdate` | drafts |
| `CountersAgree` | memory of the cache, generations of the index, running queries, drafts per user, probe of a circuit, readings of pods |
| `AlertsAreRight` | alert lists and what screens know of them |
| `TreesAreExact`, `IndexIsRebuild` | trees, partitions |
| `SearchIsExact` | search |
| `ListsAreExact` | lists of objects and of drafts |
| `ReviewIsExact`, `AnswersAreOfWhatWasSeen` | reviews |
| `ScreensAgree`, `NothingBeyondRoles` | screens |

### Why these bounds are enough

* Registry: two generations give one preemption, with the older handler anywhere; two epochs a newer, an equal and an older
  snapshot; two sequence numbers a duplicate, the next delta and a gap. A third cluster would only add a term to the budget's sum.
  With two clusters, one holds resources of weight 8 only, so that the budget always binds; two deltas wait at once when they are of one epoch or of one number.
* Feed: a queue of 3 with one frame on the wire gives overflow, drain after overflow, notifications overtaken by a snapshot, and a delta that outlives the state it is about.
  Replicas share nothing but the limit of subscriptions, so one is checked. The run of liveness has one resource, that of safety also one whose kind replicas do not keep.
* Agent: three changes or failures in any mix: a change during the reading of the kinds, a lost answer, a restart of either side. A pod is announced, a node is not.
* Signals: a ring of 1 with two signals puts the oldest retained signal on either side of a returning client; that longer ones
  change nothing is proved (`NothingIsSkipped`, `ResumesAreCompleteOrReset`).
* Circuits: three callers give a late ordinary call beside a probe and one that waits for a slot; a threshold of 2 a failure that does not trip.
* Query cache: two instances with a caller each compete for the lock (`stores_safety`), two callers share the flight of one instance
  (`services_progress`); lives of 2 ticks end during a wait. Sessions: two tabs, three versions of a record.
* Drafts: two pages edit drafts of one author while a third lists pages of one; both databases' rules are in `Postgres = TRUE`, whose
  statements interleave more than SQLite's.
* Partitions: three names in one namespace, one in two others, four events in batches of two. A tree of postings gets its second leaf with the ninth posting, so some partitions
  go astray and most do not; a tree of rows gets it with the third row, and four events are not enough to lead it astray. The theorem has no such limit.
* Trees: batches of up to three postings or two rows while a tree is one leaf. Leaves of 2 or 3 and fanout 4 give splits, joins, borrowing and three levels with 10 postings; rows of weight 0, 1 and 3 against a cap of 4
  give rows that do not fit and later ones that do.
* Incremental index: one key, one place in each queue and up to three events (two under pressure) give every order of overflow, batch, recovery, rebuild and restart
  of one object; budgets are refused one at a time. Two keys were checked while the module was written and showed nothing else.
* Search and lists: four objects in two kinds and two namespaces, pages of one row, two rows scanned; every initial content is checked.
* Reviews: all pairs of 64 objects that differ in identity, annotations, a volatile field and 15 specs.
* Screens: a world with an ongoing roll-out and one with stuck pods, five questions, roles from none to admin. Worlds avoid the differences
  named in section 4, so that what is left must agree.
* Alerts: one alert labelled with a namespace and one without, a uid of that namespace that the catalog learns and forgets, a second namespace, and a limit that the two together exceed.
  An alert that the catalog never backed, and whose change its screen misses, is among the states. Groups: all lists of up to three of eleven alerts against four catalogs and four targets. Usage: two clusters, three uids; each of the six limits binds.

Counters such as `MaxGeneration`, `MaxEpoch`, `MaxSeq`, `MaxLife`, `MaxSignals`, `MaxEvent`, `MaxRotation`, `MaxToken`, `MaxRevision`, `MaxScreens` only end the
exploration. Ages saturate when every window has passed. `VIEW Unread` (`registry_deltas`) leaves out `change` and the silence of a cluster without a session,
which no action reads.

Deadlock is checked for the registry (`registry_sessions`). The other cfg files say `CHECK_DEADLOCK FALSE`: a system whose bounds are used up, or in which
everybody is up to date, or that was closed, really stops.

### Fairness

* `FairSpec` (registry): a Commit that holds the lock goes on; the pruner runs on a ticker (`cmd/cluster-state-registry/main.go`) and gets the
  mutex however often agents take it (Go's mutex does not starve a waiter, hence `SF`); time passes. Nothing is assumed of agents.
* `FairFeedSpec`: a handler with something to send sends it, a replica reads, and redials for ever (`StartWatch`). Breaks are not limited before `settled`.
* `FairStreamSpec`: handlers run and a browser without a stream dials again.
* `FairAlertSpec`: every call ends (it has a deadline); a waiter of a Go channel gets its slot (`SF`); callers come again (the poller does).
* `CacheFairness`: callers join, flights go on or give up at their deadline. `ProviderKeysFairness`: time passes, requests with the current key come
  and are answered now and then.
* `CatalogLifecycleFairness`: the loop, an informer and Close take their steps; tickers fire; an informer with an event reports it (`SF`, as others share
  the lock).

* `AgentSpec`: the loop, the informers' handlers and the tickers run; a token is taken when the agent waits for one (`select` picks among what is ready at random).

`ServicesFairness` is the conjunction of these, asked of the part that runs: as `which` never changes, fairness of a disjunction
of one action per part is fairness of the action whose part runs.

## 4. What the violated runs show

Each checks one sentence of the repository against what the code does; the quotes are in `PROJECT.json`.

* `snapshot_acked`: while a snapshot of a new epoch is staged, a delta is compared with the sequence number of the *old* live state
  (`registry.go:629`), and a smaller one is acknowledged and dropped. The repository's agent sends none between Begin and Commit; the protocol allows it.
* `feed_expiry`: a stream opened on a cluster without state sends only a RESET (`grpc.go:197`), which keeps the old catalog available. A replica
  whose stream was down at the moment of expiry shows the old state for ever, where ADR 10 says the cluster becomes unavailable.
* `upstream_probes`: a failure of a call admitted before the circuit opened clears the claim of a probe under way; after the cooldown
  a second probe starts beside it (`upstream.go:385`).
* `tree_batches`: a batch is cut by child before the children are rebalanced; when a rebalance moves a fence, the rest of the batch goes to the wrong
  child (`searchtree.go:654`). The tree of rows deals its batch out in the same way (`searchtree.go:1164`) and goes wrong too when `RowDirectory` is let do it.
  `stores_safety` checks both trees with batches of one, and with larger ones while they are one leaf; these are right.
* `delta_lost`: a recovery publishes what a list showed over an index that already has a later event (`searchdelta.go:2638`).
* `delta_ledger`: an overflow while a recovery collects its batch gives held events back to a queue about to be replaced (`searchdelta.go:2193`).
* `screen_events`: `withProvider` computes the range with its clock, `ForScreen` truncates it to milliseconds, and the handler parses the range again
  (`handlers.go:609`); `RemoteProvider.Events` refuses any other start, so a central screen with a preset range shows its events as degraded.

Further disagreements met while modelling. The models do what the code does; the instances of `CentralScreens` keep clear of those between the two modes:

* `alerts.go:318`: an alert with the label of a namespace and no uid that the catalog knows is told to the whole cluster only, because the label is not trusted (ADR 7, item 4).
  The list of that namespace filters by the label (`handlers.go:553`, `alertmanager.go:496-501`) and shows it. So a screen of one namespace misses changes of such an alert until it lists
  for another reason; `ScreensFollowAlerts` excepts just these (`Unbacked`).
* `dryrun.go:447-470`: a field of another manager is found in the merge, before the version is compared, and validation and admission come with it; the rejection carries the expected version
  although the object may have moved on since it was read, where the comment at `dryrun.go:227` has the API server answer with a conflict of versions. `AnswersAreOfWhatWasSeen` says of a rejection that the object *was*
  of that version when it was read, and of a difference that it *is*.
* Direct and central screens differ. `projectedWorkloadOwners` sorts revisions as texts and keeps empty old generations, `query.go` sorts numbers and
  skips them; `screenRequest` lacks "nodes", so that screen is refused centrally; `ScopeForCentral` leaves the namespaces of an admin with a
  namespace role in place and `screenRequest` then refuses every screen; a stale uid, or `ns=all` of a limited user, is refused centrally only; a
  namespace without pods and workloads is not listed centrally; a uid on an overview or a request for logs filters the events centrally only (no question of the instance asks that); `directOwner` prefers the controller, the projection the first owner; the ready text counts
  containers of the spec or statuses.
* `changeSources` (`store.go:152`) has no entry for nodes, namespaces and ReplicaSets, which `SafeProjection` sends: their changes wait for a change of another kind or for the next session, up to ten
  minutes (`certReconnectDelay`), and central screens show the old state as fresh meanwhile. `RegistryFollows` is stated of the announced kinds; of the others it fails.
* `ResourceUsage.Add` (`contract/contract.go:859`) starts from nil limits, so sums of limits are always nil.
* `sameUsageSnapshot` (`usage_store.go:135`) reads an unknown uid as zero: when a pod that uses nothing is replaced by another that uses nothing, whose uid is as
  long, the old uid is kept (`SameSnapshot`).
* `representativeBefore` (`alertmanager.go:962`) compares times as texts, where a whole second comes after its fractions (`StartText`); an alert with a workload uid and
  a pod label is linked only if the label names the last pod of the workload.
* `stream.go`/`sse.ts:78`: the web client has no Last-Event-ID before the first signal and after a reset; if the connection breaks then, signals of the gap are neither
  replayed nor replaced by a reset (ADR 7). A scope that changes while a stream is open ends in a 400 that the client does not retry.
* `session.go:674`: the index entry of a session touched in seconds can end before its key; the cap then counts too few.
* `catalog.go`: a rebuild asked for during a list build is overwritten (near 1707; `OnlyRebuildsForget` excuses it, so no property would catch it); `dirty.Swap` precedes the capture of the event
  sequence (1664); an old build may publish over a newer index (784); `partVersion` can return to an old value (1013).
* `searchdelta.go`: slot exhaustion drops the batch and asks for a whole resync (2318); a refused growth of the reservation drops ticket and held events (2836).
* `registry.go:748`: after a reconnect the previous session's state is *not* stale before the new session has committed; `grpc.go:256`: a heartbeat queued before a
  snapshot is forwarded after it, which the replica answers with a resync; so it answers a delta that was queued while the stream began with a RESET only (`grpc.go:195`). Both cost
  a reconnect and no more: `FeedIsCoherent` says that these are the only frames refused.

## 5. The proofs

The theorems hold for all keys, values, callers, tabs, users, sizes, limits and bounds. Some sets must be finite because the code counts
or sums over them, and each is finite in the code: the clusters (`MaxClusters`), the agent's kinds, the requests that walk an index or review an object, the users and dashboards
that the guard knows, the clusters and pods of the usage store, the rows of a table, the pods of a world, the events of a partition and the labels of a row.

| module | theorem | statement |
|---|---|---|
| `ClusterRegistryProofs` | `TypeCorrect` | `Spec => []TypeOK` |
| | `StagingIsOwned` | `Spec => []StagingOwned` |
| | `VersionGrows` | `Spec => NeverRollsBack` |
| | `RegistryImplementsSource` | `Spec => ImplementsSource`: every cluster's initial state and every step maps to `CatalogSource` |
| | `BudgetKept` | `Spec => []WithinBudget` |
| | `BytesAreAccounted` | `Spec => []BytesAccounted`: the byte counter is what all clusters retain together |
| | `PreemptedHandlersAreInert` | `Spec => PreemptedIsInert` |
| | `QueuedDeltasSurvive` | `HistorySpec => QueuedSurvivesCommit` |
| `WatchFeedProofs` | `FeedInvHolds`, `FeedTypes` | `FeedSpec => []FeedInv`, `[]FeedTypeOK` |
| | `CoherentFeed` | `FeedSpec => []FeedIsCoherent` |
| | `NeverGoesBack` | `FeedSpec => ReplicaNeverGoesBack` |
| `AgentSyncProofs` | `AgentAndRegistryAgree` | `AgentSpec => []AgentInv`: when versions agree, the registry holds what the agent has sent |
| | `AgentFeedsAsAssumed` | `AgentSpec => FeedsAsAssumed` |
| | `AnswersStayWithinRoles` | `CentralScreensSpec => []NothingBeyondRoles` |
| `StreamHubProofs` | `StreamTypes`, `SlotsAreExact` | `StreamSpec => []StreamTypeOK`, `[]ConnectionsCounted` |
| | `NothingIsSkipped` | `StreamSpec => []NothingSkipped` |
| | `ResumesAreCompleteOrReset` | `StreamSpec => ResumeIsCompleteOrReset` |
| `AlertCircuitProofs` | `AlertTypeCorrect` | `FairAlertSpec => []AlertTypeOK`, the number of slots in use included |
| | `AlertImplementsCircuit` | `FairAlertSpec => ImplementsCircuit` |
| | `GaugeIsRight` | `FairAlertSpec => []GaugeAgrees` |
| | `AlertsAreRightHolds` | `AlertGroupsSpec /\ AlertPollerSpec => []AlertsAreRight` |
| `ExplorerProofs` | `NothingOutlives` | `CatalogLifecycleSpec => []NothingOutlivesItsInformer` |
| | `AnswersHold` | `ObjectReviewSpec => []AnswersAreOfWhatWasSeen` |
| | `DeltaTyped`, `LedgerCovers` | `DeltaSpec => []DeltaTypeOK`, `[]ReservationsCovered` |
| | `IndexIsRebuildHolds` | `PartIndexSpec => []IndexIsRebuild`: batch by batch, a partition with no tree astray is what a build of the same rows gives |
| `StoresProofs` | `LockIsNotTaken` | `CacheSpec => LockIsKept` |
| | `NothingOutlivesTTL` | `CacheSpec => []NeverServedBeyondTTL` |
| | `NothingOutlivesItsLife` | `CacheSpec /\ UserinfoSpec => []NothingIsUsedTooLong` |
| | `SessionsStayRight` | `RefreshSpec /\ SessionIndexSpec => []SessionsAreRight` |
| | `NoUpdateIsLost` | `DashboardDraftsSpec => NoLostUpdate` |
| | `DraftsAreCapped` | `DashboardDraftsSpec => []DraftCapKept` |
| | `ListsStayExact` | `DashboardDraftsSpec /\ ResourceListSpec => []ListsAreExact` |
| | `CountersAgreeAlways` | the six specifications of the parts that count `=> []CountersAgree` |

Where one property is about several parts (`Stores`), the theorem assumes the specification of each and no relation between them: the parts share
no variable, so their conjunction is every interleaving of them.

Assumptions on the constants: limits, weights, windows and lives are positive or natural numbers; the sets named above are finite; the global byte limit is not below that of
one cluster and the heartbeat window not above the TTL, as `New` enforces at `registry.go:177`; a resource has one place in the order in which walkers borrow (`SearchLeasesAssumption`);
names, namespaces, fingerprints and start times are numbers where the code sorts by them (`PartIndexAssumption`, `ResourceListAssumption`, `AlertGroupsAssumption`);
a backoff is not below the interval of polls, an alert has one label and a uid one namespace (`AlertPollerAssumption`); the pressures on the budgets of the incremental index are sets of its budgets (`DeltaAssumption`);
what a world lists is in a namespace of that world, and an owner in that of what it owns, as Kubernetes sees to (`WorldAssumption`); a question names a screen (`QuestionAssumption`);
`ReadOrder` lists some of the agent's kinds; `Persistent` is a set of keys; no namespace is called as the two subjects of signals that are none (`HubAssumption`); and the
values that stand for nothing (`None`, `NoNotice`, `NoSnapshot`, `NoInformer`, `NoUid`, `NoLease`, `Nobody`, `Lost`, `NoHolder`, `Orphan`) are none of the values they stand in for.
TLC evaluates them all in the runs. The fairness in `FairAlertSpec`, `AgentSpec`, `CacheSpec` and `CatalogLifecycleSpec` is not used.

**Registry.** `TypeOK` is not inductive: a Commit under way replays onto `staging[c]`, so one must know that the
staged snapshot is still there. `TypeInv` adds `CommitHasStaging`; it holds because every action that could drop the
staging needs the lock that the Commit keeps. On `TypeInv` rests `StagingOwned` (`OwnedStep`): a new session drops the staging in
the same step that takes the ownership, and a disconnecting handler drops it only if it is the owner. `LiveSteps` sorts all steps into those that move
the live state: a delta, a heartbeat, a swap, an expiry, a restart. `NeverRollsBack` and the refinement are read off
that list: a swap is `Install` (guarded by `Rollback`), `ApplyDelta` is `Mutate`, `BeatSession` is `Beat`, `Prune` is `Expire`, `Restart` is
`Forget`, and everything else stutters. `WithinBudget` needs that every charge passes `Fits` (`CounterStep`) and that `Apply`
is only reached through the per-cluster limit (`SmallStep`). `PreemptedIsInert` needs `HandlerInv`: the Commit that holds a lock belongs to the
latest session, because no session opens while it holds it, and no admitted handler is ahead of the latest session. Then the steps that can
move a preempted handler are only those that refuse its frame (`PreemptedFrame`).

**Alert circuit.** `CircuitInv` is the reason for generations: a probe belongs to the current generation and is alone, and while the circuit is open
every other call has a permit of an *earlier* generation. So the one current answer while a probe is under way is the
probe's, and `Trip`, `Probe`, `Recover` and `Relapse` are the only changes of `Phase` (`CircuitStep`). `GaugeInv` says that the current
generation is on the gauge or in a notice under way, and that whoever carries it carries the current state; a late notice has an
earlier generation, which the gauge refuses. `UpstreamCircuit` has no such invariant: its permits carry no generation, and the run
`upstream_probes` shows the difference.

**Alerts.** The list becomes groups by a fold (`normalizeAt`). What the fold has made of the alerts so far depends on their *set* only: each fingerprint once, every group with the number of its
alerts and the first of them as representative (`NormalizedIsExact`). So the order of the list is no part of the answer, and `GroupsExact` follows at its end. `ScreensFollowAlerts` rests on
`PollInv`: the snapshot has an alert under the namespace of its uid or under none, and when that namespace is one, it is that of the label if there is one (`ClaimsFit`, `FitsLabel`; `identityMatches` sees to it).
So a poll that changes a trusted alert, or one that was trusted, publishes an event for every scope that lists it, also when it moved from one namespace to another (`UntoldSeesSame`). What remains is the alert that was
trusted neither before nor after.


**Agent.** `FeedsAsAssumed` says that a session never commits a number that was committed before, and deletes only what the registry
holds. Neither is visible in one step. `AgentInv` adds where the agent may be with what it has sent (`Progress`), that the staged
snapshot is what was read (`StagesWhatIsRead`), that agreeing versions mean equal contents (`HoldsWhatIsSent`), and, for the
bound on epochs, that every session but the first was paid for by a change or a failure (`SessionsPaidFor`). A frame whose
answer is lost has the registry's half of the effects and not the agent's (`FrameKeeps`, `HangUpKeeps`).

**Screens and roles.** `ScreensInv` follows an answer back to where it was filtered. The registry's copy is the safe projection of some world (`MirrorIsSafe`); a question under way carries
the filter that the roles of its user give, and a central answer is projected for that filter (`AskedIsOpen`); a reply shows, counts and links to what the roles open (`ReplyIsRightful`), which is shown
screen by screen; and so is an answer in the cache for every user whose key would find it, because the key contains the scope (`KeptIsRightful`).

**Registry, history and bytes.** `QueueInv`: a delta queued since the Begin is covered by the staged snapshot or still waits, also between two deltas of a
Commit; at the swap nothing waits (`SwapIsCommit`), so all are covered. `AccountInv`: the counter is the sum over the clusters of what each is
charged (`Charge`), and the books of a cluster are right: a snapshot's bytes are the sum of its weights (`Measured`), the bytes of the queue the sum of its deltas. The hard
part is a Commit, which takes the charge of the whole cluster as it takes the lock and gives back at its end what it did not need: `Covered` says that meanwhile the live
snapshot, the staged one and the deltas to come fit into what it took, so that the end can only lower the counter. One action changes one cluster (`SumMoves`).

**Watch feed.** Frames are judged when they arrive and right when they are sent, so the invariant has to say what a replica *will* make of what is on its wire.
`Reaches` says that there is a chain of catalogs from the one that the replica has to one that the handler's `sent` describes (`Ready`), each good (`Good`: a
version of `history`, in this life unless it is waiting for a resync) and each made from the one before by a frame that is accepted, or refused because it is late
(`Link`). A frame that is sent extends the chain, one that is read cuts its head off, a broken stream cuts it where it is; a restart of the registry keeps it, as a chain without a stream
is a catalog in resync. `HistoryInv` and `QueueInv` say that versions have one content and that queued deltas lead from one to the next.

**Signals.** A client's debt (`owed`) is in two places: in the line of what the handler still has to send, or in the ring, from its cursor on (`StreamInv`). `LineIsExact`
says that a line is ordered, of this process, promised, and that it accounts for the debt, with a reset at its head standing for what is lost, or
with a dropped subscription owing only what is later. `RingOwed` is what makes a resume right: what the ring holds beyond the last signal of a line is still owed. `Missed` is a recursive function
over the ring, as the loop of `Subscribe` is; what it returns is shown by the same induction along the ring (`Climb`). The counts (`LimitInv`) say that a subscription is counted
once for its user and once for all.

**Explorer.** `LifeInv`: the informer of an entry runs and has not been stopped, or the loop is about to start it (`EntryInv`); nobody installs over one; and only
an informer that runs has an error to record, which is why a stopped one cannot mark the entry of its successor. `ReviewInv`: a request that runs is about a version there
was, and one whose object has been read found it at the version it asks for (`Sound`), and the slots of a guard are the requests of its kind that run, as a cardinality.

**Deltas of the index.** `LedgerInv` is the type of the queue, of the ticket and of what the processes carry, that a queue which is gone is empty and what is built belongs to a recovery that has pinned its
rows (`QueueInv`), and `ReservationsCovered`. The ledger may count *more* than is kept (`delta_ledger` shows how), but no release gives back more than was reserved for what it drops.

**Incremental index.** `IndexInv`: the directory is a book of pages with every partition on the page where it is looked for (`Paged`), its root sums up its pages (`RootIs`), and every partition is
`Built`: with `posts` and `slotOf` read as what is asked of its trees, its rows are the listed objects at slots of their own, and its postings, its label counts and what it leaves out of them are those of a build. A batch is a fold of one update after another (`ApplySteps`, `AppliedIs`); an update takes the old record's tokens out and puts the new one's in
(`Updating`, `PartUpdated`). Two things make that right: a fresh slot is never one that the same batch empties (`Midway`), and when the limit of labels moves the boundary between the names
whose labels are in and those that are left out, only the rows between the old boundary and the new one, and those of the suffixes, have to be touched (`FlippedIsEnough`).
What is asked is right whatever the trees do with it; that they hold it is claimed only where they are not astray, which is what `IndexIsRebuild` says and all that the theorem says of the code.
A partition put into the directory may split its page; it is found there, and the others still are (`Upserted`).

**Drafts.** `NoLostUpdate` rests on `ScreensAreFaithful`: a revision of a draft never shows two contents, because every write adds
one, no id comes again, and no screen is ahead of its draft. A submit or approve checks first and writes later; it is still for
what is on the screen (`UnderItsScreen`). `DraftCapKept` rests on `OneCreates`, the turn that a tab takes, which keeps the room that the
count has found (`RoomLeft`).

**Lists.** A cursor is the last row shown. No row that was shown lies behind it, and one that was there all the time was shown or lies behind it (`CursorDivides` for drafts, `ReadSoFar` for objects),
whatever others insert, change or remove meanwhile; so at the end of the list every row that stayed was shown, once. `TableInv` adds that a uid does not come
again (`ItemsAreOld`), so that an item whose object went is never taken for its successor, and that a recent item which was resolved is live and in the scope (`RecalledStand`).

**Query cache and roles.** The lock changes in four ways (`LockMoves`), and none but the owner's release or its expiry takes it from an owner.
For `NeverServedBeyondTTL` every copy of the answer satisfies `left + age <= TTL`; a copy inherits both. For the roles (`RolesInv`) an answer is not staler than its request is
old, and the life of what it stores was fixed when the request began.

**Sessions.** `NoSpentTokenKept` is true only when nobody is at work. `RefreshInv` says what holds meanwhile: the record is right and no answer that waits could replace it
(`Settled`), or somebody is about to mend it (`Mending`: holds the token accepted now, or will remove the session), or a call was lost, which the property excuses. No tab is ahead of the
record's version, so a compare-and-swap of a late answer fails. `IndexInv`: an index entry has at most half a second less to live than its key.

**Counters.** Each is a sum or a cardinality over what it counts. *Memory* (`MemInv`, `Sound`): the list names each entry once and the count is the sum of the sizes; `Evict` keeps the longest
recent part of the list within the limits, which exists and which `Cut` cuts to. *Query guard* (`GuardInv`): permits are summed by user and by dashboard; a permit is not evicted with
its entry, since only entries without one go (`KnowsOnly`). *Usage* (`UsageInv`, `Ledger`): totals, reservations and peaks are sums over clusters, and with what the
copies under way may add they stay within both limits, so the end of a copy needs no check. *Upstream* (`ClaimInv`): a claim has a probe. *Generations* (`LeaseInv`): the references of a
generation are its publication and the requests that hold it (`RefsCounted`, a request holds it once because it borrows one per resource, `HeldOnce`), so the one that finds
it at zero is alone (`TakenOutOnce`) and finds it retired and not released (`Flagged`); hence each ledger is the sum over the generations with a reference and those that
somebody is taking out of it at this moment (`ServiceBooked`, `OwnersBooked`), and the second is right between the two subtractions of `retireLeaseBytes`, which happen without a lock.

**Sums.** The folds of the community modules are defined by a recursive function over sets. `SumLemmas` proves of them, by induction
over a set of numbers (`Counting`: its least exception would have to follow a member), what the other modules need: type, an empty set, one value more, less or changed, two disjoint sets. In the same way a fold along a sequence exists and takes one step per element (`FoldExists`, `FoldSteps`), and
a finite set with a total order can be sorted (`SortedExists`).

### What is only model-checked, and why

* Every liveness property (`AbandonedIsReleased`, `ReplicasConverge`, `EveryoneIsTold`, `RecoveredIsUsed`, `EveryCallReturns`, `CurrentKeyIsAccepted`, `ServedIsListed`,
  `RegistryFollows`): liveness under fairness and ENABLED are out of the prover's reach.
* `TreesAreExact`, `ReviewIsExact`, `SearchIsExact`: their modules compute with RECURSIVE operators on trees and texts; what those compute for every input would need an induction over data.
* `ScreensAgree`: the direct and the central answer agree only where worlds avoid the differences of section 4. As assumptions on the constants these would be promises that
  neither Kubernetes nor the code makes, so a theorem would say nothing of the code.
* `OnlyRebuildsForget` (`SearchDelta`): the types and the ledger of its four processes are proved, but this needs, for every point of a recovery and of a list, which of the two knows
  of which event. That invariant is not written.
* The sentences that section 4 refutes.

## 6. What is left out

Inside the modelled parts: encoding and size limits of single frames, authentication of a connection (a refused one changes nothing), rate limits
of ingress (a refusal is `RefuseIngress`), metrics other than the circuit gauge, logging. A snapshot of `WatchFeed` travels in one chunk; the capacity limits of
`RemoteCatalog` over several clusters are out. In `StreamHub` scopes are constant. The byte budgets of a search page and of a list page cannot be reached by the largest
rows (50 rows of at most 889 bytes), so they are not modelled. `ReviewDiff` leaves out lengths of paths; `SearchDelta` leaves cooldowns open.
In `UsageStore` a poll may come at any time and bring anything; in `CentralScreens` worlds change only between two screens.

Components without a module, and why:

* TLS identities (`transport/mtls.go`): parse a certificate and compare a name; pure, and decided before any state exists.
* Query catalog, data sources and demo data (`querycatalog`, `datasource/greptime`, `quickwit`, `demo`, `mask`): build a query, decode an answer, format it. Their
  failures are the outcomes of a call in the circuits.
* The remaining handlers of `httpapi` (`resources.go`, `workloads.go`, `respond.go`, `audit.go`): decode, authorise, call a provider, encode. The handlers whose order
  matters are in `StreamHub`, `DashboardDrafts`, `CentralScreens`, `ResourceSearch`, `ResourceList` and `ObjectReview`.
* Configuration, contracts and utilities, topology layout: types, validation and formatting; no state.
* The API process (`cmd/api`): wiring. What matters of start and stop is in the modules of the parts (`Shutdown`, `ctxDone`).
* The generated protocol, and the React screens but for the event stream.
* Contracts, design system, deployment, scripts, fixtures: nothing of it runs in the system.

