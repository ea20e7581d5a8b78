# Formal model of the OpenSearch Go client

TLA+ specifications of the stateful core of `opensearch-go`, checked by TLC on
small instances and, where noted, proved by TLAPS for every value of the
constants. Paths are relative to `src/opensearchtransport/` unless they start
with `src/`.

## 1. The system

| Component | State | Operations | Hard part |
|---|---|---|---|
| Connection pool (`pool_multi_server.go`, `pool_selection.go`, `pool_resurrect.go`, `pool_standby.go`) | `ready` list split by `activeCount` into active and standby, `dead` list, cap | `Next`, `OnSuccess`, `OnFailure`, `scheduleResurrect`, `asyncPromoteStandby`, `rotateStandby`, `demoteOverloaded`, cap enforcement | every operation runs in its own goroutine; health checks run with the mutex released; lists and lifecycle bits are changed under different locks |
| Connection (`connection.go`, `connection_lifecycle.go`, `connection_warmup.go`) | 64-bit word of lifecycle bits and warmup counters, `deadSince`, `checkStartedAt`, draining counter | CAS on the word, warmup ticks | bits read without a lock, changed by pool, poller, discovery |
| Node-stats poller (`cluster_health.go`) | none of its own | poll every node, demote or restore it | acts on a snapshot of the pool |
| Request path (`opensearchtransport.go`) | per request: attempt, response, error, request body; the signal `discoveryNeeded` | `Next`, round trip, report, retry, back-off, seed fallback, proactive check | success and failure of concurrent requests on one connection; what is left of one attempt when the next begins |
| Discovery (`discovery.go`, `pool_single_server.go`) | single-flight flag, last error, the kind of the pool | wait for or start a discovery, rebuild, promote or demote the pool, rotate standbys, expire viability | rebuilds from a snapshot while the old pool serves; waiters with contexts of their own |
| Router and policies (`router.go`, `policy*.go`) | policy pools that share connections with the main pool | `Route`, `OnSuccess`, `OnFailure`, `CheckDead` | one lifecycle word, several pools |
| Shard-aware routing (`index_routing_cache.go`, `rendezvous_hash.go`, ...) | per-index cache of nodes and costs | lookup, decay, eviction | floating-point scores |
| Congestion (`pool_congestion.go`) | window, threshold and ceiling per thread pool, in-flight counters | additive increase, multiplicative decrease, ceiling, 429, creation and removal | three writers of one window, counters looked up by name twice per request |
| Client cache (`src/internal/ttlcache`) | reference-counted values by key | `GetOrCreate`, release, eviction sweep | lock-free hit against the sweep's claim |
| Bulk indexer (`src/opensearchutil/bulk_indexer.go`) | queue, buffer and items per worker | `Add`, flush by size, by ticker, by `Close` | three flushers of one buffer, cancellation |

What makes them correct: no connection is lost or listed twice; a dead
connection is checked until it recovers; a request is only sent to an endpoint
that has been proven reachable; a draining connection is left alone; a shared
value is closed once and only when nobody holds it; an item handed to the bulk
indexer is reported exactly once; the pool follows the cluster and keeps the
healthy connections while it does; a caller of the transport gets the response
of the last attempt or an error, and every attempt sends the whole body; a
caller that waits for a discovery returns with a result of its own.

## 2. Modules

| Module | Models | Kind |
|---|---|---|
| `ConnPool` | one connection pool with the requests, resurrection goroutines, standby workers, stats poller and viability expiry that share it | component, composed with its callers |
| `MCConnPool` | instances of `ConnPool` for TLC (weights) | model |
| `ConnPoolProofs` | inductive invariant and theorems about `ConnPool` | proofs |
| `SharedValues` | what a cache of shared values promises its clients | abstract specification |
| `TTLCache` | `GetOrCreate`, release and the eviction workers; implements `SharedValues` | component |
| `MCTTLCache` | instance of `TTLCache` for TLC | model |
| `TTLCacheProofs` | inductive invariant, theorems and the refinement of `SharedValues` | proofs |
| `BulkIndexer` | `Add`, workers, periodic flusher, `Close`, and the server that reads the lines | component |
| `MCBulkIndexer` | instances of `BulkIndexer` for TLC | model |
| `BulkIndexerProofs` | inductive invariant and theorems about `BulkIndexer` | proofs |
| `Discovery` | `doDiscoverNodes`: the rebuild of the pool from the cluster's answer, promotion from and demotion to a single-server pool, with a request and the resurrection goroutines that use the pool meanwhile | component, composed with its callers |
| `MCDiscovery` | instances of `Discovery` for TLC | model |
| `DiscoveryProofs` | inductive invariant and theorems about `Discovery` | proofs |
| `SingleFlight` | `DiscoverNodes`, `tryDiscoverNodes` and the end of `doDiscoverNodes` | component |
| `Congestion` | the congestion state of one thread pool and its writers | component |
| `Requests` | `Transport.stream` and the discovery loop, over `SingleFlight` and `Congestion` | component and composition |
| `MCRequests` | instances of `Requests` for TLC | model |
| `RequestsProofs` | inductive invariant and theorems about `Requests`, `SingleFlight` and `Congestion` | proofs |

Operators whose name ends in `M` are the broken variants of the operator below
them (a dropped guard, a missing reset); a property is trusted only because TLC
reports it violated when the variant is put in.

### 2.1 ConnPool

One action is one critical section of the pool mutex, or one network exchange,
which the code always performs with the mutex released. Everything a goroutine
carries over such a boundary (its candidate, its verdict) is in `req`, `res` or
`wk`, so that decisions may be stale when they are applied.

| State | Code |
|---|---|
| `lc` | lifecycle bits of `Connection.state` |
| `active`, `standby`, `dead` | how many entries a connection has in `ready[:activeCount]`, `ready[activeCount:]` and `dead`; order inside a list is abstracted, and an index becomes any entry |
| `deadSince`, `quiescing`, `warming` | `deadSince` set, `drainingQuiescingRemaining`, `isWarmingUp` |
| `req` | one request of `Transport.stream`, then the proactive check it may leave behind |
| `res` | the resurrection goroutine of a connection (`checkStartedAt` is set while its pc is not `none`), with the context it was scheduled on |
| `wk`, `spawned` | goroutines inside `healthcheckStart` (rotation or async promotion), and those that have not started |
| `poll`, `expiring` | what the stats poller and `resetDeadConnViability` have still to do from their snapshots |
| `reached` | history: discovered nodes that answered |

| Actions | Code |
|---|---|
| `NextConn`, `TriggerCapEnforcement`, `NextFallback`, `ServeZombie` | `Next`, `triggerCapEnforcement`, `nextFallback` with the eviction of externally demoted entries, standby and zombie turns |
| `OnSuccess`, `OnFailure`, `OnFailureIgnored`, `OnFailureSchedule` | the reports of a request; `OnFailure` releases the mutex before it schedules |
| `ResurrectWake`, `ResurrectProbe`, `ResurrectRelock`, `ResurrectCancelled`, `ResurrectExit` | the goroutine of `scheduleResurrect` |
| `StartAsyncPromote`, `StartRotation`, `FindActiveCandidate`, `StandbyProbe`, `StandbyRelock`, `StandbyRetry`, `PromoteStandby` | `asyncPromoteStandby`, `rotateStandby` and `healthcheckStart` |
| `PollSnapshot`, `PollNoVerdict`, `PollUnreachable`, `PollLoses`, `PollOverloaded`, `PollHealthy` | `pollNodeStats`, one connection of its snapshot at a time, and its verdicts; the lock-free read of a failed poll (`PollUnreachable`) and the change of bits that follows (`PollLoses`) are two steps |
| `ViabilityCheck`, `ViabilityClear` | `resetDeadConnViability` |
| `ProactiveCheck` | `scheduleProactiveHealthCheck` |

Abstracted: times and back-off (a wait ends whenever it likes), the number of
warmup rounds and their skip schedule (a warmup ends at any selection), the
selection algorithm (any candidate), load figures (the poller's verdict).
Membership is fixed here; `Discovery` changes it.

### 2.2 TTLCache and SharedValues

One action is one atomic access, one call of user code (`New`, `Close`) or a
critical section of `Cache.mu` whose inside no lock-free reader can observe. The
sweep is split at the visit, the claim, the close and the delete, so that a
lock-free hit falls between any two of them. `busy` stands for "`Liveness()`
differs from `lastLiveness`". A worker that has been cancelled may take one more
buffered tick and sweep again beside its successor. `Values` and `Workers` bound
what one behaviour can build and start; the refinement mapping reads what a
client holds off `get` (`Held`).

### 2.3 BulkIndexer

A buffer is the number of its lines (`FlushBytes` is a number of lines) and what
the server will make of them: the operations, the action still without its
source, whether the request is malformed; `WriteLine` adds a line to both. `Add` blocks on
a full queue (capacity `NumWorkers`, as in `init`) or is rejected when the
caller's context ends. `Flush` is one step under the worker's mutex, taken by
the worker, the flusher or `Close`; the server executes any subset of the
operations it can read, or the whole request fails, executed or not. The parser
of the server (`ServerLine`, `Accepted`, `Outcomes`, `Executed`) is
external and written from what the bulk API does with such lines: an action line, then
a source line for actions that take one; a request that does not end in a
newline or with an action where a source was expected is refused as a whole. A
write error leaves the buffer as `writeMeta` and `writeBody` leave it: untouched,
with the metadata line alone, or with a body that has no newline. A panic in a
goroutine (`crashed`) ends the process.

Abstracted: round robin of items without an ID (any queue; concurrent callers
share the counter), statistics, the pool of metadata buffers, construction (one
step), retries inside the transport (a request is executed at most once).

### 2.4 Discovery

A `Connection` object is a pair of a URL and a serial number, so that "the same
pointer" and "a new object for the same node" differ; a node of the cluster is
an identity (ID, name and roles together) at an address. `run` holds what
`doDiscoverNodes` carries from one step to the next: its context, the answer of
the cluster, the lists it computed, and, as history, the connections that were
in the pool when it was compared with the answer (`run.was`). A failure removes
all entries of a connection from the ready list (`ReadyWithout`). The ready list
is a sequence, because the races of the rebuild are about its indices.

| Actions | Code |
|---|---|
| `FetchNext`, `FetchFails`, `FetchSucceeds` | `getNodesInfo` over the pool's connection (`PoolNext`) or the seed fallback, a failed round trip (reported to the pool) or an answer that cannot be used (not reported), and the test of the context that follows (`DiscardPartial`) |
| `Resolve`, `Classify` | `nodeDiscovery` and `updateConnectionPool` up to the swap: reuse an object (`CanReuseConnection`) or create one; later, classify it as ready or dead by its `deadSince` |
| `SwapLists`, `Partition` | the two critical sections of `createOrUpdateMultiNodePoolWithLock`, then `scheduleResurrect` for the dead ones |
| `Promote`, `SwapSingle` | `promoteConnectionPoolWithLock`, `createOrUpdateSingleNodePool` and `demoteConnectionPoolWithLock` |
| `ResurrectExits`, `ProbePasses`, `ResurrectRelock` | the goroutine of `scheduleResurrect`, with the pool and the context it was started on |
| `RequestNext`, `RequestSucceeds`, `RequestFails` | a request through `Next` (`PoolNext`: eviction of entries without a position bit, standby promotion, zombies) and its report, on the connection it was given, member or not |
| `ClusterChanges`, `Cancel` | nodes join, leave, are replaced; the context of the discovery ends |

Between `SwapLists` and `Partition` (`InGap`) the transport mutex is held and the
pool mutex is not. Reports of requests wait for the transport mutex
(`TransportFree`); resurrection goroutines go on, and so does `Next`, before
which `stream` releases it (`opensearchtransport.go:1505-1508`). The second
section partitions the local slice `allReadyConns`, whose array the pool's ready
list shares until an append needs a larger one (`AppendInGap`). An eviction in
the gap clears the tail of the shared array (`NilEntry`), or shortens a list that
the local slice no longer is; `torn` records that one happened. A panic ends the
program: it has no successor in the model, and `Discovery.cfg` switches the
deadlock check off for that reason.

Abstracted: there is no router, weights are 1, the cap is above the number of
nodes, a failed health check is a stutter, a failure is moved to the dead list
and scheduled in one step, `Next` is one step, and the choice of a connection
and the beginning of the round trip are one step (`ConnPool` has these in
detail). The cold-start state without a pool cannot be reached once `New` has
returned. Objects nobody refers to are forgotten at `Resolve` so that their
numbers can be used again.

### 2.5 SingleFlight

`call[k]` is a caller: idle, running a discovery, parked in `cond.Wait`, woken,
returned. `AfterFunc` is the callback of the caller's context; it broadcasts.
A broadcast moves every parked caller to `woken`, and each then takes the mutex
in any order, possibly behind a new discovery, in which case it waits again. The
result of a discovery (`Results`) is nil, an error of the cluster or the error
of the runner's context; the history `ended` collects what ended while a caller
waited. `Close` of the transport ends the context of the loop.

### 2.6 Congestion

The registry entry of one thread pool of one connection (`pool`), published by
`LoadOrStore` with a zero window and stored as 1 one step later. `poller` and
`sizer` are `updatePoolCongestion` and `setMaxCwnd` between these steps;
sections under `pc.mu` are one action. The 429 handler only tries the lock
(`LockTaken`). Statistics are reduced to the signal the AIMD rule derives from
them: rejections, no completed task, long waits, or clear.

### 2.7 Requests

A request goes through `Call`, then per attempt `RouteFound` (connection, body
reset, signature, in-flight count), `RoundTrip` (the network's answer and the
release), `Handle` (report, decision to retry, drain) and `Backoff`, and leaves
through `RouteExhausted` (`ErrNoConnections`), `RouteFails` (any other error
before sending) or the last attempt. `SeedSend`, `SeedFails` and
`SeedRoundTrip` are `performSeedFallback`. The outcome of routing is any the
router and pool can give; the network answers with a success, a retryable
status, 429, a network error, a timeout, or a reset (EOF and HTTP/2 stream
errors, which the code treats alike). `CallTruncated` is a call whose reader fails
while `stream` buffers the body: the error is dropped and the short buffer sent
(`opensearchtransport.go:1472`). `LoopWake` is one wake of `discoveryLoop`, by
interval (`due`) or by the signal, which it consumes in either case before it
tries to discover. The loop exists only with `DiscoverNodesInterval > 0`
(`DiscoveryLoop`).

History variables: `owed` (no discovery has begun since the last successful seed
fallback; `missed` once a wake consumed its signal beside another discovery),
`skewed` (the thread pool was created or removed under a request in flight),
and per request `trips`, `torn` (less than the whole body was sent) and `leaked` (a
response was dropped with an open body). `err` holds the normalised error when
the next iteration begins.

Abstracted: status codes and errors to the classes the code distinguishes,
compression, metrics, observers, shard-map refresh, the number of retries
(1; each one goes through the same iteration).

## 3. Runs

| Run | Instance | Shows |
|---|---|---|
| `pool_standby` | seed, discovered node of weight 2, dedicated manager; cap 1; 1 request, 1 standby worker, 1 fault, 1 quiescing check (2.3 million states) | `TypeOK`, `ListedOnce`, `PositionExclusive`, `ExhaustionIsReal` |
| `pool_recovery` | seed and discovered node; 2 requests, stats poller, viability expiry, 1 quiescing check, 2 faults (0.5 million states) | `ListedOnce`, `SentIsProven`, `QuiesceBlocksResurrection`, `PoolRecovers` (liveness) |
| `client_cache` | 2 callers, 1 key, 3 builds, 2 workers | `TypeOK`, `RefCountExact`, `NothingLeaks`, `EveryEntrySwept`, `ClosedOnceWhenFree` (refinement), `IdleEvicted` (liveness) |
| `bulk_indexer` | 2 workers, 3 items (2 on one document with a negative hash; one item has a body), flush at 3 lines, write errors, construction context cancelled | `TypeOK`, `DocumentOrder`, `CloseDrains`, `ReportedOnce`, `CloseReturns` (liveness) |
| `discovery` | 2 addresses, 1 of them the seed and the first node, 2 identities, 3 objects per address, 2 events | `TypeOK`, `RebuildSettles`, `HealthyKept`, `Converges` (liveness) |
| `requests` | 1 request with 1 retry and back-off, with and without seed fallback, 1 user of `DiscoverNodes` and the loop, 1 ended context, thread-pool sizes 1 and 2 under a default ceiling of 4, 2 events | `TypeOK`, `ReturnedResponse`, `BodyComplete`, `InFlightExact`, `CwndBounds`, `FlightSafe`, `ResultIsOwn`, `CallersReturn` and `Rediscovers` (liveness) |

The runs that expect a violation (`lost_checker`, `bulk_orphan_meta`,
`rebuild_panic`, `promoted_unchecked`, `disable_retry`, `stream_closed`) are
described under "Disagreements".

What the properties say:

- `ListedOnce`: a connection is in exactly one list, once in the dead list with
  `deadSince` and `lcUnknown`, or in the ready list alive.
- `PositionExclusive`: `lcActive` and `lcStandby` are never both set.
- `SentIsProven`: with health checks, requests only go to seeds or nodes that
  have answered.
- `ExhaustionIsReal`: `ErrNoConnections` means that nothing could have served,
  unless a dedicated manager used up the turn.
- `QuiesceBlocksResurrection`: a draining connection stays dead until its last
  quiescing check, whoever reports success.
- `PoolRecovers`: an empty active partition is filled again.
- `RefCountExact`, `NothingLeaks`, `ClosedOnceWhenFree`: counts equal holders;
  no build is forgotten; nobody ever holds a closed value and none is closed twice.
- `EveryEntrySwept`, `IdleEvicted`: entries always have a live worker, and an
  idle entry goes.
- `DocumentOrder`, `CloseDrains`, `ReportedOnce`, `CloseReturns`: the promises of
  the `BulkIndexer` interface.
- `RebuildSettles`: after a rebuild `activeCount` fits the ready list and every
  entry has a position, whatever failed after the classification and whatever was
  resurrected, promoted or served between the two sections; unless `Next` evicted
  an entry there (`torn`), in which case it can fail, or the rebuild panics
  (`rebuild_panic`).
- `HealthyKept`: a rebuild keeps the object of every node the cluster listed that
  was in the pool when it was compared with the answer, also after a cancelled or
  failed discovery and whatever fails or recovers before the lists are swapped.
- `Converges`: once the cluster stays as it is, the pool becomes and stays the
  cluster, one live connection of the right identity per node; unless no node
  the client would ask is reachable (`CutOff`) or a rebuild panicked (`NilEntry`).
- `ReturnedResponse`: without an error the caller has the response of the last
  round trip with an open body; with an error it has none, or, when its context
  ended during a back-off, the one that was to be retried (`StreamUnread`, below,
  is about its body); no other response is left open.
- `BodyComplete`: every attempt, seed fallback included, sends the whole body,
  unless the caller's reader failed while it was buffered.
- `InFlightExact`: the counter that scoring reads counts the requests in flight,
  as long as the thread pool was not created or removed under one.
- `CwndBounds`: the window never exceeds the ceiling in force, whichever of
  poller, sizing and 429 handler wrote it last, and is at least 1 once stored.
- `FlightSafe`, `ResultIsOwn`, `CallersReturn`: one discovery at a time, marked
  as such; a waiter reports the result of a discovery that ended while it waited or the end
  of its own context, never the runner's; every waiter returns.
- `Rediscovers`: where there is a discovery loop and until the client is closed, a
  seed fallback that succeeds is followed by a discovery that begins after it,
  because of its signal alone: that the interval passes is not assumed. The
  exception is a wake that consumes the signal while another discovery is in
  progress (`missed`); that one waits for the interval.

### Bounds

`MaxFaults` bounds failures, stream resets and the verdicts of the poller that
are not "healthy" together. One is enough for a connection to fail while its own
or another's standby checks are in flight; a discovered node starts dead, so
resurrection runs without one. Two are enough for an outage of the whole pool, or
for a stream reset and a late failure of the other request; in `pool_recovery`
the bound also states that failures stop. The poller is only in `pool_recovery`,
because `ExhaustionIsReal` is about pools without one (section 4).
`DrainingChecks` is 1 (3 in the code): it has both the "still quiescing" and
the "last check" branch. `PromotionChecks` is 1 (3 in the code): more repeat
the same step with the mutex released. An active cap of 1 lets two connections
overflow it. Weight 2 makes one connection own several entries of a list. Three
values and two workers give a build that loses the race, an eviction with a
rebuild, and a cancelled worker beside its successor. Three items at three lines
give a size flush, a ticker flush and a final drain in one behaviour.

In `discovery`, two addresses are the least with which a pool is promoted and
demoted; two identities allow a node to be replaced at its address; three
objects per address, beside the copy in the seed fallback pool, are one in the
pool, one that only a request or a goroutine still refers to, and a replacement
(an object becomes free when nothing refers to it). `MaxEvents` 2 covers changes
of the cluster, failures of live nodes and cancellations: any two of them around
a rebuild, which is also what the three known races need. In `requests` it
covers polls, sizings, removals, cancellations and discoveries of the user, so
every pair of them falls into every gap of a request. Sizes 1 and 2 under a
ceiling of 4 make the window grow beyond a ceiling that arrives late and shrink
again. One retry has a first, a repeated and a last iteration. A reader that
fails during buffering is an event too. `requests` turns the deadlock check off
because a closed client whose request is done has nothing left to do;
`bulk_indexer` likewise after `Close`.

### Fairness

`ConnPool!FairSpec`: weak fairness of every request and resurrection goroutine
and of the poller's ticks and visits: goroutines are scheduled, round trips end
by their timeouts and timers fire. The application keeps sending requests, since
`Next` also repairs the pool. Nothing is assumed of standby workers, and nothing
of rotation and viability expiry, which only run when discovery does.
`TTLCache!FairSpec`: weak fairness of what runs inside the library and of the
workers' ticks; callers may hold a value for ever. A tick whose `TryLock` fails
is skipped; since behaviours build finitely many values, and only the insertion
of a build holds `mu`, the lock is free for good in the end. An endless stream
of misses could skip every tick, which the code accepts ("eviction is
best-effort"). `BulkIndexer!FairSpec`: weak fairness of workers, flusher,
flushes and `Close`, i.e. bulk requests end and callbacks return; none of `Add`,
the ticker, or the call of `Close`.

`Discovery!FairSpec`: weak fairness of discovery steps (the loop runs on a
timer) and of goroutines that end, and strong fairness of a fetch that can
succeed, so a reachable node is not for ever asked in vain. Probes are strongly
fair only while no discovery is running (`Quiet`): a resurrection that falls
between `Resolve` and the swap every time would be undone every time, and
nothing in the code but timing excludes it. Requests are not assumed to be sent,
only to end. `Requests!FairSpec`: weak fairness of the loop's wake for a signal
and of every caller's steps, and strong fairness of a woken waiter finding no
discovery in progress, since Go's mutex does not let it be overtaken for ever.
Requests themselves need no fairness: nothing here says that a request ends.

### Disagreements between code and documentation

- `lost_checker` (`DeadRecovers`): a failure between a resurrection goroutine's
  decision to exit and its deferred reset of `checkStartedAt` is not scheduled,
  and the connection stays dead (`pool_resurrect.go:400`, against
  `pool_selection.go:315`). Discovery, if enabled, repairs it later.
- `rebuild_panic` (`NoPanic`): `createOrUpdateMultiNodePoolWithLock` sets the
  ready list and `activeCount` in different critical sections
  (`discovery.go:1015-1026` and 1048-1093, against the comment at 1044); a
  resurrection or `Next` in between indexes the new list with the old count, past
  its end if a ready node has left (`pool_multi_server.go:704` and 142-144). The
  property also excludes the second way, a nil entry left by an eviction of `Next`
  in the gap (`pool_multi_server.go:648-652`).
- `promoted_unchecked` (`DeadAreChecked`): the promotion of a single-server pool
  assigns the dead list without times of death (`opensearchtransport.go:2769`,
  against `pool_multi_server.go:736`), so the health checks of the discovered
  nodes end at their first test.
- `disable_retry` (`NoRetryWhenDisabled`): EOFs and HTTP/2 stream errors are
  retried with `DisableRetry` (`opensearchtransport.go:1645` and 1682, against
  `doc.go:50`).
- `stream_closed` (`StreamUnread`): the response that `Stream` returns together with
  the error of a context that ended during a back-off has been drained and closed
  (`opensearchtransport.go:1765-1772`), while the documentation of `Stream` says
  that it "neither reads nor closes it" (1302-1303) and names this case (1311-1314).
- `bulk_orphan_meta` (`SuccessIsReal`): after a body error the metadata line
  stays in the buffer; the next item may be reported successful without having
  been executed (`src/opensearchutil/bulk_indexer.go:482`, against line 64 of
  that file).

Disagreements without a run. The failure path of the stats poller keeps
`lcOverloaded`, so that the connection, once evicted, is not scheduled, another way
into `lost_checker`'s state; `cluster_health.go:210-211`, its log message at 222
and `pool_resurrect.go:448-449` say that the flag is cleared. `PollLoses` models
what the code does. The rediscovery signal is noticed at the loop's next wake, as
`discovery.go:1586-1587` says, or one interval later if that wake finds a discovery
in progress, and never without a loop, although `doc.go:285` calls it immediate;
`Rediscovers` states what holds.

Observations, where no document says otherwise or the effect heals:
`OnFailure` ignores a connection that is already
unknown (`pool_multi_server.go:468`); a rotation may promote a connection that
became overloaded during its check (`pool_standby.go:541`); a demotion takes the
first entry of the old pool, which may have left the cluster
(`opensearchtransport.go:2823`; `CutOff` in `Converges`); `OnSuccess` and
`OnFailure` put a connection that has left back into the lists, where it can hide
the new object of its URL until the next rebuild (`Shadowed` in `HealthyKept`);
if that happens between the comparison and the swap, the rebuild drops it again;
in-flight counts stay off by one when the thread pool is created under a request
(`skewed` in `InFlightExact`); a request body whose reader fails while it is
buffered is sent short and without an error (`opensearchtransport.go:1472`).

## 4. Proofs

All theorems hold for every value of the constants allowed by the assumptions
of the modules: sets of any size (`Getters` and `Urls` finite, because
cardinalities are compared), positive weights and ceilings, natural or Boolean
parameters. Bounds such as `MaxEvents` are arbitrary naturals, so that a theorem
covers behaviours with any number of faults. Every safety invariant and every
action property of the passing runs is stated by a theorem. Where a theorem
needs more of the configuration, it is an `ASSUME` of that theorem.

**ConnPoolProofs.** `ListedOnce` and `PositionExclusive` are not inductive by
themselves: an action moves the connection a goroutine has in hand, so the
invariant needs that there is one and that the entry it removes exists. `IndInv`
groups the facts by variable (`PoolInv`, `ReqInv`, `ResInv`, `WkInv`,
`CounterInv`), and `IndInvSplit` shows it equal to `TypeOK /\ HandedOut /\
ListedOnce /\ PositionExclusive`. Lemmas about the five ways a connection moves
(`Died`, `Revived`, `Promoted`, `CapEnforced`, the changes of bits) are proved
once and used by one lemma per action. Theorems: `Invariance`, `TypeCorrect`,
`NoConnectionLost`, `PositionsExclude`. `DrainingHolds` proves the action
property `QuiesceBlocksResurrection` from `IndInv`. `OnlyReachedAreServed`
proves `SentIsProven` with a second invariant, `ReachInv`: everything a request
may be handed (ready entries, viable connections, connections in hand) is a seed
or has been reached. These two assume `HealthCheckConfigured`; without health
checks the code resurrects without a probe, and both are false. `ExhaustionTrue`
proves `ExhaustionIsReal` from a third one, `PositionInv`: whatever is in the
ready list has its position bit, so that the eviction of `nextFallback` finds
nothing and the round-robin misses nothing (`NothingEvicted`); then `ListedOnce`
says that what is neither active nor standby is dead. It assumes
`~StatsPolling`: the poller takes position bits away from connections that stay
in the list, and then a manager in the active partition can make `Next` give up
beside a healthy data node.

**TTLCacheProofs.** `Inv` says who owns a value before it is published
(`OwnInv`), that a loaded entry is open unless claimed (`EntryInv`), that a
cached entry is open except the one the lock holder is evicting (`CacheInv`,
`LockInv`), what is untouched (`UnbuiltInv`), and that a registered worker runs
(`WorkerInv`). `RefCountExact` is inductive only with these; its step uses the
cardinality theorems of finite sets. Theorems: `CacheInvariance`,
`CacheTypeCorrect`, `CountsAreExact`, `NoValueLeaks`, `EntriesAreSwept`, and
`CacheRefinement` (every step of the cache is a step of `SharedValues` or leaves
its variables alone).

**RequestsProofs.** `Inv` is the conjunction of invariants of the parts, and every
action of `Requests` is a step of one part and leaves the others alone, or
couples two of them, which is where the work is.

- `FlightInv`: `FlightSafe` and `ResultIsOwn` need `Waiting`, which says what a
  waiter may know: as long as it is parked or woken, the last error is one that
  ended while it waited unless a discovery is still running. Without it a woken
  waiter could return the result of an older discovery. Theorems `OneDiscovery`
  and `OwnResult`.
- `CongestionInv`: `CwndBounds` needs that an entry whose window is still zero has
  a writer about to store it (`WindowInv`, `Unstored`) and that a writer with an
  entry in hand has the one of the registry, or knows that it is an orphan
  (`WriterInv`). Theorem `WindowBounded`.
- `ReqInv`: per request, which error, response and body go with each state of
  `stream` (`Good`); the lemmas about one attempt (`Keeps`) are stated of the
  request record alone. Theorems `ResponseReturned` and `WholeBody`. The latter
  assumes `~DisableRetry`: with it the body is not buffered although stream errors
  are retried, which is the run `disable_retry`.
- `Counted`: the set of requests in flight is finite and counted exactly, with
  the counting theorems of finite sets. Theorem `ExactInFlight`.

**BulkIndexerProofs.** None of the three promises is inductive. `Inv` follows an
item through its stages, channel, worker's hands, buffer: it is in one of them at
most, always with the worker its document hashes to (`PipeInv`), and each stage
holds its items in the order of `added`, the later stages before the earlier
ones. `ReportInv` says an item is reported exactly when it has left. `BufInv` is the
link to the server: the operations of a buffer that are what they seem to be
(`genuine`) are those of its items, in their order, and a buffer the server would
accept has at least one operation per item, so that every item finds an entry in
the response. `ExecInv` compares what has been executed with what is still
on the way, `MutexInv` says who flushes what, and `CloseInv` how `Close` takes the
indexer down: channels closed, flusher gone, workers gone, buffers drained up to
the index reached. Theorems `TypeCorrect`, `ReportOnce`, `OrderPerDocument` (both
whatever the construction context does) and `CloseReportsAll`. `SuccessIsReal` is
false and stays with its violation run.

**DiscoveryProofs.** `SettleInv` describes the gap between the two sections of a
rebuild, in which `activeCount` is that of the old lists. As long as the pool
shares the array of the local slice, the second section partitions the list
itself; once a resurrection has moved the pool to another array, the list has at
least as many entries as the slice that is counted, each of them in the slice or
placed already (`Covered`). `Next` in the gap keeps that, whichever standby it
promotes, unless it evicts: then `torn` is set, and `PartitionSettles`
(`RebuildSettles`) claims nothing. `KeepInv` says that the answer compared is
the whole answer and that every matching connection of `run.was` is in one of the
two lists about to be installed; `ContractKept` proves the action property
`HealthyKept` from it. The proof corrected the property: it used to quantify over
the pool at the swap, which is false with three addresses and three events (a
connection that has left comes back by a late failure after the comparison and
is dropped again, harmlessly); the instance with two addresses is too small to
show that.

Only model-checked: the liveness properties `PoolRecovers`, `IdleEvicted`,
`CloseReturns`, `Converges`, `CallersReturn` and `Rediscovers` (liveness under
fairness is out of the prover's reach), and the six violations. No module
declares a RECURSIVE operator.

## 5. Not modelled, and the plan

About nine tenths of the repository is generated code: the request and response
types of `opensearchapi` and `plugins`, path builders, their tests. It has no
state and no control worth a model; each function builds a path, a query string
or a JSON value. The same holds of the generators themselves (`cmd/`), of
request signing, telemetry, parsing of durations, observers, metrics and
logging. The hand-written stateful code is in `opensearchtransport`,
`internal/ttlcache` and `opensearchutil`, and the modules cover its core.

Not modelled there, and why:

- Router and policies: a chain of pools that share connections. The routing
  itself is a sequential decision over floating-point scores, which TLC cannot
  evaluate; what matters of it (any member of any pool, or none) is what
  `ConnPool` and `Requests` assume. The sharing of one lifecycle word by several
  pools is real state and is first in the plan.
- Shard-aware routing and its index cache: exponentially decaying floating-point
  costs.
- The packed connection word and the skip schedule of the warmup: abstracted in
  `ConnPool` to "a warmup ends at some selection".
- The cluster-wide search window and the default pool's window of
  `pool_congestion.go`.
- DNS cache and address resolvers: I/O around a map with a mutex.
- Partial answers of `/_nodes` (`discovery.go:1208`): an answer of the model
  lists all members.

Planned, in this order:

1. Proofs: abstract specifications of the bulk indexer (an ordered log per
   document) and of the single flight, and their refinement; the conditions under
   which the violated properties hold (`SuccessIsReal` without write errors,
   `NoPanic` without a resurrection and without `Next` between the sections).
2. `PolicyPools`: two pools that share connections; `checkDead`.
3. `ReadyList`: the exact slice operations of the ready list (`activeCount`
   swaps, cap enforcement, rotation) against the counts of `ConnPool`.
4. `Warmup`: the packed connection word and the skip schedule, with widths.
5. Construction of the bulk indexer with a cancelled context (`wg.Add` after the
   workers have started).
