------------------------------ MODULE Discovery ------------------------------
(***************************************************************************)
(* Node discovery of the OpenSearch Go client: doDiscoverNodes, which      *)
(* rebuilds the transport's connection pool from the list of nodes the     *)
(* cluster returns while requests and resurrection goroutines use it.      *)
(* One discovery runs at a time (SingleFlight); its context is that of the *)
(* discovery loop or of a caller of DiscoverNodes.                         *)
(*                                                                         *)
(* The transport has no router and scales activeListCap by itself; weights *)
(* are 1.  A critical section of the pool mutex is one action; the rebuild *)
(* has two of them, under Transport.mu (c.mu).  The pool's own operations  *)
(* are in ConnPool in more detail: here a failure is moved and scheduled   *)
(* in one step, a goroutine ends in the step that decides so, Next is one  *)
(* step, and draining, overload, warmup and the background promotion of    *)
(* standbys are left out.  A panic has no next state: NoPanic says where   *)
(* one is possible.                                                        *)
(***************************************************************************)
EXTENDS Naturals, Sequences, SequencesExt, FiniteSets

CONSTANTS
  Urls,           \* addresses a node may have
  SeedUrls,       \* those the client was configured with
  FirstNodes,     \* the nodes of the cluster when the client starts
  Ids,            \* identities (ID, Name, Roles) of nodes
  MinNodes,       \* the cluster never shrinks below this size
  MaxObjects,     \* bound: live Connection objects for one URL
  ActiveListCap,  \* the cap derived at construction
  MaxEvents,      \* bound: nodes that join, leave or are replaced, failures of
                  \* live nodes and cancellations, together
  NoId,           \* identity of a seed; no node at an address
  NoConn

ASSUME UrlsAssumption == /\ IsFiniteSet(Urls)
                         /\ SeedUrls \subseteq Urls
                         /\ FirstNodes \subseteq Urls
                         /\ SeedUrls # {} /\ FirstNodes # {}
ASSUME IdsAssumption == NoId \notin Ids /\ Ids # {}
ASSUME BoundsAssumption ==
  /\ {MaxObjects, MinNodes} \subseteq Nat \ {0} /\ MaxEvents \in Nat
  /\ ActiveListCap \in Nat /\ Cardinality(Urls) <= ActiveListCap

\* A Connection: its URL and the serial number of the object.  Number 0 is
\* the copy of a seed in the seed fallback pool, 1 that in the first pool.
Conns == Urls \X (0 .. MaxObjects)
Url(c) == c[1]
ASSUME NoConnAssumption == NoConn \notin Conns

VARIABLES
  cluster,      \* identity of the node at each address
  \* Connection objects
  id,           \* ID, Name and Roles of a connection
  lc,           \* lifecycle bits
  deadSince,    \* the connections whose deadSince is set
  res,          \* resurrection goroutine of a connection
  \* Transport.mu and multiServerPool.mu
  kind,         \* the type of the pool, "single" or "multi"
  single,       \* singleServerPool.connection
  ready, activeCount, activeListCap,
  dead,         \* entries of a connection in the dead list
  \* discovery
  run,          \* the running discovery: where it is, its context, the
                \* connection it asks, the answer of the cluster, the
                \* connections it was compared with (history), the new lists,
                \* whether the pool's ready list still shares the array of the
                \* local slice allReadyConns and, if not, that slice
  \* environment
  req,          \* a request in flight
  events,       \* how many of the bounded events there have been
  torn          \* history: Next evicted a connection between the two sections
                \* of the last rebuild

connVars == <<id, lc, deadSince>>
listVars == <<ready, activeCount, dead>>
poolVars == <<kind, single, activeListCap, listVars>>
vars == <<connVars, poolVars, cluster, res, run, req, events, torn>>

Bits == {"unknown", "active", "standby", "viable"}
RunPcs == {"idle", "asking", "resolving", "classifying", "swapping", "partitioning"}
Contexts == {"caller", "cancelled"}

NoGoroutine == [pc |-> "none", ctx |-> "none", cp |-> "none"]
NoList == [u \in Urls |-> NoId]
NoRun == [pc |-> "idle", ctx |-> "caller", conn |-> NoConn, asked |-> NoList,
          list |-> NoList, was |-> {}, ready |-> {}, dead |-> {},
          shared |-> FALSE, local |-> <<>>]

-----------------------------------------------------------------------------
(* Connections and lists *)

Members(f) == {u \in Urls : f[u] # NoId}
Reachable(c) == cluster[Url(c)] # NoId
Fallbacks == {<<u, 0>> : u \in SeedUrls}
AvailableForRouting(c) == id[c] = NoId \/ "viable" \in lc[c]
SetActive(bits) == (bits \cup {"active"}) \ {"unknown", "standby"}

InPool(c) == c \in Range(ready) \/ dead[c] > 0
Listed == IF kind = "single" THEN {single} ELSE {c \in Conns : InPool(c)}

\* c.mu is held by the discovery between the two sections of the rebuild.
\* OnSuccess and OnFailure of a request wait for it; Next and the resurrection
\* goroutines take the pool mutex only.
InGap == run.pc = "partitioning"
TransportFree == ~InGap

\* A slice made of the elements of S, shuffled.
Shuffles(S) == {s \in [1 .. Cardinality(S) -> S] : IsInjective(s)}

\* resurrectWithLock.  A new active entry is swapped with the one at
\* activeCount, an index past the end of the slice if that is too large.
AppendActive(c) ==
  LET r == Append(ready, c)
      a == activeCount + 1
  IN  [r EXCEPT ![Len(r)] = r[a], ![a] = c]
IndexInRange == activeCount <= Len(ready)

Resurrect(c) ==
  /\ deadSince' = deadSince \ {c}
  /\ dead' = [dead EXCEPT ![c] = IF @ > 0 THEN @ - 1 ELSE 0]
  /\ \/ /\ activeCount < activeListCap /\ IndexInRange
        /\ lc' = [lc EXCEPT ![c] = SetActive(@) \cup {"viable"}]
        /\ ready' = AppendActive(c)
        /\ activeCount' = activeCount + 1
     \/ /\ activeCount >= activeListCap
        /\ lc' = [lc EXCEPT ![c] =
                    (@ \cup {"standby", "viable"}) \ {"unknown", "active"}]
        /\ ready' = Append(ready, c)
        /\ UNCHANGED activeCount

\* An append to the ready list during the gap.  allReadyConns has no spare
\* capacity, so the pool moves to another array, unless an eviction has made
\* room in the shared one.
AppendInGap ==
  run' = IF InGap /\ run.shared /\ Len(ready) = Cardinality(run.ready)
         THEN [run EXCEPT !.shared = FALSE, !.local = ready] ELSE run

\* scheduleResurrect: no second goroutine while checkStartedAt is set.
Scheduled(r, cs, ctx) ==
  [c \in Conns |-> IF c \in cs /\ r[c].pc = "none"
                   THEN [pc |-> "waiting", ctx |-> ctx, cp |-> "current"]
                   ELSE r[c]]

\* removeFromReadyWithLock: all entries of the connections in cs go, the others
\* stay in order.
InOrder(S) ==
  {e \in [1 .. Cardinality(S) -> S] : \A m, n \in DOMAIN e : m < n => e[m] < e[n]}
ReadyWithout(cs) ==
  {[n \in DOMAIN e |-> ready[e[n]]] :
     e \in InOrder({i \in DOMAIN ready : ready[i] \notin cs})}
ActiveRemovedM(cs) == 1
ActiveRemoved(cs) ==
  Cardinality({i \in DOMAIN ready \cap (1 .. activeCount) : ready[i] \in cs})

\* OnFailure of the current pool; a no-op for a single server and for a
\* connection that is unknown already.  Membership is not looked at.
PoolOnFailure(c) ==
  IF kind = "single" \/ "unknown" \in lc[c]
  THEN UNCHANGED <<lc, deadSince, listVars, res>>
  ELSE /\ lc' = [lc EXCEPT ![c] = (@ \cup {"unknown"}) \ {"active", "standby"}]
       /\ deadSince' = deadSince \cup {c}
       /\ ready' \in ReadyWithout({c})
       /\ activeCount' = activeCount - ActiveRemoved({c})
       /\ dead' = [dead EXCEPT ![c] = @ + 1]
       /\ res' = Scheduled(res, {c}, "pool")

PoolOnSuccess(c) ==
  IF kind = "multi" /\ c \in deadSince
  THEN Resurrect(c)
  ELSE UNCHANGED <<lc, deadSince, listVars>>

-----------------------------------------------------------------------------
(* Next *)

\* The active connections, and those among them without a position bit, which
\* failed after a rebuild had classified them as ready.
ActiveConns == {ready[i] : i \in DOMAIN ready \cap (1 .. activeCount)}
Demoted == {c \in ActiveConns : lc[c] \cap {"active", "standby"} = {}}

\* evictExternallyDemotedWithLock for the connections of cs, r is what is left
\* of the ready list; no health check is scheduled.
Evict(cs, r) ==
  /\ r \in ReadyWithout(cs)
  /\ ready' = r
  /\ deadSince' = deadSince \cup cs
  /\ dead' = [c \in Conns |-> IF c \in cs THEN dead[c] + 1 ELSE dead[c]]
MarkUnknown(cs) == [c \in Conns |-> IF c \in cs THEN lc[c] \cup {"unknown"} ELSE lc[c]]

\* nextFallbackWithLock, with no active entry left: c is the first standby entry,
\* which becomes active, else a zombie, else none.
Fallback(c, bits) ==
  \/ /\ ready' # <<>> /\ c = ready'[1]
     /\ activeCount' = 1
     /\ lc' = [bits EXCEPT ![c] = (@ \cup {"active"}) \ {"standby"}]
  \/ /\ ready' = <<>> /\ activeCount' = 0 /\ lc' = bits
     /\ LET zombies == {d \in Conns : dead'[d] > 0 /\ AvailableForRouting(d)}
        IN  IF zombies = {} THEN c = NoConn ELSE c \in zombies

\* Next of the current pool returns c, or no connection (NoConn).  It takes an
\* active connection that has a position bit, on the way to which it may have
\* evicted others, or falls back when all active ones had to be evicted.  The
\* round-robin index is modulo activeCount: past the end of the list it panics.
PoolNext(c) ==
  \/ /\ kind = "single"
     /\ c = IF AvailableForRouting(single) THEN single ELSE NoConn
     /\ UNCHANGED <<lc, deadSince, listVars>>
  \/ /\ kind = "multi"
     /\ \E evicted \in SUBSET Demoted :
          /\ \E r \in ReadyWithout(evicted) : Evict(evicted, r)
          /\ \/ /\ c \in ActiveConns \ Demoted
                /\ activeCount' = activeCount - ActiveRemoved(evicted)
                /\ lc' = MarkUnknown(evicted)
             \/ /\ evicted = ActiveConns /\ activeCount = ActiveRemoved(evicted)
                /\ Fallback(c, MarkUnknown(evicted))

Spend == events < MaxEvents /\ events' = events + 1

-----------------------------------------------------------------------------
(* doDiscoverNodes *)

\* getNodesInfo asks a connection of the pool, or the seed fallback when the
\* pool has none.
FetchNext ==
  /\ run.pc = "idle"
  /\ \E c \in Conns \cup {NoConn} :
       /\ PoolNext(c)
       /\ \E asked \in IF c = NoConn THEN Fallbacks ELSE {c} :
            run' = [run EXCEPT !.pc = "asking", !.conn = asked]
  /\ UNCHANGED <<id, kind, single, activeListCap, cluster, res, req, events, torn>>

\* A round trip that fails, because of the node or of the context, is reported to
\* the pool; an answer that cannot be used is not.  Either ends the discovery.
FetchFails ==
  /\ run.pc = "asking"
  /\ \/ /\ IF Reachable(run.conn) THEN Spend ELSE UNCHANGED events
        /\ PoolOnFailure(run.conn)
     \/ /\ Reachable(run.conn) /\ Spend
        /\ UNCHANGED <<lc, deadSince, listVars, res>>
  /\ run' = NoRun
  /\ UNCHANGED <<id, kind, single, activeListCap, cluster, req, torn>>

\* The answer.  If the context ends while the addresses are resolved nodes may
\* be missing, and the list is not used.
DiscardPartialM(ctx) == FALSE
DiscardPartial(ctx) == ctx = "cancelled"

FetchSucceeds ==
  /\ run.pc = "asking" /\ Reachable(run.conn)
  /\ PoolOnSuccess(run.conn)
  /\ \E ctx \in Contexts, kept \in SUBSET Members(cluster) \ {{}} :
       /\ IF ctx = "cancelled" THEN Spend
          ELSE kept = Members(cluster) /\ UNCHANGED events
       /\ run' = IF DiscardPartial(ctx)
                 THEN NoRun
                 ELSE [run EXCEPT
                         !.pc = "resolving", !.ctx = ctx, !.conn = NoConn,
                         !.asked = cluster,
                         !.list = [u \in Urls |-> IF u \in kept THEN cluster[u]
                                                  ELSE NoId]]
  /\ UNCHANGED <<id, kind, single, activeListCap, cluster, res, req, torn>>

\* The context a caller passed ends, during its discovery or later: the
\* resurrection goroutines it scheduled still wait on it.
Ended(ctx) == IF ctx = "caller" THEN "cancelled" ELSE ctx
Cancel ==
  /\ run.ctx = "caller" \/ \E c \in Conns : res[c].ctx = "caller"
  /\ Spend
  /\ run' = [run EXCEPT !.ctx = Ended(@)]
  /\ res' = [c \in Conns |-> [res[c] EXCEPT !.ctx = Ended(@)]]
  /\ UNCHANGED <<connVars, poolVars, cluster, req, torn>>

\* nodeDiscovery: reuse the object of the same URL and identity, create the
\* others as dead.
FoundByURL(u) ==
  LET inReady == {c \in Listed : Url(c) = u /\ (kind = "single" \/ c \in Range(ready))}
      inDead == {c \in Listed : Url(c) = u /\ kind = "multi" /\ dead[c] > 0}
  IN  IF inReady # {} THEN inReady ELSE inDead
CanReuseConnectionM(c, u) == TRUE
CanReuseConnection(c, u) == id[c] = run.list[u]
\* A new object takes a number that no live object has.  What is left of the
\* others, which only a goroutine about to exit may still refer to, is forgotten.
InUse(c) == c \in Fallbacks \cup Listed \cup {req}
Free(u) == {n \in 1 .. MaxObjects : ~InUse(<<u, n>>)}
NewConnection(u) == <<u, CHOOSE n \in Free(u) : TRUE>>

Resolve ==
  /\ run.pc = "resolving"
  /\ \E old \in [Members(run.list) -> Listed \cup {NoConn}] :
       /\ \A u \in Members(run.list) :
            IF FoundByURL(u) = {} THEN old[u] = NoConn ELSE old[u] \in FoundByURL(u)
       /\ LET reused == {u \in Members(run.list) :
                           old[u] # NoConn /\ CanReuseConnection(old[u], u)}
              new == Members(run.list) \ reused
              kept == {old[u] : u \in reused}
              made == {NewConnection(u) : u \in new}
          IN  /\ \A u \in new : Free(u) # {}
              /\ id' = [c \in Conns |-> IF c \in made THEN run.list[Url(c)]
                                        ELSE IF InUse(c) THEN id[c] ELSE NoId]
              /\ lc' = [c \in Conns |-> IF c \in made THEN {"unknown"}
                                        ELSE IF InUse(c) THEN lc[c] ELSE {}]
              /\ deadSince' = {c \in deadSince : InUse(c)}
              /\ res' = [c \in Conns |-> IF InUse(c) THEN res[c] ELSE NoGoroutine]
              /\ run' = [run EXCEPT !.pc = "classifying", !.was = Listed,
                                    !.ready = kept, !.dead = made]
  /\ UNCHANGED <<poolVars, cluster, req, events, torn>>

\* updateConnectionPool: what is dead by now goes to the dead list.
Classify ==
  /\ run.pc = "classifying"
  /\ run' = [run EXCEPT !.pc = "swapping", !.ready = @ \ deadSince,
                        !.dead = @ \cup (run.ready \cap deadSince)]
  /\ UNCHANGED <<connVars, poolVars, cluster, res, req, events, torn>>

\* The new dead connections are scheduled on the context of the discovery.
ScheduleDead ==
  /\ res' = Scheduled(res, run.dead, run.ctx)
  /\ run' = NoRun

\* createOrUpdateMultiNodePoolWithLock on an existing pool, first section of
\* the pool mutex: activeCount is not touched.
SwapLists ==
  /\ run.pc = "swapping" /\ kind = "multi"
  /\ Cardinality(run.ready \cup run.dead) > 1
  /\ ready' \in Shuffles(run.ready)
  /\ dead' = [c \in Conns |-> IF c \in run.dead THEN 1 ELSE 0]
  /\ deadSince' = deadSince \cup run.dead
  /\ lc' = MarkUnknown(run.dead)
  /\ run' = [run EXCEPT !.pc = "partitioning", !.shared = TRUE]
  /\ torn' = FALSE
  /\ UNCHANGED <<id, kind, single, activeCount, activeListCap,
                 cluster, res, req, events>>

\* An eviction from the shared array clears its last entry, which the loop of the
\* second section then dereferences.
NilEntry == InGap /\ run.shared /\ Len(ready) < Cardinality(run.ready)

\* Second section: the local slice is partitioned in place by the lifecycle bits,
\* the entries at the indices front first.
PartitionedSlices(s, front) ==
  {[i \in DOMAIN s |-> s[p[i]]] :
     p \in {q \in [DOMAIN s -> DOMAIN s] :
              IsInjective(q) /\ \A i \in DOMAIN s : q[i] \in front <=> i <= Cardinality(front)}}
NewActiveCountM(front) == activeCount
NewActiveCount(front) == Cardinality(front)
StaysStandby(c) == "standby" \in lc[c] /\ "active" \notin lc[c]
Partition ==
  /\ InGap /\ ~NilEntry
  /\ LET slice == IF run.shared THEN ready ELSE run.local
         front == {i \in DOMAIN slice : ~StaysStandby(slice[i])}
         actives == {slice[i] : i \in front}
     IN  /\ lc' = [c \in Conns |-> IF c \in actives THEN SetActive(lc[c]) ELSE lc[c]]
         /\ ready' \in IF run.shared THEN PartitionedSlices(slice, front) ELSE {ready}
         /\ activeCount' = NewActiveCount(front)
  /\ activeListCap' = Cardinality(run.ready \cup run.dead)
  /\ ScheduleDead
  /\ UNCHANGED <<id, deadSince, kind, single, dead, cluster, req, events, torn>>

\* promoteConnectionPoolWithLock: a new pool; the dead list is assigned as is.
Promote ==
  /\ run.pc = "swapping" /\ kind = "single"
  /\ Cardinality(run.ready \cup run.dead) > 1
  /\ kind' = "multi" /\ single' = NoConn
  /\ ready' \in Shuffles(run.ready)
  /\ activeCount' = Cardinality(run.ready)
  /\ activeListCap' = ActiveListCap
  /\ dead' = [c \in Conns |-> IF c \in run.dead THEN 1 ELSE 0]
  /\ lc' = [c \in Conns |-> IF c \in run.ready THEN SetActive(lc[c]) ELSE lc[c]]
  /\ ScheduleDead
  /\ torn' = FALSE
  /\ UNCHANGED <<id, deadSince, cluster, req, events>>

\* createOrUpdateSingleNodePool.  Demotion cancels the old pool's context and
\* takes a connection from the old lists; goroutines keep the old pool.
DemoteCandidates == IF ready # <<>> THEN Range(ready)
                    ELSE {c \in Conns : dead[c] > 0}
ToSingle(c) ==
  /\ kind' = "single" /\ single' = c
  /\ lc' = [lc EXCEPT ![c] = SetActive(@)]
  /\ ready' = <<>> /\ activeCount' = 0
  /\ dead' = [d \in Conns |-> 0]
  /\ run' = NoRun

SwapSingle ==
  /\ run.pc = "swapping"
  /\ Cardinality(run.ready \cup run.dead) = 1
  /\ \/ /\ kind = "multi"
        /\ \E c \in DemoteCandidates : ToSingle(c)
        /\ res' = [c \in Conns |->
             IF res[c].pc = "none" THEN res[c]
             ELSE [res[c] EXCEPT
                     !.ctx = IF @ = "pool" THEN "cancelled" ELSE @,
                     !.cp = IF @ = "current" /\ InPool(c) THEN "old" ELSE "gone"]]
     \/ /\ kind = "single"
        /\ \E c \in run.ready \cup run.dead : ToSingle(c)
        /\ UNCHANGED res
  /\ torn' = FALSE
  /\ UNCHANGED <<id, deadSince, activeListCap, cluster, req, events>>

-----------------------------------------------------------------------------
(* Resurrection goroutines *)

CtxDone(c) == res[c].ctx = "cancelled"

\* stillInPool: the goroutine looks into the pool it was started for.
StillInPool(c) == CASE res[c].cp = "current" -> InPool(c)
                    [] res[c].cp = "old" -> TRUE
                    [] OTHER -> FALSE
Exit(c) == res' = [res EXCEPT ![c] = NoGoroutine]

\* ctx.Done(), or the timer and the tests under both locks; a health check
\* that fails leads to another wait.
ResurrectExits(c) ==
  /\ res[c].pc = "waiting"
  /\ CtxDone(c) \/ c \notin deadSince \/ ~StillInPool(c)
  /\ Exit(c)
  /\ UNCHANGED <<connVars, poolVars, cluster, run, req, events, torn>>

ProbePasses(c) ==
  /\ res[c].pc = "waiting" /\ c \in deadSince /\ StillInPool(c)
  /\ ~CtxDone(c) /\ Reachable(c)
  /\ res' = [res EXCEPT ![c].pc = "passed"]
  /\ UNCHANGED <<connVars, poolVars, cluster, run, req, events, torn>>

\* attemptHealthCheckWithRelock after the check.  A goroutine of a pool that has
\* been demoted still changes the connection.
ResurrectRelock(c) ==
  /\ res[c].pc = "passed"
  /\ Exit(c)
  /\ \/ /\ c \notin deadSince \/ ~StillInPool(c)
        /\ UNCHANGED <<lc, deadSince, listVars, run>>
     \/ /\ c \in deadSince /\ StillInPool(c) /\ res[c].cp = "current"
        /\ Resurrect(c) /\ AppendInGap
     \/ /\ c \in deadSince /\ res[c].cp = "old"
        /\ deadSince' = deadSince \ {c}
        /\ lc' = [lc EXCEPT ![c] = SetActive(@) \cup {"viable"}]
        /\ UNCHANGED <<listVars, run>>
  /\ UNCHANGED <<id, kind, single, activeListCap, cluster, req, events, torn>>

-----------------------------------------------------------------------------
(* Requests and the cluster *)

\* A request takes a connection; c.mu is released before Next is called.
RequestNext ==
  /\ req = NoConn
  /\ \E c \in Conns \cup {NoConn} : PoolNext(c) /\ req' = c
  /\ torn' = (torn \/ (InGap /\ dead' # dead))
  /\ UNCHANGED <<id, kind, single, activeListCap, cluster, res, run, events>>

RequestSucceeds ==
  /\ req # NoConn /\ TransportFree /\ Reachable(req)
  /\ PoolOnSuccess(req)
  /\ req' = NoConn
  /\ UNCHANGED <<id, kind, single, activeListCap, cluster, res, run, events, torn>>

RequestFails ==
  /\ req # NoConn /\ TransportFree
  /\ IF Reachable(req) THEN Spend ELSE UNCHANGED events
  /\ PoolOnFailure(req)
  /\ req' = NoConn
  /\ UNCHANGED <<id, kind, single, activeListCap, cluster, run, torn>>

\* A node joins, leaves or is replaced by another one.
ClusterChanges ==
  /\ Spend
  /\ \E u \in Urls, i \in Ids \cup {NoId} :
       /\ cluster[u] # i
       /\ cluster' = [cluster EXCEPT ![u] = i]
       /\ Cardinality(Members(cluster')) >= MinNodes
  /\ UNCHANGED <<connVars, poolVars, res, run, req, torn>>

-----------------------------------------------------------------------------
FirstId == CHOOSE i \in Ids : TRUE

\* New: the seeds are active; one seed makes a single-server pool.
Init ==
  /\ cluster = [u \in Urls |-> IF u \in FirstNodes THEN FirstId ELSE NoId]
  /\ id = [c \in Conns |-> NoId]
  /\ lc = [c \in Conns |-> IF Url(c) \in SeedUrls /\ c[2] <= 1 THEN {"active"} ELSE {}]
  /\ deadSince = {}
  /\ res = [c \in Conns |-> NoGoroutine]
  /\ LET seeds == {<<u, 1>> : u \in SeedUrls}
     IN  IF Cardinality(seeds) = 1
         THEN /\ kind = "single" /\ single \in seeds
              /\ ready = <<>> /\ activeCount = 0
         ELSE /\ kind = "multi" /\ single = NoConn
              /\ ready \in Shuffles(seeds) /\ activeCount = Cardinality(seeds)
  /\ activeListCap = ActiveListCap
  /\ dead = [c \in Conns |-> 0]
  /\ run = NoRun
  /\ req = NoConn
  /\ events = 0 /\ torn = FALSE

Discover ==
  \/ FetchNext \/ FetchFails \/ FetchSucceeds \/ Resolve \/ Classify
  \/ SwapLists \/ Partition \/ Promote \/ SwapSingle
Resurrection(c) ==
  \/ ResurrectExits(c) \/ ProbePasses(c) \/ ResurrectRelock(c)
RequestEnds == RequestSucceeds \/ RequestFails

Next == \/ Discover \/ Cancel
        \/ \E c \in Conns : Resurrection(c)
        \/ RequestNext \/ RequestEnds
        \/ ClusterChanges

Spec == Init /\ [][Next]_vars

\* The loop starts a discovery after each interval, timers fire, requests end,
\* and if a reachable node is asked again and again it answers in the end.  The
\* timer of a resurrection does not for ever fire during the rebuild of a
\* discovery.
Quiet(A) == run.pc = "idle" /\ A
FairSpec ==
  /\ Spec
  /\ WF_vars(Discover) /\ SF_vars(FetchSucceeds)
  /\ WF_vars(\E c \in Conns : ResurrectExits(c))
  /\ SF_vars(\E c \in Conns : Quiet(ProbePasses(c)))
  /\ SF_vars(\E c \in Conns : Quiet(ResurrectRelock(c)))
  /\ WF_vars(RequestEnds)

-----------------------------------------------------------------------------
(* Properties *)

\* The types of the variables.
TypeOK ==
  /\ cluster \in [Urls -> Ids \cup {NoId}]
  /\ id \in [Conns -> Ids \cup {NoId}]
  /\ lc \in [Conns -> SUBSET Bits]
  /\ deadSince \subseteq Conns
  /\ res \in [Conns -> [pc : {"none", "waiting", "passed"},
                        ctx : Contexts \cup {"none", "pool"},
                        cp : {"none", "current", "old", "gone"}]]
  /\ kind \in {"single", "multi"} /\ single \in Conns \cup {NoConn}
  /\ ready \in Seq(Conns) /\ dead \in [Conns -> Nat]
  /\ activeCount \in Nat /\ activeListCap \in Nat
  /\ run \in [pc : RunPcs, ctx : Contexts, conn : Conns \cup {NoConn},
              asked : [Urls -> Ids \cup {NoId}], list : [Urls -> Ids \cup {NoId}],
              was : SUBSET Conns, ready : SUBSET Conns, dead : SUBSET Conns,
              shared : BOOLEAN, local : Seq(Conns)]
  /\ req \in Conns \cup {NoConn}
  /\ events \in 0 .. MaxEvents /\ torn \in BOOLEAN

\* The rebuild keeps the Connection object of every node that the cluster listed
\* and that is the one the object was made for (the pointer-identity contract of
\* nodeDiscovery), whatever happened since the answer, a cancelled context
\* included.  It concerns the objects that were in the pool when it was compared
\* with the answer: one that left and that a late failure brings back before the
\* lists are swapped goes again.  Two exceptions: an object with the URL of another
\* one in the pool, and a demotion, which takes any connection of the old pool
\* (CutOff).
SwapStep == run.pc = "swapping" /\ run'.pc # "swapping"
Demotion == kind = "multi" /\ kind' = "single"
Shadowed(c) == \E d \in run.was : d # c /\ Url(d) = Url(c)
KeepsHealthy ==
  \A c \in run.was :
    id[c] # NoId /\ id[c] = run.asked[Url(c)] /\ ~Shadowed(c) => c \in Listed'
HealthyKept == [][SwapStep /\ ~Demotion => KeepsHealthy]_vars

\* Between discoveries the partition of the ready list is well formed, whatever
\* was resurrected, promoted or served between the two sections of the rebuild,
\* and although failures after the classification have left entries without a
\* position bit; unless Next evicted one of those in the gap (NoPanic).
RebuildSettles ==
  kind = "multi" /\ TransportFree /\ ~torn =>
    /\ activeCount <= Len(ready)
    /\ \A i \in 1 .. Len(ready) : lc[ready[i]] \cap {"active", "standby"} # {}

\* When the cluster stops changing and failing, the pool becomes the cluster:
\* one connection of the right identity for each node, none of them dead.
Current(c, u) == Url(c) = u /\ id[c] = cluster[u]
Settled ==
  \/ /\ kind = "single"
     /\ Members(cluster) = {Url(single)} /\ id[single] = cluster[Url(single)]
  \/ /\ kind = "multi"
     /\ \A c \in Conns : dead[c] = 0
     /\ Len(ready) = Cardinality(Members(cluster))
     /\ \A u \in Members(cluster) : \E c \in Range(ready) : Current(c, u)

\* No node the client would ask is reachable.  Seeds that leave, a demotion to
\* the wrong node and a promotion whose new nodes are never checked lead here.
Zombies == {c \in Conns : dead[c] > 0 /\ AvailableForRouting(c)}
Served == IF kind = "single" THEN {c \in {single} : AvailableForRouting(c)}
          ELSE IF activeCount > 0 THEN ActiveConns
          ELSE IF ready # <<>> THEN {ready[1]} ELSE Zombies
CutOff == \A c \in IF Served = {} THEN Fallbacks ELSE Served : ~Reachable(c)

\* A rebuild whose slice has a nil entry ends in a panic instead (NoPanic).
Converges == <>[](CutOff \/ Settled \/ NilEntry)

\* "dead connections must have a timestamp and lcUnknown" (appendToDeadWithLock,
\* pool_multi_server.go:736): without it the resurrection goroutine of a
\* connection exits at once.
DeadAreChecked ==
  kind = "multi" => \A c \in Conns : dead[c] > 0 => c \in deadSince

\* "Holding the lock across the whole section serializes it against
\* resurrection" (discovery.go:1044): whoever takes the pool mutex next indexes
\* the ready list within its bounds, Next below activeCount and a resurrection at
\* it, and the partition loop meets no nil entry.
NoPanic == (kind = "multi" => IndexInRange) /\ ~NilEntry
=============================================================================
