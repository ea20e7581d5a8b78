------------------------------ MODULE TTLCache ------------------------------
(***************************************************************************)
(* The reference-counted idle-TTL cache behind the default clients         *)
(* (internal/ttlcache): GetOrCreate and release against the eviction       *)
(* workers.  One action is one atomic access, one call of user code        *)
(* (Cacheable.New, Close) or one critical section of Cache.mu that nothing *)
(* lock-free can tell apart from a single step.                            *)
(***************************************************************************)
EXTENDS Integers, FiniteSets

CONSTANTS
  Getters,    \* goroutines that call GetOrCreate, one handle each at a time
  Keys,       \* cache keys
  Values,     \* bound: the values Cacheable.New can build
  Workers,    \* bound: eviction goroutines alive at once
  CacheOn,    \* ttl >= 0
  Evicts,     \* ttl > 0
  NoValue, NoKey, NoOne

ASSUME NamesAssumption ==
  /\ NoValue \notin Values /\ NoKey \notin Keys
  /\ NoOne \notin Getters \cup Workers /\ Getters \cap Workers = {}
  /\ {CacheOn, Evicts} \subseteq BOOLEAN
ASSUME GettersAssumption == IsFiniteSet(Getters)

VARIABLES
  cache,     \* the sync.Map
  mapKeys,   \* its key set, as the sweep iterates it
  mu,        \* the holder of Cache.mu
  cancel,    \* the worker whose CancelFunc is stored in mu.cancel
  refCount,  \* Value.refCount, -1 once claimed for eviction
  busy,      \* values whose Liveness() differs from lastLiveness
  built,     \* values New has returned
  closes,    \* Close calls on each value
  get,       \* a call of GetOrCreate and the handle it returned
  wk         \* an eviction worker

vars == <<cache, mapKeys, mu, cancel, refCount, busy, built, closes, get, wk>>

-----------------------------------------------------------------------------
(* GetOrCreate *)

Call(pc, k, e, v) == [pc |-> pc, key |-> k, entry |-> e, own |-> v]
Step(g, pc) == get' = [get EXCEPT ![g].pc = pc]
Done(g) == get' = [get EXCEPT ![g] = Call("idle", NoKey, NoValue, NoValue)]

\* incIfLive succeeds on an entry that no sweep has claimed.
LiveM(n) == n >= -1
Live(n) == n >= 0

\* Load of the sync.Map; an item without a key is built and never stored.
Lookup(g, k) ==
  /\ get[g].pc = "idle"
  /\ IF ~CacheOn \/ k = NoKey
     THEN get' = [get EXCEPT ![g] = Call("build", NoKey, NoValue, NoValue)]
     ELSE get' = [get EXCEPT ![g] =
            Call(IF cache[k] = NoValue THEN "build" ELSE "loaded", k, cache[k], NoValue)]
  /\ UNCHANGED <<cache, mapKeys, mu, cancel, refCount, busy, built, closes, wk>>

IncIfLive(g) ==
  /\ get[g].pc = "loaded"
  /\ LET e == get[g].entry
     IN  \/ /\ Live(refCount[e])
            /\ refCount' = [refCount EXCEPT ![e] = @ + 1]
            /\ Step(g, "holding")
         \/ /\ ~Live(refCount[e])
            /\ Step(g, "build")
            /\ UNCHANGED refCount
  /\ UNCHANGED <<cache, mapKeys, mu, cancel, busy, built, closes, wk>>

\* item.New outside the lock: a new value, or an error.
New(g) ==
  /\ get[g].pc = "build"
  /\ \/ \E v \in Values \ built :
          /\ built' = built \cup {v}
          /\ get' = [get EXCEPT ![g] =
               Call(IF get[g].key = NoKey THEN "owning" ELSE "insert",
                    get[g].key, NoValue, v)]
     \/ Done(g) /\ UNCHANGED built
  /\ UNCHANGED <<cache, mapKeys, mu, cancel, refCount, busy, closes, wk>>

Lock(g) ==
  /\ get[g].pc = "insert" /\ mu = NoOne
  /\ mu' = g
  /\ Step(g, "locked")
  /\ UNCHANGED <<cache, mapKeys, cancel, refCount, busy, built, closes, wk>>

\* Under mu: another goroutine stored the key first and its entry is live.
PresentM(k) == FALSE
Present(k) == cache[k] # NoValue /\ Live(refCount[cache[k]])

InsertHit(g) ==
  /\ get[g].pc = "locked" /\ Present(get[g].key)
  /\ LET e == cache[get[g].key]
     IN  /\ refCount' = [refCount EXCEPT ![e] = @ + 1]
         /\ get' = [get EXCEPT ![g].pc = "discard", ![g].entry = e]
  /\ mu' = NoOne
  /\ UNCHANGED <<cache, mapKeys, cancel, busy, built, closes, wk>>

\* ensureWorkerWithLock: at most one worker whose context is not cancelled.
NoWorkerNeeded == cancel # NoOne \/ ~Evicts
EnsureWorker ==
  \/ NoWorkerNeeded /\ UNCHANGED <<cancel, wk>>
  \/ /\ ~NoWorkerNeeded
     /\ \E w \in Workers :
          /\ wk[w].pc = "none"
          /\ wk' = [wk EXCEPT ![w] = [pc |-> "waiting", done |-> FALSE,
                                      left |-> {}, key |-> NoKey]]
          /\ cancel' = w

InsertMiss(g) ==
  /\ get[g].pc = "locked" /\ ~Present(get[g].key)
  /\ LET v == get[g].own
     IN  /\ refCount' = [refCount EXCEPT ![v] = @ + 1]
         /\ cache' = [cache EXCEPT ![get[g].key] = v]
         /\ mapKeys' = mapKeys \cup {get[g].key}
         /\ get' = [get EXCEPT ![g].pc = "holding", ![g].entry = v, ![g].own = NoValue]
  /\ EnsureWorker
  /\ mu' = NoOne
  /\ UNCHANGED <<busy, built, closes>>

\* The redundant build is closed after the unlock.
Discard(g) ==
  /\ get[g].pc = "discard"
  /\ closes' = [closes EXCEPT ![get[g].own] = @ + 1]
  /\ get' = [get EXCEPT ![g].pc = "holding", ![g].own = NoValue]
  /\ UNCHANGED <<cache, mapKeys, mu, cancel, refCount, busy, built, wk>>

-----------------------------------------------------------------------------
(* The handle *)

\* A request through the shared object moves its liveness probe.
Use(g) ==
  /\ get[g].pc = "holding"
  /\ busy' = busy \cup {get[g].entry}
  /\ UNCHANGED <<cache, mapKeys, mu, cancel, refCount, built, closes, get, wk>>

\* releaseFn decrements once; disabledRelease closes the caller's own value.
Release(g) ==
  /\ \/ /\ get[g].pc = "holding"
        /\ refCount' = [refCount EXCEPT ![get[g].entry] = @ - 1]
        /\ Step(g, "released")
     \/ /\ get[g].pc = "owning"
        /\ Step(g, "closing")
        /\ UNCHANGED refCount
  /\ UNCHANGED <<cache, mapKeys, mu, cancel, busy, built, closes, wk>>

CloseOwn(g) ==
  /\ get[g].pc = "closing"
  /\ closes' = [closes EXCEPT ![get[g].own] = @ + 1]
  /\ Done(g)
  /\ UNCHANGED <<cache, mapKeys, mu, cancel, refCount, busy, built, wk>>

\* A second call of the release function, which sync.OnceValue swallows.
OnceValueM(n) == n - 1
OnceValue(n) == n

ReleaseAgain(g) ==
  /\ get[g].pc = "released"
  /\ refCount' = [refCount EXCEPT ![get[g].entry] = OnceValue(@)]
  /\ Done(g)
  /\ UNCHANGED <<cache, mapKeys, mu, cancel, busy, built, closes, wk>>

-----------------------------------------------------------------------------
(* The eviction worker *)

WorkerAt(w, pc, left, k) ==
  wk' = [wk EXCEPT ![w].pc = pc, ![w].left = left, ![w].key = k]

\* A tick while TryLock fails changes nothing.  A cancelled worker may still
\* take a tick that was buffered.
Sweep(w) ==
  /\ wk[w].pc = "waiting" /\ mu = NoOne
  /\ mu' = w
  /\ WorkerAt(w, "sweep", mapKeys, NoKey)
  /\ UNCHANGED <<cache, mapKeys, cancel, refCount, busy, built, closes, get>>

\* lastLiveness becomes what the probe says now.
ObservedM(v) == busy
Observed(v) == busy \ {v}

SweepVisit(w, k) ==
  /\ wk[w].pc = "sweep" /\ k \in wk[w].left
  /\ LET v == cache[k]
         Skip == WorkerAt(w, "sweep", wk[w].left \ {k}, NoKey)
     IN  IF v = NoValue                                \* onStrayKey
         THEN mapKeys' = mapKeys \ {k} /\ Skip /\ UNCHANGED busy
         ELSE /\ IF refCount[v] # 0 \/ v \in busy
                 THEN busy' = Observed(v) /\ Skip
                 ELSE WorkerAt(w, "claim", wk[w].left \ {k}, k) /\ UNCHANGED busy
              /\ UNCHANGED mapKeys
  /\ UNCHANGED <<cache, mu, cancel, refCount, built, closes, get>>

\* CompareAndSwap(0, -1): a hit since the visit keeps the entry.
SweepClaim(w) ==
  /\ wk[w].pc = "claim"
  /\ LET v == cache[wk[w].key]
     IN  \/ /\ refCount[v] = 0
            /\ refCount' = [refCount EXCEPT ![v] = -1]
            /\ WorkerAt(w, "close", wk[w].left, wk[w].key)
         \/ /\ refCount[v] # 0
            /\ WorkerAt(w, "sweep", wk[w].left, NoKey)
            /\ UNCHANGED refCount
  /\ UNCHANGED <<cache, mapKeys, mu, cancel, busy, built, closes, get>>

SweepClose(w) ==
  /\ wk[w].pc = "close"
  /\ closes' = [closes EXCEPT ![cache[wk[w].key]] = @ + 1]
  /\ WorkerAt(w, "delete", wk[w].left, wk[w].key)
  /\ UNCHANGED <<cache, mapKeys, mu, cancel, refCount, busy, built, get>>

SweepDelete(w) ==
  /\ wk[w].pc = "delete"
  /\ cache' = [cache EXCEPT ![wk[w].key] = NoValue]
  /\ mapKeys' = mapKeys \ {wk[w].key}
  /\ WorkerAt(w, "sweep", wk[w].left, NoKey)
  /\ UNCHANGED <<mu, cancel, refCount, busy, built, closes, get>>

\* The sweep stops whichever worker is registered once no key is left.
StopsWorkerM == cancel # NoOne
StopsWorker == mapKeys = {} /\ cancel # NoOne

SweepEnd(w) ==
  /\ wk[w].pc = "sweep" /\ wk[w].left = {}
  /\ mu' = NoOne
  /\ IF StopsWorker
     THEN /\ cancel' = NoOne
          /\ wk' = [x \in Workers |->
                      [wk[x] EXCEPT !.pc = IF x = w THEN "waiting" ELSE @,
                                    !.done = @ \/ x = cancel]]
     ELSE WorkerAt(w, "waiting", {}, NoKey) /\ UNCHANGED cancel
  /\ UNCHANGED <<cache, mapKeys, refCount, busy, built, closes, get>>

WorkerExit(w) ==
  /\ wk[w].pc = "waiting" /\ wk[w].done
  /\ WorkerAt(w, "none", {}, NoKey)
  /\ UNCHANGED <<cache, mapKeys, mu, cancel, refCount, busy, built, closes, get>>

-----------------------------------------------------------------------------
(* Specification *)

Init ==
  /\ cache = [k \in Keys |-> NoValue] /\ mapKeys = {}
  /\ mu = NoOne /\ cancel = NoOne
  /\ refCount = [v \in Values |-> 0] /\ busy = {}
  /\ built = {} /\ closes = [v \in Values |-> 0]
  /\ get = [g \in Getters |-> Call("idle", NoKey, NoValue, NoValue)]
  /\ wk = [w \in Workers |-> [pc |-> "none", done |-> FALSE, left |-> {}, key |-> NoKey]]

\* What GetOrCreate and the release functions do once called ...
LibraryStep(g) ==
  \/ IncIfLive(g) \/ New(g) \/ Lock(g) \/ InsertHit(g) \/ InsertMiss(g)
  \/ Discard(g) \/ CloseOwn(g)
\* ... and what the application decides to call.
CallerStep(g) ==
  \/ \E k \in Keys \cup {NoKey} : Lookup(g, k)
  \/ Use(g) \/ Release(g) \/ ReleaseAgain(g)
WorkerStep(w) ==
  \/ Sweep(w) \/ (\E k \in Keys : SweepVisit(w, k)) \/ SweepClaim(w)
  \/ SweepClose(w) \/ SweepDelete(w) \/ SweepEnd(w) \/ WorkerExit(w)

Next ==
  \/ \E g \in Getters : LibraryStep(g) \/ CallerStep(g)
  \/ \E w \in Workers : WorkerStep(w)

Spec == Init /\ [][Next]_vars

\* Goroutines inside the library run on, and tickers tick.  Callers promise
\* nothing: they may keep a handle for ever.
FairSpec ==
  /\ Spec
  /\ \A g \in Getters : WF_vars(LibraryStep(g))
  /\ \A w \in Workers : WF_vars(WorkerStep(w))

-----------------------------------------------------------------------------
(* Properties *)

\* The variables keep their types; a reference count is -1 or the count of some
\* clients, so that releases and claims never meet on one entry.
TypeOK ==
  /\ cache \in [Keys -> Values \cup {NoValue}] /\ mapKeys \subseteq Keys
  /\ mu \in Getters \cup Workers \cup {NoOne} /\ cancel \in Workers \cup {NoOne}
  /\ refCount \in [Values -> Int]
  /\ \A v \in Values : refCount[v] \in -1 .. Cardinality(Getters)
  /\ busy \subseteq Values /\ built \subseteq Values
  /\ closes \in [Values -> Nat]
  /\ get \in [Getters ->
       [pc : {"idle", "loaded", "build", "insert", "locked", "discard", "holding",
              "released", "owning", "closing"},
        key : Keys \cup {NoKey}, entry : Values \cup {NoValue},
        own : Values \cup {NoValue}]]
  /\ wk \in [Workers ->
       [pc : {"none", "waiting", "sweep", "claim", "close", "delete"},
        done : BOOLEAN, left : SUBSET Keys, key : Keys \cup {NoKey}]]

Holders(v) == {g \in Getters : get[g].pc \in {"discard", "holding"} /\ get[g].entry = v}

\* The reference count of a value is the number of clients that hold it, or -1,
\* and then nobody holds it: the lock-free hit (incIfLive) and the claim of the
\* sweep agree on one winner.
RefCountExact ==
  \A v \in Values : \/ refCount[v] = Cardinality(Holders(v))
                    \/ refCount[v] = -1 /\ Holders(v) = {}

\* No value leaks: one that is built and not closed is cached, or still in the
\* hands of the call that built it.
NothingLeaks ==
  \A v \in built : closes[v] = 0 =>
    \/ \E k \in Keys : cache[k] = v
    \/ \E g \in Getters : get[g].own = v

\* No entry goes unserviced (the comment at the end of sweep): every cached key
\* is in mapKeys, and while there are any, a worker whose context is not
\* cancelled is running, even between an old worker's exit and its last sweep.
EveryEntrySwept ==
  /\ \A k \in Keys : cache[k] # NoValue => k \in mapKeys
  /\ (Evicts /\ mapKeys # {}) =>
       /\ cancel # NoOne
       /\ wk[cancel].pc # "none" /\ ~wk[cancel].done

\* An entry that is not acquired again is evicted: the sweep forgets old
\* activity, and a cancelled worker is replaced.
IdleEvicted ==
  \A k \in Keys :
    (Evicts /\ cache[k] # NoValue /\ refCount[cache[k]] = 0) ~>
      (cache[k] = NoValue \/ refCount[cache[k]] # 0)

\* What a client has in hand.
Held == [g \in Getters |->
           IF get[g].pc \in {"discard", "holding"} THEN get[g].entry
           ELSE IF get[g].pc = "owning" THEN get[g].own ELSE NoValue]
Abstract == INSTANCE SharedValues WITH held <- Held

\* GetOrCreate, release and the sweep implement SharedValues: no client is ever
\* handed a closed value, no value is closed while held, or twice.
ClosedOnceWhenFree == Abstract!Spec

=============================================================================
