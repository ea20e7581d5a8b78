------------------------------ MODULE ConnPool ------------------------------
(***************************************************************************)
(* The connection pool of the OpenSearch Go client                         *)
(* (opensearchtransport/multiServerPool) and the goroutines that share it: *)
(* requests (Next / OnSuccess / OnFailure), one resurrection goroutine per *)
(* dead connection, standby promotion and rotation, the node-stats poller  *)
(* and the expiry of the viability mark.                                   *)
(*                                                                         *)
(* One action is one critical section of the pool mutex (cp.mu), or one    *)
(* network exchange, which the code always performs with the mutex         *)
(* released.  The order of the entries inside a list is abstracted: where  *)
(* the code takes the entry at an index, the action takes any entry.       *)
(***************************************************************************)
EXTENDS Naturals, FiniteSets, Functions

CONSTANTS
  Conns,                  \* the members of the pool
  Seeds,                  \* those built from the user's URLs (Connection.seed)
  Managers,               \* those with isDedicatedClusterManager roles
  Weight,                 \* effectiveWeight of each connection
  ActiveListCap,          \* activeListCap; 0 disables the cap
  HealthCheckConfigured,  \* pool.mu.healthCheck # nil
  DrainingChecks,         \* defaultDrainingQuiescingChecks
  PromotionChecks,        \* standbyPromotionChecks
  VerifyDeadAfter,        \* Transport.verifyDeadAfter > 0
  StatsPolling,           \* the node-stats poller runs
  Clients,                \* concurrent requests
  Workers,                \* goroutines running healthcheckStart
  MaxFaults,              \* bound: failures and overloads the nodes produce
  NoConn

ASSUME ConnsAssumption ==
  /\ Seeds \subseteq Conns
  /\ Managers \subseteq Conns \ Seeds
  /\ NoConn \notin Conns
ASSUME WeightAssumption == Weight \in [Conns -> Nat \ {0}]
ASSUME ParametersAssumption ==
  /\ {ActiveListCap, DrainingChecks, PromotionChecks, MaxFaults} \subseteq Nat
  /\ {HealthCheckConfigured, VerifyDeadAfter, StatsPolling} \subseteq BOOLEAN

VARIABLES
  lc,         \* lifecycle bits of a connection (connLifecycle)
  deadSince,  \* the connections whose deadSince is set
  quiescing,  \* drainingQuiescingRemaining
  warming,    \* the connections in warmup (connState.isWarmingUp)
  active,     \* entries of a connection in ready[:activeCount]
  standby,    \* entries of a connection in ready[activeCount:]
  dead,       \* entries of a connection in the dead list
  req,        \* a request, or the proactive check it leaves behind
  res,        \* the resurrection goroutine of a connection; its pc is not
              \* "none" exactly while checkStartedAt is set
  spawned,    \* asyncPromoteStandby goroutines that have not started yet
  wk,         \* a goroutine inside healthcheckStart
  poll,       \* the stats poller's snapshot: connections still to be asked, and
              \* the overloaded one it has just found unreachable
  expiring,   \* connection resetDeadConnViability has decided to expire
  reached,    \* history: discovered nodes that answered a request or a check
  faults      \* failures and overloads so far

connVars == <<lc, deadSince, quiescing, warming>>
listVars == <<active, standby, dead>>
taskVars == <<res, spawned, wk, poll, expiring>>
vars == <<connVars, listVars, taskVars, req, reached, faults>>

LifecycleBits == {"ready", "unknown", "active", "standby", "needsWarmup",
                  "overloaded", "healthChecking", "viable"}

-----------------------------------------------------------------------------
(* Connection state *)

CasLifecycleM(bits, set, clear) == bits \cup set
CasLifecycle(bits, set, clear) == (bits \cup set) \ clear

IsReady(bits) == bits \cap {"active", "standby"} # {}

Overloaded(c) == "overloaded" \in lc[c]
Unknown(c) == "unknown" \in lc[c]
Draining(c) == quiescing[c] > 0

\* decrementDrainingQuiescing never goes below zero.
DecrementQuiescingM(n) == n - 1
DecrementQuiescingM2(n) == n
DecrementQuiescing(n) == IF n > 0 THEN n - 1 ELSE 0

\* A connection that may be dialled without a position in the ready list.
AvailableForRoutingM(c) == TRUE
AvailableForRouting(c) == c \in Seeds \/ "viable" \in lc[c]

\* tryWarmupSkip on the last round of the warmup.
CompleteWarmup(bits) == CasLifecycle(bits, {"ready"}, {"needsWarmup"})

\* startWarmup starts only a connection that still needs it.
StartWarmup(c) == {d \in {c} : "needsWarmup" \in lc[d]}

-----------------------------------------------------------------------------
(* The lists *)

ActiveCount == SumFunction(active)
StandbyCount == SumFunction(standby)
InReady(c) == active[c] + standby[c] > 0
BelowCap == ActiveListCap = 0 \/ ActiveCount < ActiveListCap

\* removeFromReadyWithLock then appendToDeadWithLock; the callers' change of lc
\* includes the lcUnknown that appendToDeadWithLock enforces.
MoveToDead(c) ==
  /\ deadSince' = deadSince \cup {c}
  /\ active' = [active EXCEPT ![c] = 0]
  /\ standby' = [standby EXCEPT ![c] = 0]
  /\ dead' = [dead EXCEPT ![c] = @ + 1]

\* resurrectWithLock: to the active partition below the cap, else to standby.
ResurrectBits(c, bit) ==
  CasLifecycle(lc[c], {"viable", bit}, {"unknown", "active", "standby"} \ {bit})

Resurrect(c) ==
  /\ deadSince' = deadSince \ {c}
  /\ dead' = [dead EXCEPT ![c] = @ - 1]
  /\ \/ /\ BelowCap
        /\ lc' = [lc EXCEPT ![c] = ResurrectBits(c, "active")]
        /\ warming' = warming \cup StartWarmup(c)
        /\ active' = [active EXCEPT ![c] = @ + Weight[c]]
        /\ UNCHANGED standby
     \/ /\ ~BelowCap
        /\ lc' = [lc EXCEPT ![c] = ResurrectBits(c, "standby")]
        /\ standby' = [standby EXCEPT ![c] = @ + Weight[c]]
        /\ UNCHANGED <<active, warming>>

\* enforceActiveCapWithLock: keep every warming entry and ActiveListCap of the
\* others; moved says how many entries of each connection overflow to standby.
WarmEntries == SumFunctionOnSet(active, {c \in Conns : c \notin warming})
Overflows ==
  {moved \in [Conns -> 0 .. ActiveCount] :
     /\ \A c \in Conns : moved[c] <= (IF c \in warming THEN 0 ELSE active[c])
     /\ SumFunction(moved) = WarmEntries - ActiveListCap}
EnforceActiveCap ==
  IF ActiveListCap = 0 \/ WarmEntries <= ActiveListCap
  THEN UNCHANGED <<lc, active, standby>>
  ELSE \E moved \in Overflows :
         /\ active' = [c \in Conns |-> active[c] - moved[c]]
         /\ standby' = [c \in Conns |-> standby[c] + moved[c]]
         /\ lc' = [c \in Conns |->
                     IF moved[c] = 0 THEN lc[c]
                     ELSE CasLifecycle(lc[c], {"standby", "needsWarmup"},
                                       {"active"})]

-----------------------------------------------------------------------------
(* Requests: Transport.stream without a router *)

\* Transport.mu is held across OnSuccess and across OnFailure including the
\* scheduleResurrect that follows the release of the pool mutex.
TransportFree == \A k \in Clients : req[k].pc # "schedule"

Request(pc, c, hasStandby) == [pc |-> pc, conn |-> c, hasStandby |-> hasStandby]
Step(k, pc, c) == req' = [req EXCEPT ![k] = Request(pc, c, FALSE)]
Spend == faults < MaxFaults /\ faults' = faults + 1

\* Active connections Next may serve, and those that lost their position bit.
ServableM == {c \in Conns \ Managers :
                active[c] > 0 /\ IsReady(lc[c]) /\ c \notin warming}
Servable == {c \in Conns \ Managers : active[c] > 0 /\ IsReady(lc[c])}
Demoted == {c \in Conns \ Managers : active[c] > 0 /\ ~IsReady(lc[c])}
ActiveManagers == {c \in Managers : active[c] > 0}

\* multiServerPool.Next under the read lock.  A warming connection is served
\* when its skip count runs out, or when every active connection is warming.
NextConn(k) ==
  /\ req[k].pc = "idle"
  /\ \/ \E c \in Servable : Step(k, "sent", c) /\ UNCHANGED <<lc, warming>>
     \/ \E c \in Servable :
          /\ c \in warming
          /\ warming' = warming \ {c}
          /\ lc' = [lc EXCEPT ![c] = CompleteWarmup(@)]
          /\ IF ActiveListCap > 0 /\ ActiveCount > ActiveListCap
             THEN Step(k, "trigger", c)
             ELSE Step(k, "sent", c)
     \/ /\ Servable = {} \/ Demoted # {} \/ ActiveManagers # {}
        /\ Step(k, "locked", NoConn)
        /\ UNCHANGED <<lc, warming>>
  /\ UNCHANGED <<deadSince, quiescing, listVars, taskVars, reached, faults>>

\* triggerCapEnforcement: a failed TryLock skips the enforcement.
TriggerCapEnforcement(k) ==
  /\ req[k].pc = "trigger"
  /\ Step(k, "sent", req[k].conn)
  /\ EnforceActiveCap \/ UNCHANGED <<lc, active, standby>>
  /\ UNCHANGED <<deadSince, quiescing, warming, dead, taskVars, reached, faults>>

\* tryZombieWithLock on the dead list, then the cluster-manager test.
ServeZombie(k, deadList) ==
  LET zombies == {c \in Conns : deadList[c] > 0 /\ AvailableForRouting(c)}
  IN  \/ \E c \in zombies \ Managers : Step(k, "sent", c)
      \/ /\ zombies = {} \/ zombies \cap Managers # {}
         /\ Step(k, "exhausted", NoConn)

\* nextWithEviction and nextFallback under the write lock: evict connections
\* that lost their position, then an active one, a standby, or a zombie.
\* Cluster managers use up attempts, so that after an eviction the round-robin
\* may miss a connection it could serve.
NextFallback(k) ==
  /\ req[k].pc = "locked"
  /\ \E evicted \in SUBSET Demoted :
       LET act == [c \in Conns |-> IF c \in evicted THEN 0 ELSE active[c]]
           stb == [c \in Conns |-> IF c \in evicted THEN 0 ELSE standby[c]]
           bits == [c \in Conns |->
                      IF c \in evicted THEN lc[c] \cup {"unknown"} ELSE lc[c]]
       IN  /\ deadSince' = deadSince \cup evicted
           /\ dead' = [c \in Conns |->
                         IF c \in evicted THEN dead[c] + 1 ELSE dead[c]]
           /\ \/ /\ \E c \in Servable : Step(k, "sent", c)
                 /\ active' = act /\ standby' = stb /\ lc' = bits
              \/ /\ \/ Servable = {} /\ evicted = Demoted
                    \/ evicted # {} /\ ActiveManagers # {}
                 /\ \/ \E c \in Conns :         \* tryStandbyWithLock
                         /\ stb[c] > 0
                         /\ active' = [act EXCEPT ![c] = @ + 1]
                         /\ standby' = [stb EXCEPT ![c] = @ - 1]
                         /\ lc' = [bits EXCEPT ![c] =
                              CasLifecycle(@, {"active"}, {"standby", "needsWarmup"})]
                         /\ IF c \in Managers THEN ServeZombie(k, dead')
                                              ELSE Step(k, "sent", c)
                    \/ /\ \A c \in Conns : stb[c] = 0
                       /\ active' = act /\ standby' = stb /\ lc' = bits
                       /\ ServeZombie(k, dead')
  /\ UNCHANGED <<quiescing, warming, taskVars, reached, faults>>

\* ErrNoConnections: the request leaves the pool for the seed fallback.
LeavePool(k) ==
  /\ req[k].pc = "exhausted"
  /\ Step(k, "idle", NoConn)
  /\ UNCHANGED <<connVars, listVars, taskVars, reached, faults>>

ShouldSkipDrainingM(c) == FALSE
ShouldSkipDraining(c) == Draining(c)
ShouldSkipOverloaded(c) == Overloaded(c)

\* A response arrives and OnSuccess runs.  A response that announces the close
\* of its connection leaves a proactive health check behind.
OnSuccess(k) ==
  /\ req[k].pc = "sent" /\ TransportFree
  /\ LET c == req[k].conn
     IN  /\ reached' = reached \cup ({c} \ Seeds)
         /\ IF c \in deadSince /\ ~ShouldSkipDraining(c) /\ ~ShouldSkipOverloaded(c)
            THEN Resurrect(c)
            ELSE UNCHANGED <<lc, deadSince, warming, listVars>>
         /\ \/ Step(k, "idle", NoConn)
            \/ HealthCheckConfigured /\ Step(k, "proactive", c)
  /\ UNCHANGED <<quiescing, taskVars, faults>>

\* The round trip fails; an HTTP/2 stream reset also starts the draining.
RequestFails(k) ==
  /\ req[k].pc = "sent" /\ Spend
  /\ Step(k, "failed", req[k].conn)
  /\ \/ UNCHANGED quiescing
     \/ quiescing' = [quiescing EXCEPT ![req[k].conn] = DrainingChecks]
  /\ UNCHANGED <<lc, deadSince, warming, listVars, taskVars, reached>>

\* OnFailure under the pool mutex.
OnFailureIgnoredM(c) == FALSE
OnFailureIgnored(c) == Unknown(c)

OnFailure(k) ==
  /\ req[k].pc = "failed" /\ TransportFree
  /\ LET c == req[k].conn
     IN  \/ /\ OnFailureIgnored(c)
            /\ Step(k, "idle", NoConn)
            /\ UNCHANGED <<lc, deadSince, listVars>>
         \/ /\ ~OnFailureIgnored(c)
            /\ MoveToDead(c)
            /\ lc' = [lc EXCEPT ![c] =
                        CasLifecycle(@, {"unknown", "needsWarmup"},
                                     {"ready", "active", "standby", "overloaded"})]
            /\ req' = [req EXCEPT ![k] =
                 Request("schedule", c, \E d \in Conns \ {c} : standby[d] > 0)]
  /\ UNCHANGED <<quiescing, warming, taskVars, reached, faults>>

-----------------------------------------------------------------------------
(* Resurrection goroutines *)

\* scheduleResurrect: no second goroutine while checkStartedAt is set.
ScheduleResurrect(c, ctx, bits) ==
  IF res[c].pc # "none"
  THEN res' = res /\ lc' = bits
  ELSE /\ res' = [res EXCEPT ![c] = [pc |-> "waiting", ctx |-> ctx]]
       /\ lc' = [bits EXCEPT ![c] = @ \cup {"healthChecking"}]

\* The rest of OnFailure, after the pool mutex is released.
OnFailureSchedule(k) ==
  /\ req[k].pc = "schedule"
  /\ ScheduleResurrect(req[k].conn, "pool", lc)
  /\ spawned' = IF req[k].hasStandby THEN spawned + 1 ELSE spawned
  /\ Step(k, "idle", NoConn)
  /\ UNCHANGED <<deadSince, quiescing, warming, listVars, wk, poll, expiring,
                 reached, faults>>

\* performHealthCheck when the node answers: one quiescing check less, and one
\* warmup tick, which may be the last.
HealthCheckPasses(c) ==
  /\ reached' = reached \cup ({c} \ Seeds)
  /\ quiescing' = [quiescing EXCEPT ![c] = DecrementQuiescing(@)]
  /\ \/ UNCHANGED <<lc, warming>>
     \/ /\ c \in warming
        /\ warming' = warming \ {c}
        /\ lc' = [lc EXCEPT ![c] = CompleteWarmup(@)]

ResStep(c, pc) == res' = [res EXCEPT ![c].pc = pc]

\* The timer fires: scheduleResurrect's closure up to the health check.
ResurrectWake(c) ==
  /\ res[c].pc = "waiting"
  /\ IF c \notin deadSince \/ Overloaded(c)
     THEN ResStep(c, "exiting") /\ UNCHANGED <<lc, deadSince, warming, listVars>>
     ELSE IF HealthCheckConfigured
          THEN ResStep(c, "probing") /\ UNCHANGED <<lc, deadSince, warming, listVars>>
          ELSE ResStep(c, "exiting") /\ Resurrect(c)
  /\ UNCHANGED <<quiescing, req, spawned, wk, poll, expiring, reached, faults>>

\* ctx.Done() while waiting for the timer.
ResurrectCancelled(c) ==
  /\ res[c] = [pc |-> "waiting", ctx |-> "cancelled"]
  /\ ResStep(c, "exiting")
  /\ UNCHANGED <<connVars, listVars, req, spawned, wk, poll, expiring, reached, faults>>

ResurrectProbe(c) ==
  /\ res[c].pc = "probing"
  /\ \/ /\ res[c].ctx # "cancelled"
        /\ HealthCheckPasses(c)
        /\ ResStep(c, "passed")
        /\ UNCHANGED faults
     \/ /\ IF res[c].ctx = "cancelled" THEN UNCHANGED faults ELSE Spend
        /\ ResStep(c, "waiting")
        /\ UNCHANGED <<lc, quiescing, warming, reached>>
  /\ UNCHANGED <<deadSince, listVars, req, spawned, wk, poll, expiring>>

\* The locks are taken again after a passed check.
ResurrectRelock(c) ==
  /\ res[c].pc = "passed"
  /\ \/ /\ c \notin deadSince
        /\ ResStep(c, "exiting")
        /\ UNCHANGED <<lc, deadSince, warming, listVars>>
     \/ /\ c \in deadSince /\ Draining(c)
        /\ ResStep(c, "waiting")
        /\ UNCHANGED <<lc, deadSince, warming, listVars>>
     \/ /\ c \in deadSince /\ ~Draining(c)
        /\ ResStep(c, "exiting")
        /\ Resurrect(c)
  /\ UNCHANGED <<quiescing, req, spawned, wk, poll, expiring, reached, faults>>

\* The goroutine's deferred function: only now may another one be scheduled.
ResurrectExit(c) ==
  /\ res[c].pc = "exiting"
  /\ res' = [res EXCEPT ![c] = [pc |-> "none", ctx |-> "pool"]]
  /\ lc' = [lc EXCEPT ![c] = @ \ {"healthChecking"}]
  /\ UNCHANGED <<deadSince, quiescing, warming, listVars, req, spawned, wk, poll,
                 expiring, reached, faults>>

-----------------------------------------------------------------------------
(* Standby promotion: asyncPromoteStandby and rotateStandby *)

WkStep(w, pc) == wk' = [wk EXCEPT ![w].pc = pc]
Worker(pc, c, kind, left) == [pc |-> pc, cand |-> c, kind |-> kind, left |-> left, ok |-> TRUE]
IdleWorker == Worker("idle", NoConn, "async", 0)

\* The goroutine ends; rotateStandby cancels its context when it returns.
EndedRes(w) ==
  IF wk[w].kind = "async" THEN res
  ELSE [c \in Conns |-> IF res[c].ctx = "rotation"
                        THEN [res[c] EXCEPT !.ctx = "cancelled"] ELSE res[c]]
EndWorker(w) == wk' = [wk EXCEPT ![w] = IdleWorker] /\ res' = EndedRes(w)

\* No promotion this time: rotateStandby looks for another candidate.
GiveUp(w) ==
  IF wk[w].kind = "rotate"
  THEN wk' = [wk EXCEPT ![w] = Worker("find", NoConn, "rotate", 0)] /\ UNCHANGED res
  ELSE EndWorker(w)

StartAsyncPromote(w) ==
  /\ wk[w].pc = "idle" /\ spawned > 0
  /\ spawned' = spawned - 1
  /\ wk' = [wk EXCEPT ![w].pc = "find", ![w].kind = "async"]
  /\ UNCHANGED <<connVars, listVars, req, res, poll, expiring, reached, faults>>

\* Discovery is single-flight, so one rotation at a time.
StartRotation(w) ==
  /\ ActiveListCap > 0
  /\ wk[w].pc = "idle"
  /\ \A v \in Workers : wk[v].pc = "idle" \/ wk[v].kind = "async"
  /\ wk' = [wk EXCEPT ![w].pc = "find", ![w].kind = "rotate"]
  /\ UNCHANGED <<connVars, listVars, req, res, spawned, poll, expiring, reached, faults>>

IdleStandby == {c \in Conns : standby[c] > 0
                  /\ lc[c] \cap {"overloaded", "unknown", "healthChecking"} = {}}
CheckedStandby == {c \in Conns : standby[c] > 0
                  /\ lc[c] \cap {"overloaded", "unknown", "healthChecking"}
                       = {"healthChecking"}}

\* findActiveCandidate: claim an idle standby, else share a claimed one.
FindActiveCandidate(w) ==
  LET Check(c) ==
        wk' = [wk EXCEPT ![w] =
                 Worker(IF HealthCheckConfigured /\ PromotionChecks > 0
                        THEN "probe" ELSE "relock", c, wk[w].kind, PromotionChecks)]
  IN  /\ wk[w].pc = "find"
      /\ \/ \E c \in IdleStandby :
              /\ Check(c)
              /\ lc' = [lc EXCEPT ![c] = @ \cup {"healthChecking", "needsWarmup"}]
              /\ UNCHANGED res
         \/ /\ IdleStandby = {}
            /\ \E c \in CheckedStandby : Check(c)
            /\ UNCHANGED <<lc, res>>
         \/ /\ IdleStandby \cup CheckedStandby = {}
            /\ EndWorker(w)
            /\ UNCHANGED lc
      /\ UNCHANGED <<deadSince, quiescing, warming, listVars, req, spawned, poll,
                     expiring, reached, faults>>

\* performStandbyHealthCheck: PromotionChecks passes in a row, or one failure.
StandbyProbe(w) ==
  /\ wk[w].pc = "probe"
  /\ \/ /\ HealthCheckPasses(wk[w].cand)
        /\ wk' = [wk EXCEPT ![w] =
                    Worker(IF wk[w].left = 1 THEN "relock" ELSE "probe",
                           wk[w].cand, wk[w].kind, wk[w].left - 1)]
        /\ UNCHANGED faults
     \/ /\ Spend
        /\ wk' = [wk EXCEPT ![w].pc = "relock", ![w].ok = FALSE]
        /\ UNCHANGED <<lc, quiescing, warming, reached>>
  /\ UNCHANGED <<deadSince, listVars, req, res, spawned, poll, expiring>>

\* healthcheckStart after the checks: fix up the lists or hand the candidate on.
StandbyInReadyM(c) == TRUE
StandbyInReady(c) == InReady(c)

StandbyRelock(w) ==
  LET c == wk[w].cand
      ctx == IF wk[w].kind = "rotate" THEN "rotation" ELSE "pool"
      bits == [lc EXCEPT ![c] = @ \ {"healthChecking"}]
  IN  /\ wk[w].pc = "relock"
      /\ \/ /\ ~StandbyInReady(c)
            /\ GiveUp(w)
            /\ lc' = bits
            /\ UNCHANGED <<deadSince, listVars>>
         \/ /\ StandbyInReady(c) /\ Unknown(c)      \* evictUnknownFromReadyWithLock
            /\ MoveToDead(c)
            /\ ScheduleResurrect(c, ctx, bits)
            /\ WkStep(w, "retry")
         \/ /\ StandbyInReady(c) /\ ~Unknown(c) /\ ~wk[w].ok
            /\ MoveToDead(c)
            /\ ScheduleResurrect(c, ctx, [bits EXCEPT ![c] =
                 CasLifecycle(@, {"unknown", "needsWarmup"}, {"ready", "active", "standby"})])
            /\ WkStep(w, "retry")
         \/ /\ StandbyInReady(c) /\ ~Unknown(c) /\ wk[w].ok /\ standby[c] = 0
            /\ GiveUp(w)
            /\ lc' = [bits EXCEPT ![c] = @ \ {"needsWarmup"}]
            /\ UNCHANGED <<deadSince, listVars>>
         \/ /\ StandbyInReady(c) /\ ~Unknown(c) /\ wk[w].ok /\ standby[c] > 0
            /\ WkStep(w, "promote")
            /\ lc' = bits
            /\ UNCHANGED <<deadSince, listVars, res>>
      /\ UNCHANGED <<quiescing, warming, req, spawned, poll, expiring, reached, faults>>

\* The caller of healthcheckStart gets no candidate back.
StandbyRetry(w) ==
  /\ wk[w].pc = "retry"
  /\ GiveUp(w)
  /\ UNCHANGED <<connVars, listVars, req, spawned, poll, expiring, reached, faults>>

\* promoteStandbyWithLock, in a critical section of its own.
PromoteStandby(w) ==
  LET c == wk[w].cand
  IN  /\ wk[w].pc = "promote"
      /\ \/ /\ standby[c] = 0
            /\ GiveUp(w)
            /\ UNCHANGED <<lc, warming, active, standby>>
         \/ /\ standby[c] > 0
            /\ active' = [active EXCEPT ![c] = @ + 1]
            /\ standby' = [standby EXCEPT ![c] = @ - 1]
            /\ lc' = [lc EXCEPT ![c] = CasLifecycle(@, {"active"}, {"standby"})]
            /\ warming' = warming \cup StartWarmup(c)
            /\ EndWorker(w)
      /\ UNCHANGED <<deadSince, quiescing, dead, req, spawned, poll, expiring,
                     reached, faults>>

-----------------------------------------------------------------------------
(* The node-stats poller *)

\* pollNodeStats: the ready connections, and the dead ones marked overloaded.
PollSnapshot ==
  /\ StatsPolling /\ poll = {}
  /\ poll' = {c \in Conns : InReady(c) \/ (dead[c] > 0 /\ Overloaded(c))} \X {"ask"}
  /\ UNCHANGED <<connVars, listVars, req, res, spawned, wk, expiring, reached, faults>>

\* The snapshot is polled by one goroutine, one connection at a time.
Asks(c) == <<c, "ask">> \in poll /\ \A d \in Conns : <<d, "lost">> \notin poll
Asked(c) == poll \ {<<c, "ask">>}

\* The poll decides nothing: no usable answer, none at all of a node that was
\* not overloaded, or a node that still is.
PollNoVerdict(c) ==
  /\ Asks(c) /\ Spend
  /\ poll' = Asked(c)
  /\ UNCHANGED <<connVars, listVars, req, res, spawned, wk, expiring, reached>>

\* The poll gets no answer of a connection that a lock-free read finds
\* overloaded ...
PollUnreachable(c) ==
  /\ Asks(c) /\ Overloaded(c) /\ Spend
  /\ poll' = Asked(c) \cup {<<c, "lost">>}
  /\ UNCHANGED <<connVars, listVars, req, res, spawned, wk, expiring, reached>>

\* ... which then loses its position, in whatever list it is by now, and keeps
\* lcOverloaded if it still has it.
PollLoses(c) ==
  /\ <<c, "lost">> \in poll
  /\ poll' = poll \ {<<c, "lost">>}
  /\ lc' = [lc EXCEPT ![c] = CasLifecycle(@, {"unknown", "needsWarmup"},
                                         {"ready", "active", "standby"})]
  /\ UNCHANGED <<deadSince, quiescing, warming, listVars, req, res, spawned, wk,
                 expiring, reached, faults>>

\* Backfill of demoteOverloaded: the entry at the boundary, which is c itself
\* only when the standby partition was empty.
Backfill(c) ==
  IF \E d \in Conns \ {c} : standby[d] > 0
  THEN {d \in Conns \ {c} : standby[d] > 0} ELSE {c}

\* The poll finds the node overloaded: demoteOverloaded.
PollOverloaded(c) ==
  /\ Asks(c) /\ ~Overloaded(c) /\ Spend
  /\ poll' = Asked(c)
  /\ \/ /\ Unknown(c) \/ "standby" \in lc[c]
        /\ lc' = [lc EXCEPT ![c] = @ \cup {"overloaded"}]
        /\ UNCHANGED <<active, standby>>
     \/ /\ ~Unknown(c) /\ "standby" \notin lc[c]
        /\ \E b \in Backfill(c) :
             LET bits == [lc EXCEPT ![c] =
                            CasLifecycle(@, {"standby", "overloaded"}, {"active"})]
                 act == [active EXCEPT ![c] = 0]
                 stb == [standby EXCEPT ![c] = Weight[c]]
             IN  /\ active' = [act EXCEPT ![b] = @ + 1]
                 /\ standby' = [stb EXCEPT ![b] = @ - 1]
                 /\ lc' = [bits EXCEPT ![b] =
                             CasLifecycle(@, {"active"}, {"standby", "needsWarmup"})]
  /\ UNCHANGED <<deadSince, quiescing, warming, dead, req, res, spawned, wk,
                 expiring, reached>>

\* The poll finds the node fine: promoteFromOverloaded if it was overloaded.
PollHealthy(c) ==
  /\ Asks(c)
  /\ poll' = Asked(c)
  /\ lc' = [lc EXCEPT ![c] = @ \ {"overloaded"}]
  /\ UNCHANGED <<deadSince, quiescing, warming, listVars, req, res, spawned, wk,
                 expiring, reached, faults>>

-----------------------------------------------------------------------------
(* Proactive health checks and the expiry of the viability mark *)

\* scheduleProactiveHealthCheck's goroutine.
ProactiveCheck(k) ==
  /\ req[k].pc = "proactive"
  /\ LET c == req[k].conn
     IN  \/ /\ Step(k, "idle", NoConn)
            /\ quiescing' = [quiescing EXCEPT ![c] = DecrementQuiescing(@)]
            /\ reached' = reached \cup ({c} \ Seeds)
            /\ UNCHANGED faults
         \/ /\ Step(k, "failed", c) /\ Spend
            /\ UNCHANGED <<quiescing, reached>>
  /\ UNCHANGED <<lc, deadSince, warming, listVars, taskVars>>

\* resetDeadConnViability decides on lock-free reads ...
ViabilityCheck(c) ==
  /\ VerifyDeadAfter /\ expiring = NoConn
  /\ c \notin Seeds
  /\ dead[c] > 0 /\ c \in deadSince /\ "viable" \in lc[c]
  /\ expiring' = c
  /\ UNCHANGED <<connVars, listVars, req, res, spawned, wk, poll, reached, faults>>

\* ... and clears the mark later, whatever the connection is by then.
ViabilityClear ==
  /\ expiring # NoConn
  /\ lc' = [lc EXCEPT ![expiring] = @ \ {"viable"}]
  /\ expiring' = NoConn
  /\ UNCHANGED <<deadSince, quiescing, warming, listVars, req, res, spawned, wk,
                 poll, reached, faults>>

-----------------------------------------------------------------------------
(* Specification *)

\* Seeds start active, the overflow of the cap in standby; a discovered node
\* starts in the dead list with its resurrection scheduled.
Init ==
  /\ \E first \in SUBSET Seeds :
       /\ IF ActiveListCap = 0 THEN first = Seeds
          ELSE \/ Cardinality(first) = ActiveListCap
               \/ Cardinality(first) < ActiveListCap /\ first = Seeds
       /\ active = [c \in Conns |-> IF c \in first THEN 1 ELSE 0]
       /\ standby = [c \in Conns |-> IF c \in Seeds \ first THEN 1 ELSE 0]
       /\ lc = [c \in Conns |->
                  IF c \in first THEN {"viable", "active"}
                  ELSE IF c \in Seeds THEN {"viable", "standby", "needsWarmup"}
                  ELSE {"unknown", "needsWarmup", "healthChecking"}]
  /\ deadSince = Conns \ Seeds
  /\ dead = [c \in Conns |-> IF c \in Seeds THEN 0 ELSE 1]
  /\ quiescing = [c \in Conns |-> 0]
  /\ warming = {}
  /\ req = [k \in Clients |-> Request("idle", NoConn, FALSE)]
  /\ res = [c \in Conns |-> [pc |-> IF c \in Seeds THEN "none" ELSE "waiting",
                             ctx |-> "pool"]]
  /\ wk = [w \in Workers |-> IdleWorker]
  /\ spawned = 0 /\ poll = {} /\ expiring = NoConn /\ reached = {} /\ faults = 0

ClientStep(k) ==
  \/ NextConn(k) \/ TriggerCapEnforcement(k) \/ NextFallback(k) \/ LeavePool(k)
  \/ OnSuccess(k) \/ RequestFails(k) \/ OnFailure(k) \/ OnFailureSchedule(k)
  \/ ProactiveCheck(k)

ResurrectStep(c) ==
  \/ ResurrectWake(c) \/ ResurrectCancelled(c) \/ ResurrectProbe(c)
  \/ ResurrectRelock(c) \/ ResurrectExit(c)

WorkerStep(w) ==
  \/ StartAsyncPromote(w) \/ FindActiveCandidate(w) \/ StandbyProbe(w)
  \/ StandbyRelock(w) \/ StandbyRetry(w) \/ PromoteStandby(w)

PollStep(c) ==
  \/ PollNoVerdict(c) \/ PollUnreachable(c) \/ PollLoses(c)
  \/ PollOverloaded(c) \/ PollHealthy(c)

Next ==
  \/ \E k \in Clients : ClientStep(k)
  \/ \E c \in Conns : ResurrectStep(c) \/ PollStep(c) \/ ViabilityCheck(c)
  \/ \E w \in Workers : WorkerStep(w) \/ StartRotation(w)
  \/ PollSnapshot \/ ViabilityClear

Spec == Init /\ [][Next]_vars

\* The Go scheduler runs every goroutine, timers fire, calls return, and the
\* application keeps sending requests.  Promotion, discovery and expiry promise
\* nothing.  A step of a request, of a resurrection goroutine or of the poller
\* always changes the variable of its process.
Fairness ==
  /\ \A k \in Clients : WF_req(ClientStep(k))
  /\ \A c \in Conns : WF_res(ResurrectStep(c))
  /\ WF_poll(PollSnapshot \/ \E c \in Conns : PollStep(c))

FairSpec == Spec /\ Fairness

-----------------------------------------------------------------------------
(* Properties *)

\* Every variable keeps its type: lifecycle bits are bits, list entries are
\* counted by naturals (removeFromDeadWithLock never removes an absent entry),
\* and the counters stay within their bounds.
TypeOK ==
  /\ lc \in [Conns -> SUBSET LifecycleBits]
  /\ deadSince \subseteq Conns
  /\ quiescing \in [Conns -> 0 .. DrainingChecks]
  /\ warming \subseteq Conns
  /\ active \in [Conns -> Nat]
  /\ standby \in [Conns -> Nat]
  /\ dead \in [Conns -> Nat]
  /\ req \in [Clients -> [pc : {"idle", "locked", "trigger", "sent", "failed",
                                "schedule", "exhausted", "proactive"},
                          conn : Conns \cup {NoConn}, hasStandby : BOOLEAN]]
  /\ res \in [Conns -> [pc : {"none", "waiting", "probing", "passed", "exiting"},
                        ctx : {"pool", "rotation", "cancelled"}]]
  /\ spawned \in Nat
  /\ wk \in [Workers -> [pc : {"idle", "find", "probe", "relock", "retry", "promote"},
                         cand : Conns \cup {NoConn}, kind : {"async", "rotate"},
                         left : Nat, ok : BOOLEAN]]
  /\ poll \subseteq Conns \X {"ask", "lost"}
  /\ expiring \in Conns \cup {NoConn}
  /\ reached \subseteq Conns
  /\ faults \in 0 .. MaxFaults

\* A request or a worker past its selection step has a connection in hand.
HandedOut ==
  /\ \A k \in Clients :
       req[k].pc \in {"trigger", "sent", "failed", "schedule", "proactive"}
         => req[k].conn \in Conns
  /\ \A w \in Workers :
       /\ wk[w].pc \in {"probe", "relock", "retry", "promote"} => wk[w].cand \in Conns
       /\ wk[w].pc = "probe" => wk[w].left > 0

InDeadList(c) ==
  dead[c] = 1 /\ active[c] = 0 /\ standby[c] = 0 /\ c \in deadSince /\ Unknown(c)
InReadyList(c) == dead[c] = 0 /\ InReady(c) /\ c \notin deadSince

\* Every connection is listed in exactly one list: either once in the dead list,
\* with deadSince set and lcUnknown, or in the ready list, alive.  OnFailure,
\* healthcheckStart, the lazy eviction of Next and two resurrection paths move
\* connections concurrently on decisions taken before they hold the mutex.
ListedOnce == \A c \in Conns : InDeadList(c) \/ InReadyList(c)

\* lcActive and lcStandby are mutually exclusive (connection_lifecycle.go:251),
\* also for a connection that reaches the dead list with a position bit and is
\* resurrected into the other partition.
PositionExclusive == \A c \in Conns : ~({"active", "standby"} \subseteq lc[c])

\* With health checks configured, a request is only ever sent to a seed or to a
\* node that has answered before: neither the zombie path nor the ready list
\* hands out a discovered address nobody reached (availableForRouting).
SentIsProven ==
  \A k \in Clients : req[k].pc \in {"sent", "trigger"} => req[k].conn \in Seeds \cup reached

\* While no connection is demoted behind the pool's back, Next reports
\* ErrNoConnections only when no data node is active, and when every connection
\* is dead and none may be served as a zombie.  The one exception: a dedicated
\* cluster manager took the standby or the zombie turn.
ExhaustionIsReal ==
  [][\A k \in Clients :
       (req[k].pc # "exhausted" /\ req'[k].pc = "exhausted") =>
         /\ \A c \in Conns \ Managers : active'[c] = 0
         /\ \/ \A c \in Conns : dead'[c] > 0 /\ ~AvailableForRouting(c)
            \/ \E m \in Managers : active'[m] > 0 \/ AvailableForRouting(m)]_vars

\* With health checks configured, a connection that drains after a stream reset
\* stays in the dead list until its last quiescing check, whoever reports success.
QuiesceBlocksResurrection ==
  [][\A c \in Conns : dead[c] > 0 /\ dead'[c] = 0 => quiescing[c] = 0]_vars

\* When no active connection is left, requests and resurrection bring one back.
PoolRecovers == (\A c \in Conns : active[c] = 0) ~> (\E c \in Conns : active[c] > 0)

\* A dead connection whose node answers again returns to the ready list: "The
\* connection remains on the dead list and will continue to be subject to
\* periodic health checks" (pool_selection.go:315).
DeadRecovers == \A c \in Conns : (dead[c] > 0) ~> (dead[c] = 0)

=============================================================================
