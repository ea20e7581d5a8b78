--------------------------- MODULE ConnPoolProofs ---------------------------
(***************************************************************************)
(* Proofs about ConnPool for every set of connections, clients and         *)
(* workers, and every value of the parameters.                             *)
(***************************************************************************)
EXTENDS ConnPool, TLAPS

(* The inductive invariant, by groups of variables. *)

\* The lists agree with the lifecycle bits and deadSince.
PoolInv ==
  /\ lc \in [Conns -> SUBSET LifecycleBits]
  /\ deadSince \subseteq Conns
  /\ active \in [Conns -> Nat]
  /\ standby \in [Conns -> Nat]
  /\ dead \in [Conns -> Nat]
  /\ ListedOnce
  /\ PositionExclusive

ReqStates == {"idle", "locked", "trigger", "sent", "failed", "schedule",
              "exhausted", "proactive"}
ReqHolding == {"trigger", "sent", "failed", "schedule", "proactive"}
ReqInv ==
  /\ req \in [Clients -> [pc : ReqStates, conn : Conns \cup {NoConn}, hasStandby : BOOLEAN]]
  /\ \A k \in Clients : req[k].pc \in ReqHolding => req[k].conn \in Conns

ResStates == {"none", "waiting", "probing", "passed", "exiting"}
Contexts == {"pool", "rotation", "cancelled"}
ResInv == res \in [Conns -> [pc : ResStates, ctx : Contexts]]

WkStates == {"idle", "find", "probe", "relock", "retry", "promote"}
WkHolding == {"probe", "relock", "retry", "promote"}
WkInv ==
  /\ wk \in [Workers -> [pc : WkStates, cand : Conns \cup {NoConn},
                         kind : {"async", "rotate"}, left : Nat, ok : BOOLEAN]]
  /\ \A w \in Workers : /\ wk[w].pc \in WkHolding => wk[w].cand \in Conns
                        /\ wk[w].pc = "probe" => wk[w].left > 0

CounterInv ==
  /\ quiescing \in [Conns -> 0 .. DrainingChecks]
  /\ warming \subseteq Conns
  /\ spawned \in Nat
  /\ poll \subseteq Conns \X {"ask", "lost"}
  /\ expiring \in Conns \cup {NoConn}
  /\ reached \subseteq Conns
  /\ faults \in 0 .. MaxFaults

IndInv == PoolInv /\ ReqInv /\ ResInv /\ WkInv /\ CounterInv

\* The groups are exactly the type invariant, the hand-out invariant and the
\* two list invariants that the runs check.
LEMMA IndInvSplit ==
  IndInv <=> TypeOK /\ HandedOut /\ ListedOnce /\ PositionExclusive
BY DEF IndInv, PoolInv, ReqInv, ResInv, WkInv, CounterInv, TypeOK, HandedOut,
       ReqStates, ReqHolding, ResStates, Contexts, WkStates, WkHolding

-----------------------------------------------------------------------------
(* What one step of a request, a goroutine or a worker keeps *)

\* A request that steps to a state holding a connection has one.
LEMMA StepInv ==
  ASSUME ReqInv, NEW k \in Clients, NEW pc \in ReqStates,
         NEW c \in Conns \cup {NoConn}, pc \in ReqHolding => c \in Conns, Step(k, pc, c)
  PROVE  ReqInv'
BY DEF ReqInv, Step, Request

\* A resurrection goroutine steps between its states.
LEMMA ResStepInv ==
  ASSUME ResInv, NEW c \in Conns, NEW pc \in ResStates, ResStep(c, pc)
  PROVE  ResInv'
BY DEF ResInv, ResStep

\* A request past its selection holds a connection of the pool.
LEMMA ConnPick ==
  ASSUME ReqInv, NEW k \in Clients, req[k].pc \in ReqHolding
  PROVE  req[k].conn \in Conns
BY DEF ReqInv

-----------------------------------------------------------------------------
(* How the lists change *)

\* lcUnknown is only cleared by a resurrection, and one position bit at most.
LEMMA BitsOnly ==
  ASSUME PoolInv, UNCHANGED <<deadSince, active, standby, dead>>,
         lc' \in [Conns -> SUBSET LifecycleBits],
         \A c \in Conns : "unknown" \in lc[c] => "unknown" \in lc'[c],
         \A c \in Conns : ~({"active", "standby"} \subseteq lc'[c])
  PROVE  PoolInv'
BY DEF PoolInv, ListedOnce, InDeadList, InReadyList, InReady, Unknown, PositionExclusive

\* The same when the bits of one connection change.
LEMMA OneConnBits ==
  ASSUME PoolInv, UNCHANGED <<deadSince, active, standby, dead>>,
         NEW c \in Conns, NEW bits \in SUBSET LifecycleBits,
         lc' = [lc EXCEPT ![c] = bits],
         "unknown" \in lc[c] => "unknown" \in bits,
         ~({"active", "standby"} \subseteq bits)
  PROVE  PoolInv'
<1>1. lc' \in [Conns -> SUBSET LifecycleBits]
  BY DEF PoolInv
<1>2. \A d \in Conns : "unknown" \in lc[d] => "unknown" \in lc'[d]
  BY DEF PoolInv
<1>3. \A d \in Conns : ~({"active", "standby"} \subseteq lc'[d])
  BY DEF PoolInv, PositionExclusive
<1> QED
  BY <1>1, <1>2, <1>3, BitsOnly

\* Bits other than lcUnknown are cleared on one connection, whatever it is.
LEMMA BitsCleared ==
  ASSUME PoolInv, UNCHANGED <<deadSince, active, standby, dead>>,
         NEW c \in Conns, NEW clear, "unknown" \notin clear,
         lc' = [lc EXCEPT ![c] = lc[c] \ clear]
  PROVE  PoolInv'
<1>1. lc[c] \ clear \in SUBSET LifecycleBits
  BY DEF PoolInv
<1>2. ~({"active", "standby"} \subseteq lc[c] \ clear)
  BY DEF PoolInv, PositionExclusive
<1> QED
  BY <1>1, <1>2, OneConnBits

\* Bits that are no position are set on one connection.
LEMMA BitsSet ==
  ASSUME PoolInv, UNCHANGED <<deadSince, active, standby, dead>>,
         NEW c \in Conns, NEW set \in SUBSET (LifecycleBits \ {"active", "standby"}),
         lc' = [lc EXCEPT ![c] = lc[c] \cup set]
  PROVE  PoolInv'
<1>1. lc[c] \cup set \in SUBSET LifecycleBits
  BY DEF PoolInv
<1>2. ~({"active", "standby"} \subseteq lc[c] \cup set)
  BY DEF PoolInv, PositionExclusive
<1> QED
  BY <1>1, <1>2, OneConnBits

\* A connection of the ready list moves to the dead list, and is lcUnknown.
LEMMA Died ==
  ASSUME PoolInv, NEW c \in Conns, InReady(c), MoveToDead(c),
         NEW bits \in SUBSET LifecycleBits, lc' = [lc EXCEPT ![c] = bits],
         "unknown" \in bits, ~({"active", "standby"} \subseteq bits)
  PROVE  PoolInv'
<1>1. dead[c] = 0
  BY DEF PoolInv, ListedOnce, InDeadList, InReadyList, InReady
<1>2. /\ lc' \in [Conns -> SUBSET LifecycleBits]
      /\ deadSince' \subseteq Conns
      /\ active' \in [Conns -> Nat]
      /\ standby' \in [Conns -> Nat]
      /\ dead' \in [Conns -> Nat]
  BY DEF PoolInv, MoveToDead
<1>3. ListedOnce'
  BY <1>1 DEF PoolInv, MoveToDead, ListedOnce, InDeadList, InReadyList, InReady, Unknown
<1>4. PositionExclusive'
  BY DEF PoolInv, PositionExclusive
<1> QED
  BY <1>2, <1>3, <1>4 DEF PoolInv

\* A dead connection moves back to exactly one partition.
LEMMA Revived ==
  ASSUME PoolInv, NEW c \in deadSince, Resurrect(c)
  PROVE  PoolInv'
<1>0. c \in Conns /\ InDeadList(c) /\ Weight[c] \in Nat /\ Weight[c] > 0
  BY WeightAssumption DEF PoolInv, ListedOnce, InReadyList
<1>1. PICK bit \in {"active", "standby"} : lc' = [lc EXCEPT ![c] = ResurrectBits(c, bit)]
  BY DEF Resurrect
<1>2. lc' \in [Conns -> SUBSET LifecycleBits]
  BY <1>0, <1>1 DEF PoolInv, ResurrectBits, CasLifecycle, LifecycleBits
<1>3. /\ deadSince' \subseteq Conns
      /\ active' \in [Conns -> Nat]
      /\ standby' \in [Conns -> Nat]
      /\ dead' \in [Conns -> Nat]
  BY <1>0 DEF PoolInv, Resurrect, InDeadList
<1>4. PositionExclusive'
  BY <1>0, <1>1 DEF PoolInv, PositionExclusive, ResurrectBits, CasLifecycle
<1>5. ListedOnce'
  <2> SUFFICES ASSUME NEW d \in Conns PROVE (InDeadList(d) \/ InReadyList(d))'
    BY DEF ListedOnce
  <2>1. CASE d = c
    BY <1>0, <2>1 DEF PoolInv, Resurrect, InDeadList, InReadyList, InReady
  <2>2. CASE d # c
    <3>1. /\ lc'[d] = lc[d] /\ dead'[d] = dead[d]
          /\ active'[d] = active[d] /\ standby'[d] = standby[d]
          /\ d \in deadSince' <=> d \in deadSince
      BY <1>0, <1>1, <2>2 DEF PoolInv, Resurrect
    <3> QED
      BY <3>1 DEF PoolInv, ListedOnce, InDeadList, InReadyList, InReady, Unknown
  <2> QED
    BY <2>1, <2>2
<1> QED
  BY <1>2, <1>3, <1>4, <1>5 DEF PoolInv

\* One entry crosses the boundary from standby to active.
LEMMA Promoted ==
  ASSUME PoolInv, NEW c \in Conns, standby[c] > 0, UNCHANGED <<deadSince, dead>>,
         active' = [active EXCEPT ![c] = @ + 1], standby' = [standby EXCEPT ![c] = @ - 1],
         NEW clear, "standby" \in clear, "unknown" \notin clear,
         lc' = [lc EXCEPT ![c] = CasLifecycle(@, {"active"}, clear)]
  PROVE  PoolInv'
<1>1. /\ lc' \in [Conns -> SUBSET LifecycleBits]
      /\ active' \in [Conns -> Nat]
      /\ standby' \in [Conns -> Nat]
  BY DEF PoolInv, CasLifecycle, LifecycleBits
<1>2. PositionExclusive'
  BY DEF PoolInv, PositionExclusive, CasLifecycle
<1>3. ListedOnce'
  BY DEF PoolInv, ListedOnce, InDeadList, InReadyList, InReady, Unknown
<1> QED
  BY <1>1, <1>2, <1>3 DEF PoolInv

\* Cap enforcement moves entries inside the ready list.
LEMMA CapEnforced ==
  ASSUME PoolInv, UNCHANGED <<deadSince, dead>>,
         EnforceActiveCap \/ UNCHANGED <<lc, active, standby>>
  PROVE  PoolInv'
<1>1. CASE UNCHANGED <<lc, active, standby>>
  BY <1>1 DEF PoolInv, ListedOnce, InDeadList, InReadyList, InReady, Unknown, PositionExclusive
<1>2. CASE ~UNCHANGED <<lc, active, standby>>
  <2>1. PICK moved \in Overflows :
          /\ active' = [c \in Conns |-> active[c] - moved[c]]
          /\ standby' = [c \in Conns |-> standby[c] + moved[c]]
          /\ lc' = [c \in Conns |->
                      IF moved[c] = 0 THEN lc[c]
                      ELSE CasLifecycle(lc[c], {"standby", "needsWarmup"}, {"active"})]
    BY <1>2 DEF EnforceActiveCap
  <2>2. \A c \in Conns : moved[c] \in Nat /\ moved[c] <= active[c]
    <3>1. moved \in [Conns -> 0 .. ActiveCount]
      BY DEF Overflows
    <3>2. \A c \in Conns : moved[c] <= (IF c \in warming THEN 0 ELSE active[c])
      BY DEF Overflows
    <3> QED
      BY <3>1, <3>2 DEF PoolInv
  <2>3. /\ lc' \in [Conns -> SUBSET LifecycleBits]
        /\ active' \in [Conns -> Nat]
        /\ standby' \in [Conns -> Nat]
    BY <2>1, <2>2 DEF PoolInv, CasLifecycle, LifecycleBits
  <2>4. PositionExclusive'
    BY <2>1 DEF PoolInv, PositionExclusive, CasLifecycle
  <2>5. ListedOnce'
    BY <2>1, <2>2 DEF PoolInv, ListedOnce, InDeadList, InReadyList, InReady, Unknown, CasLifecycle
  <2> QED
    BY <2>3, <2>4, <2>5 DEF PoolInv
<1> QED
  BY <1>1, <1>2

\* The end of a warmup changes no list.
LEMMA WarmupBits ==
  ASSUME PoolInv, UNCHANGED <<deadSince, active, standby, dead>>, NEW c \in Conns,
         \/ UNCHANGED lc
         \/ lc' = [lc EXCEPT ![c] = CompleteWarmup(@)]
  PROVE  PoolInv'
<1>1. CASE UNCHANGED lc
  BY <1>1, BitsOnly DEF PoolInv, PositionExclusive
<1>2. CASE lc' = [lc EXCEPT ![c] = CompleteWarmup(@)]
  BY <1>2, OneConnBits DEF PoolInv, PositionExclusive, CompleteWarmup, CasLifecycle, LifecycleBits
<1> QED
  BY <1>1, <1>2

-----------------------------------------------------------------------------
(* Requests *)

\* Next under the read lock.
LEMMA NextConnInv ==
  ASSUME IndInv, NEW k \in Clients, NextConn(k)
  PROVE  IndInv'
<1>0. /\ UNCHANGED <<deadSince, active, standby, dead, quiescing>>
      /\ UNCHANGED <<res, spawned, wk, poll, expiring, reached, faults>>
  BY DEF NextConn, listVars, taskVars
<1>1. \/ UNCHANGED <<lc, warming>>
      \/ \E c \in Conns : /\ warming' = warming \ {c}
                          /\ lc' = [lc EXCEPT ![c] = CompleteWarmup(@)]
  BY DEF NextConn, Servable
<1>2. \/ \E c \in Conns : Step(k, "sent", c) \/ Step(k, "trigger", c)
      \/ Step(k, "locked", NoConn)
  BY DEF NextConn, Servable
<1>3. PoolInv'
  BY <1>0, <1>1, WarmupBits, BitsOnly DEF IndInv, PoolInv, PositionExclusive
<1>4. ReqInv'
  BY <1>2, StepInv DEF IndInv, ReqStates, ReqHolding
<1>5. ResInv' /\ WkInv' /\ CounterInv'
  BY <1>0, <1>1 DEF IndInv, ResInv, WkInv, CounterInv
<1> QED
  BY <1>3, <1>4, <1>5 DEF IndInv

\* triggerCapEnforcement.
LEMMA TriggerInv ==
  ASSUME IndInv, NEW k \in Clients, TriggerCapEnforcement(k)
  PROVE  IndInv'
<1>0. /\ UNCHANGED <<deadSince, quiescing, warming, dead>>
      /\ UNCHANGED <<res, spawned, wk, poll, expiring, reached, faults>>
  BY DEF TriggerCapEnforcement, taskVars
<1>1. PoolInv'
  BY <1>0, CapEnforced DEF IndInv, TriggerCapEnforcement
<1>2. ReqInv'
  BY StepInv, ConnPick DEF IndInv, TriggerCapEnforcement, ReqStates, ReqHolding
<1>3. ResInv' /\ WkInv' /\ CounterInv'
  BY <1>0 DEF IndInv, ResInv, WkInv, CounterInv
<1> QED
  BY <1>1, <1>2, <1>3 DEF IndInv

\* tryZombieWithLock hands out a member of the pool, or nothing.
LEMMA ZombieStep ==
  ASSUME ReqInv, NEW k \in Clients, NEW list, ServeZombie(k, list)
  PROVE  ReqInv'
BY StepInv DEF ServeZombie, ReqStates, ReqHolding

\* Lazy eviction, then a standby or a zombie, in one critical section.
LEMMA NextFallbackInv ==
  ASSUME IndInv, NEW k \in Clients, NextFallback(k)
  PROVE  IndInv'
<1>0. /\ UNCHANGED <<quiescing, warming>>
      /\ UNCHANGED <<res, spawned, wk, poll, expiring, reached, faults>>
  BY DEF NextFallback, taskVars
<1> DEFINE act(E) == [c \in Conns |-> IF c \in E THEN 0 ELSE active[c]]
           stb(E) == [c \in Conns |-> IF c \in E THEN 0 ELSE standby[c]]
           bits(E) == [c \in Conns |-> IF c \in E THEN lc[c] \cup {"unknown"} ELSE lc[c]]
           gone(E) == [c \in Conns |-> IF c \in E THEN dead[c] + 1 ELSE dead[c]]
<1>1. PICK E \in SUBSET Demoted :
        /\ deadSince' = deadSince \cup E
        /\ dead' = gone(E)
        /\ \/ active' = act(E) /\ standby' = stb(E) /\ lc' = bits(E)
           \/ \E c \in Conns :
                /\ stb(E)[c] > 0
                /\ active' = [act(E) EXCEPT ![c] = @ + 1]
                /\ standby' = [stb(E) EXCEPT ![c] = @ - 1]
                /\ lc' = [bits(E) EXCEPT ![c] =
                            CasLifecycle(@, {"active"}, {"standby", "needsWarmup"})]
  BY DEF NextFallback
<1>2. ReqInv'
  <2>1. \/ \E c \in Conns : Step(k, "sent", c)
        \/ \E list : ServeZombie(k, list)
    BY DEF NextFallback, Servable
  <2> QED
    BY <2>1, StepInv, ZombieStep DEF IndInv, ReqStates, ReqHolding
<1>3. PoolInv'
  <2>0. \A c \in E : c \in Conns /\ InReadyList(c) /\ ~IsReady(lc[c])
    BY DEF IndInv, PoolInv, Demoted, ListedOnce, InDeadList
  <2>1. deadSince' \subseteq Conns /\ dead' \in [Conns -> Nat]
    BY <1>1, <2>0 DEF IndInv, PoolInv
  <2>2. /\ lc' \in [Conns -> SUBSET LifecycleBits]
        /\ active' \in [Conns -> Nat]
        /\ standby' \in [Conns -> Nat]
        /\ \A d \in Conns :
             /\ d \in E => active'[d] = 0 /\ standby'[d] = 0 /\ "unknown" \in lc'[d]
             /\ d \notin E => active'[d] + standby'[d] = active[d] + standby[d]
             /\ "unknown" \in lc[d] => "unknown" \in lc'[d]
             /\ ~({"active", "standby"} \subseteq lc'[d])
    <3>1. CASE active' = act(E) /\ standby' = stb(E) /\ lc' = bits(E)
      BY <3>1 DEF IndInv, PoolInv, PositionExclusive, LifecycleBits
    <3>2. CASE ~(active' = act(E) /\ standby' = stb(E) /\ lc' = bits(E))
      <4>1. PICK p \in Conns :
              /\ stb(E)[p] > 0
              /\ active' = [act(E) EXCEPT ![p] = @ + 1]
              /\ standby' = [stb(E) EXCEPT ![p] = @ - 1]
              /\ lc' = [bits(E) EXCEPT ![p] =
                          CasLifecycle(@, {"active"}, {"standby", "needsWarmup"})]
        BY <1>1, <3>2
      <4>2. p \notin E /\ standby[p] > 0
        BY <4>1
      <4>3. /\ active' = [c \in Conns |-> IF c \in E THEN 0
                                          ELSE IF c = p THEN active[p] + 1 ELSE active[c]]
            /\ standby' = [c \in Conns |-> IF c \in E THEN 0
                                           ELSE IF c = p THEN standby[p] - 1 ELSE standby[c]]
            /\ lc' = [c \in Conns |-> IF c \in E THEN lc[c] \cup {"unknown"}
                        ELSE IF c = p
                             THEN CasLifecycle(lc[p], {"active"}, {"standby", "needsWarmup"})
                             ELSE lc[c]]
        BY <4>1, <4>2
      <4>4. /\ active' \in [Conns -> Nat]
            /\ standby' \in [Conns -> Nat]
            /\ \A d \in Conns :
                 /\ d \in E => active'[d] = 0 /\ standby'[d] = 0
                 /\ d \notin E => active'[d] + standby'[d] = active[d] + standby[d]
        BY <4>2, <4>3 DEF IndInv, PoolInv
      <4>5. /\ lc' \in [Conns -> SUBSET LifecycleBits]
            /\ \A d \in Conns :
                 /\ d \in E => "unknown" \in lc'[d]
                 /\ "unknown" \in lc[d] => "unknown" \in lc'[d]
                 /\ ~({"active", "standby"} \subseteq lc'[d])
        BY <4>3 DEF IndInv, PoolInv, PositionExclusive, CasLifecycle, LifecycleBits
      <4> QED
        BY <4>4, <4>5
    <3> QED
      BY <3>1, <3>2
  <2>3. PositionExclusive'
    BY <2>2 DEF PositionExclusive
  <2>4. ListedOnce'
    <3> SUFFICES ASSUME NEW d \in Conns PROVE (InDeadList(d) \/ InReadyList(d))'
      BY DEF ListedOnce
    <3>1. CASE d \in E
      <4>1. dead'[d] = 1 /\ d \in deadSince'
        BY <1>1, <2>0, <3>1 DEF InReadyList
      <4> QED
        BY <2>2, <3>1, <4>1 DEF InDeadList, Unknown
    <3>2. CASE d \notin E
      <4>1. dead'[d] = dead[d] /\ (d \in deadSince' <=> d \in deadSince)
        BY <1>1, <3>2
      <4>2. active[d] \in Nat /\ standby[d] \in Nat /\ active'[d] \in Nat /\ standby'[d] \in Nat
        BY <2>2 DEF IndInv, PoolInv
      <4> QED
        BY <2>2, <3>2, <4>1, <4>2
           DEF IndInv, PoolInv, ListedOnce, InDeadList, InReadyList, InReady, Unknown
    <3> QED
      BY <3>1, <3>2
  <2> QED
    BY <2>1, <2>2, <2>3, <2>4 DEF PoolInv
<1>4. ResInv' /\ WkInv' /\ CounterInv'
  BY <1>0 DEF IndInv, ResInv, WkInv, CounterInv
<1> QED
  BY <1>2, <1>3, <1>4 DEF IndInv

\* OnSuccess, whose response may be older than the death it undoes.
LEMMA OnSuccessInv ==
  ASSUME IndInv, NEW k \in Clients, OnSuccess(k)
  PROVE  IndInv'
<1> DEFINE c == req[k].conn
<1>0. /\ c \in Conns
      /\ UNCHANGED <<quiescing, res, spawned, wk, poll, expiring, faults>>
  BY ConnPick DEF IndInv, OnSuccess, ReqHolding, taskVars
<1>1. PoolInv'
  <2>1. CASE c \in deadSince /\ Resurrect(c)
    BY <2>1, Revived DEF IndInv
  <2>2. CASE UNCHANGED <<lc, deadSince, warming, listVars>>
    BY <2>2, BitsOnly DEF IndInv, PoolInv, PositionExclusive, listVars
  <2> QED
    BY <2>1, <2>2 DEF OnSuccess
<1>2. ReqInv'
  BY <1>0, StepInv DEF IndInv, OnSuccess, ReqStates, ReqHolding
<1>3. warming' \subseteq Conns
  BY <1>0 DEF IndInv, CounterInv, OnSuccess, Resurrect, StartWarmup
<1>4. ResInv' /\ WkInv' /\ CounterInv'
  BY <1>0, <1>3 DEF IndInv, ResInv, WkInv, CounterInv, OnSuccess
<1> QED
  BY <1>1, <1>2, <1>4 DEF IndInv

\* OnFailure, whose test of lcUnknown is what prevents a second dead entry.
LEMMA OnFailureInv ==
  ASSUME IndInv, NEW k \in Clients, OnFailure(k)
  PROVE  IndInv'
<1> DEFINE c == req[k].conn
<1>0. /\ c \in Conns
      /\ UNCHANGED <<quiescing, warming, res, spawned, wk, poll, expiring, reached, faults>>
  BY ConnPick DEF IndInv, OnFailure, ReqHolding, taskVars
<1>1. PoolInv' /\ ReqInv'
  <2>1. CASE OnFailureIgnored(c)
    <3>1. UNCHANGED <<lc, deadSince, active, standby, dead>> /\ Step(k, "idle", NoConn)
      BY <2>1 DEF OnFailure, listVars
    <3> QED
      BY <3>1, StepInv, BitsOnly DEF IndInv, PoolInv, PositionExclusive, ReqStates, ReqHolding
  <2>2. CASE ~OnFailureIgnored(c)
    <3> DEFINE bits == CasLifecycle(lc[c], {"unknown", "needsWarmup"},
                                    {"ready", "active", "standby", "overloaded"})
    <3>1. InReady(c)
      BY <1>0, <2>2 DEF IndInv, PoolInv, OnFailureIgnored, ListedOnce, InDeadList, InReadyList
    <3>2. MoveToDead(c) /\ lc' = [lc EXCEPT ![c] = bits]
      BY <2>2 DEF OnFailure
    <3>3. bits \in SUBSET LifecycleBits
      BY <1>0 DEF IndInv, PoolInv, CasLifecycle, LifecycleBits
    <3>4. "unknown" \in bits /\ ~({"active", "standby"} \subseteq bits)
      BY DEF CasLifecycle
    <3>5. PoolInv'
      BY <1>0, <3>1, <3>2, <3>3, <3>4, Died DEF IndInv
    <3>6. ReqInv'
      <4> DEFINE left == \E d \in Conns \ {c} : standby[d] > 0
      <4>1. req' = [req EXCEPT ![k] = Request("schedule", c, left)] /\ left \in BOOLEAN
        BY <2>2 DEF OnFailure
      <4> HIDE DEF left
      <4> QED
        BY <1>0, <4>1 DEF IndInv, ReqInv, Request, ReqStates, ReqHolding
    <3> QED
      BY <3>5, <3>6
  <2> QED
    BY <2>1, <2>2
<1>2. ResInv' /\ WkInv' /\ CounterInv'
  BY <1>0 DEF IndInv, ResInv, WkInv, CounterInv
<1> QED
  BY <1>1, <1>2 DEF IndInv

\* Steps that leave the lists and the lifecycle bits alone.
LEMMA SamePool ==
  ASSUME PoolInv, UNCHANGED <<lc, deadSince, active, standby, dead>>
  PROVE  PoolInv'
BY BitsOnly DEF PoolInv, PositionExclusive

\* The steps of a request that leave the lists alone.
LEMMA SimpleRequestInv ==
  ASSUME IndInv, NEW k \in Clients, LeavePool(k) \/ RequestFails(k) \/ ProactiveCheck(k)
  PROVE  IndInv'
<1>0. /\ UNCHANGED <<lc, deadSince, warming, active, standby, dead>>
      /\ UNCHANGED <<res, spawned, wk, poll, expiring>>
  BY DEF LeavePool, RequestFails, ProactiveCheck, connVars, listVars, taskVars
<1>1. PoolInv' /\ ResInv' /\ WkInv'
  BY <1>0, SamePool DEF IndInv, ResInv, WkInv
<1>2. ReqInv'
  BY StepInv, ConnPick
     DEF IndInv, LeavePool, RequestFails, ProactiveCheck, ReqStates, ReqHolding
<1>3. quiescing' \in [Conns -> 0 .. DrainingChecks]
  BY ParametersAssumption, ConnPick
     DEF IndInv, CounterInv, LeavePool, RequestFails, ProactiveCheck, connVars,
         DecrementQuiescing, ReqHolding
<1>4. reached' \subseteq Conns /\ faults' \in 0 .. MaxFaults
  BY ParametersAssumption, ConnPick
     DEF IndInv, CounterInv, LeavePool, RequestFails, ProactiveCheck, Spend, ReqHolding
<1>5. CounterInv'
  BY <1>0, <1>3, <1>4 DEF IndInv, CounterInv
<1> QED
  BY <1>1, <1>2, <1>5 DEF IndInv

\* scheduleResurrect starts at most one goroutine per connection.
LEMMA ScheduledRes ==
  ASSUME ResInv, NEW c \in Conns, NEW ctx \in Contexts, NEW bits,
         ScheduleResurrect(c, ctx, bits)
  PROVE  ResInv'
BY DEF ResInv, ScheduleResurrect, ResStates

\* The rest of OnFailure, without the pool mutex.
LEMMA OnFailureScheduleInv ==
  ASSUME IndInv, NEW k \in Clients, OnFailureSchedule(k)
  PROVE  IndInv'
<1> DEFINE c == req[k].conn
<1>0. /\ c \in Conns
      /\ UNCHANGED <<deadSince, quiescing, warming, active, standby, dead>>
      /\ UNCHANGED <<wk, poll, expiring, reached, faults>>
  BY ConnPick DEF IndInv, OnFailureSchedule, ReqHolding, listVars
<1>1. ScheduleResurrect(c, "pool", lc)
  BY DEF OnFailureSchedule
<1>2. PoolInv'
  <2>1. CASE lc' = lc
    BY <1>0, <2>1, SamePool DEF IndInv
  <2>2. CASE lc' = [lc EXCEPT ![c] = lc[c] \cup {"healthChecking"}]
    BY <1>0, <2>2, OneConnBits DEF IndInv, PoolInv, PositionExclusive, LifecycleBits
  <2> QED
    BY <1>1, <2>1, <2>2 DEF ScheduleResurrect
<1>3. ResInv'
  BY <1>0, <1>1, ScheduledRes DEF IndInv, Contexts
<1>4. ReqInv'
  BY StepInv DEF IndInv, OnFailureSchedule, ReqStates, ReqHolding
<1>5. WkInv' /\ CounterInv'
  BY <1>0 DEF IndInv, WkInv, CounterInv, OnFailureSchedule
<1> QED
  BY <1>2, <1>3, <1>4, <1>5 DEF IndInv

-----------------------------------------------------------------------------
(* Resurrection goroutines *)

\* performHealthCheck on a live exchange keeps the lists and the counters.
LEMMA HealthCheckInv ==
  ASSUME PoolInv, CounterInv, NEW c \in Conns, HealthCheckPasses(c),
         UNCHANGED <<deadSince, active, standby, dead, spawned, poll, expiring, faults>>
  PROVE  PoolInv' /\ CounterInv'
<1>1. PoolInv'
  BY WarmupBits DEF HealthCheckPasses
<1>2. quiescing' \in [Conns -> 0 .. DrainingChecks]
  BY ParametersAssumption DEF CounterInv, HealthCheckPasses, DecrementQuiescing
<1>3. CounterInv'
  BY <1>2 DEF CounterInv, HealthCheckPasses
<1> QED
  BY <1>1, <1>3

\* The resurrection timer fires.
LEMMA ResurrectWakeInv ==
  ASSUME IndInv, NEW c \in Conns, ResurrectWake(c)
  PROVE  IndInv'
<1>0. UNCHANGED <<quiescing, req, spawned, wk, poll, expiring, reached, faults>>
  BY DEF ResurrectWake
<1>1. CASE c \in deadSince /\ Resurrect(c)
  <2>1. PoolInv'
    BY <1>1, Revived DEF IndInv
  <2>2. warming' \subseteq Conns
    BY <1>1 DEF IndInv, CounterInv, Resurrect, StartWarmup
  <2>3. ResInv'
    BY ResStepInv DEF IndInv, ResurrectWake, ResStates
  <2> QED
    BY <1>0, <2>1, <2>2, <2>3 DEF IndInv, ReqInv, WkInv, CounterInv
<1>2. CASE UNCHANGED <<lc, deadSince, warming, active, standby, dead>>
  <2>1. ResInv'
    BY ResStepInv DEF IndInv, ResurrectWake, ResStates
  <2> QED
    BY <1>0, <1>2, <2>1, SamePool DEF IndInv, ReqInv, WkInv, CounterInv
<1> QED
  BY <1>1, <1>2 DEF ResurrectWake, listVars

\* The locks are taken again: deadSince decides, not what was true before.
LEMMA ResurrectRelockInv ==
  ASSUME IndInv, NEW c \in Conns, ResurrectRelock(c)
  PROVE  IndInv'
<1>0. UNCHANGED <<quiescing, req, spawned, wk, poll, expiring, reached, faults>>
  BY DEF ResurrectRelock
<1>1. ResInv'
  BY ResStepInv DEF IndInv, ResurrectRelock, ResStates
<1>2. CASE c \in deadSince /\ Resurrect(c)
  <2>1. PoolInv'
    BY <1>2, Revived DEF IndInv
  <2>2. warming' \subseteq Conns
    BY <1>2 DEF IndInv, CounterInv, Resurrect, StartWarmup
  <2> QED
    BY <1>0, <1>1, <2>1, <2>2 DEF IndInv, ReqInv, WkInv, CounterInv
<1>3. CASE UNCHANGED <<lc, deadSince, warming, active, standby, dead>>
  BY <1>0, <1>1, <1>3, SamePool DEF IndInv, ReqInv, WkInv, CounterInv
<1> QED
  BY <1>2, <1>3 DEF ResurrectRelock, listVars

\* The health check of a dead connection.
LEMMA ResurrectProbeInv ==
  ASSUME IndInv, NEW c \in Conns, ResurrectProbe(c)
  PROVE  IndInv'
<1>0. UNCHANGED <<deadSince, active, standby, dead, req, spawned, wk, poll, expiring>>
  BY DEF ResurrectProbe, listVars
<1>1. ResInv'
  BY ResStepInv DEF IndInv, ResurrectProbe, ResStates
<1>2. CASE HealthCheckPasses(c) /\ UNCHANGED faults
  BY <1>0, <1>1, <1>2, HealthCheckInv DEF IndInv, ReqInv, WkInv
<1>3. CASE UNCHANGED <<lc, quiescing, warming, reached>> /\ (UNCHANGED faults \/ Spend)
  <2>1. CounterInv'
    BY <1>0, <1>3, ParametersAssumption DEF IndInv, CounterInv, Spend
  <2> QED
    BY <1>0, <1>1, <1>3, <2>1, SamePool DEF IndInv, ReqInv, WkInv
<1> QED
  BY <1>2, <1>3 DEF ResurrectProbe

\* The goroutine ends.
LEMMA ResurrectEndInv ==
  ASSUME IndInv, NEW c \in Conns, ResurrectCancelled(c) \/ ResurrectExit(c)
  PROVE  IndInv'
<1>0. /\ UNCHANGED <<deadSince, quiescing, warming, active, standby, dead>>
      /\ UNCHANGED <<req, spawned, wk, poll, expiring, reached, faults>>
  BY DEF ResurrectCancelled, ResurrectExit, connVars, listVars
<1>1. ResInv'
  BY ResStepInv DEF IndInv, ResInv, ResurrectCancelled, ResurrectExit, ResStates, Contexts
<1>2. PoolInv'
  <2>1. CASE lc' = lc
    BY <1>0, <2>1, SamePool DEF IndInv
  <2>2. CASE lc' = [lc EXCEPT ![c] = lc[c] \ {"healthChecking"}]
    BY <1>0, <2>2, BitsCleared DEF IndInv
  <2> QED
    BY <2>1, <2>2 DEF ResurrectCancelled, ResurrectExit, connVars
<1> QED
  BY <1>0, <1>1, <1>2 DEF IndInv, ReqInv, WkInv, CounterInv

-----------------------------------------------------------------------------
(* Standby promotion *)

\* A worker goes on with a candidate, looks for another one, or ends.
LEMMA WkStepInv ==
  ASSUME WkInv, NEW w \in Workers, NEW pc \in {"relock", "retry", "promote"},
         wk[w].cand \in Conns, WkStep(w, pc)
  PROVE  WkInv'
BY DEF WkInv, WkStep, WkStates, WkHolding

\* The end of a promotion goroutine, which may cancel resurrections.
LEMMA EndWorkerInv ==
  ASSUME WkInv, ResInv, NEW w \in Workers, EndWorker(w)
  PROVE  WkInv' /\ ResInv'
<1>1. WkInv'
  BY DEF WkInv, EndWorker, IdleWorker, Worker, WkStates, WkHolding
<1>2. ResInv'
  BY DEF ResInv, EndWorker, EndedRes, Contexts
<1> QED
  BY <1>1, <1>2

\* A promotion that comes to nothing.
LEMMA GiveUpInv ==
  ASSUME WkInv, ResInv, NEW w \in Workers, GiveUp(w)
  PROVE  WkInv' /\ ResInv'
<1>1. CASE wk[w].kind = "rotate"
  <2>1. wk' = [wk EXCEPT ![w] = Worker("find", NoConn, "rotate", 0)] /\ UNCHANGED res
    BY <1>1 DEF GiveUp
  <2>2. WkInv'
    BY <2>1 DEF WkInv, Worker, WkStates, WkHolding
  <2> QED
    BY <2>1, <2>2 DEF ResInv
<1>2. CASE wk[w].kind # "rotate"
  BY <1>2, EndWorkerInv DEF GiveUp
<1> QED
  BY <1>1, <1>2

\* A promotion past its search holds a candidate.
LEMMA CandPick ==
  ASSUME WkInv, NEW w \in Workers, wk[w].pc \in WkHolding
  PROVE  wk[w].cand \in Conns
BY DEF WkInv

\* A promotion or a rotation starts.
LEMMA StartWorkerInv ==
  ASSUME IndInv, NEW w \in Workers, StartAsyncPromote(w) \/ StartRotation(w)
  PROVE  IndInv'
<1>0. /\ UNCHANGED <<lc, deadSince, quiescing, warming, active, standby, dead>>
      /\ UNCHANGED <<req, res, poll, expiring, reached, faults>>
  BY DEF StartAsyncPromote, StartRotation, connVars, listVars
<1>1. spawned' \in Nat
  BY DEF IndInv, CounterInv, StartAsyncPromote, StartRotation
<1>2. WkInv'
  BY DEF IndInv, WkInv, StartAsyncPromote, StartRotation, WkStates, WkHolding
<1> QED
  BY <1>0, <1>1, <1>2, SamePool DEF IndInv, ReqInv, ResInv, CounterInv

\* The search for a standby to check.
LEMMA FindActiveCandidateInv ==
  ASSUME IndInv, NEW w \in Workers, FindActiveCandidate(w)
  PROVE  IndInv'
<1> DEFINE pc == IF HealthCheckConfigured /\ PromotionChecks > 0 THEN "probe" ELSE "relock"
           Check(c) == wk' = [wk EXCEPT ![w] = Worker(pc, c, wk[w].kind, PromotionChecks)]
<1>0. /\ UNCHANGED <<deadSince, quiescing, warming, active, standby, dead>>
      /\ UNCHANGED <<req, spawned, poll, expiring, reached, faults>>
  BY DEF FindActiveCandidate, listVars
<1>1. \/ \E c \in Conns :
           /\ Check(c) /\ UNCHANGED res
           /\ \/ lc' = [lc EXCEPT ![c] = lc[c] \cup {"healthChecking", "needsWarmup"}]
              \/ UNCHANGED lc
      \/ EndWorker(w) /\ UNCHANGED lc
  BY DEF FindActiveCandidate, IdleStandby, CheckedStandby
<1>2. ASSUME NEW c \in Conns, Check(c) PROVE WkInv'
  <2>1. pc \in {"probe", "relock"} /\ (pc = "probe" => PromotionChecks > 0)
    OBVIOUS
  <2>2. wk[w].kind \in {"async", "rotate"} /\ PromotionChecks \in Nat
    BY ParametersAssumption DEF IndInv, WkInv
  <2> HIDE DEF pc
  <2> QED
    BY <1>2, <2>1, <2>2 DEF IndInv, WkInv, WkStates, WkHolding, Worker
<1>3. WkInv' /\ ResInv'
  BY <1>1, <1>2, EndWorkerInv DEF IndInv, ResInv
<1>4. PoolInv'
  BY <1>0, <1>1, SamePool, BitsSet DEF IndInv, LifecycleBits
<1> QED
  BY <1>0, <1>3, <1>4 DEF IndInv, ReqInv, CounterInv

\* The checks of a standby.
LEMMA StandbyProbeInv ==
  ASSUME IndInv, NEW w \in Workers, StandbyProbe(w)
  PROVE  IndInv'
<1> DEFINE c == wk[w].cand
           next == IF wk[w].left = 1 THEN "relock" ELSE "probe"
<1>0. /\ c \in Conns
      /\ UNCHANGED <<deadSince, active, standby, dead, req, res, spawned, poll, expiring>>
  BY CandPick DEF IndInv, StandbyProbe, WkHolding, listVars
<1>1. CASE /\ HealthCheckPasses(c)
           /\ wk' = [wk EXCEPT ![w] = Worker(next, c, wk[w].kind, wk[w].left - 1)]
           /\ UNCHANGED faults
  <2>1. WkInv'
    <3>1. wk[w].left \in Nat \ {0} /\ wk[w].kind \in {"async", "rotate"}
      BY DEF IndInv, WkInv, StandbyProbe
    <3>2. next \in {"relock", "probe"} /\ (next = "probe" => wk[w].left - 1 > 0)
      BY <3>1
    <3>3. wk[w].left - 1 \in Nat
      BY <3>1
    <3> HIDE DEF next
    <3> QED
      BY <1>0, <1>1, <3>1, <3>2, <3>3 DEF IndInv, WkInv, WkStates, WkHolding, Worker
  <2> QED
    BY <1>0, <1>1, <2>1, HealthCheckInv DEF IndInv, ReqInv, ResInv
<1>2. CASE /\ Spend
           /\ wk' = [wk EXCEPT ![w].pc = "relock", ![w].ok = FALSE]
           /\ UNCHANGED <<lc, quiescing, warming, reached>>
  <2>1. WkInv'
    BY <1>0, <1>2 DEF IndInv, WkInv, WkStates, WkHolding
  <2>2. CounterInv'
    BY <1>0, <1>2, ParametersAssumption DEF IndInv, CounterInv, Spend
  <2> QED
    BY <1>0, <1>2, <2>1, <2>2, SamePool DEF IndInv, ReqInv, ResInv
<1> QED
  BY <1>1, <1>2 DEF StandbyProbe

\* A candidate found dead or out of order: lists and goroutine of the candidate.
LEMMA DiedScheduled ==
  ASSUME PoolInv, ResInv, NEW c \in Conns, InReady(c), MoveToDead(c),
         NEW set \in SUBSET LifecycleBits, NEW ctx \in Contexts,
         ScheduleResurrect(c, ctx, [lc EXCEPT ![c] = set]),
         "unknown" \in set, ~({"active", "standby"} \subseteq set)
  PROVE  PoolInv' /\ ResInv'
<1>1. ResInv'
  BY ScheduledRes
<1>2. CASE lc' = [lc EXCEPT ![c] = set]
  BY <1>2, Died, <1>1
<1>3. CASE lc' = [lc EXCEPT ![c] = set \cup {"healthChecking"}]
  <2>1. set \cup {"healthChecking"} \in SUBSET LifecycleBits
    BY DEF LifecycleBits
  <2>2. ~({"active", "standby"} \subseteq set \cup {"healthChecking"})
    OBVIOUS
  <2> QED
    BY <1>1, <1>3, <2>1, <2>2, Died
<1> QED
  BY <1>2, <1>3 DEF ScheduleResurrect, PoolInv

\* The mutex is taken again after the checks: the candidate may be dead by now.
LEMMA StandbyRelockInv ==
  ASSUME IndInv, NEW w \in Workers, StandbyRelock(w)
  PROVE  IndInv'
<1> DEFINE c == wk[w].cand
           ctx == IF wk[w].kind = "rotate" THEN "rotation" ELSE "pool"
           bits == [lc EXCEPT ![c] = @ \ {"healthChecking"}]
           failed == CasLifecycle(lc[c] \ {"healthChecking"}, {"unknown", "needsWarmup"},
                                  {"ready", "active", "standby"})
<1>0. /\ c \in Conns
      /\ UNCHANGED <<quiescing, warming, req, spawned, poll, expiring, reached, faults>>
  BY CandPick DEF IndInv, StandbyRelock, WkHolding
<1>1. ctx \in Contexts
  BY DEF Contexts
<1>2. PoolInv' /\ ResInv' /\ WkInv'
  <2>1. CASE /\ GiveUp(w) \/ (WkStep(w, "promote") /\ UNCHANGED res)
             /\ lc' = bits \/ lc' = [bits EXCEPT ![c] = @ \ {"needsWarmup"}]
             /\ UNCHANGED <<deadSince, active, standby, dead>>
    <3>1. ResInv' /\ WkInv'
      BY <1>0, <2>1, GiveUpInv, WkStepInv DEF IndInv, ResInv
    <3>2. \/ lc' = [lc EXCEPT ![c] = lc[c] \ {"healthChecking"}]
          \/ lc' = [lc EXCEPT ![c] = lc[c] \ {"healthChecking", "needsWarmup"}]
      BY <1>0, <2>1 DEF IndInv, PoolInv
    <3> QED
      BY <1>0, <2>1, <3>1, <3>2, BitsCleared DEF IndInv
  <2>2. CASE /\ InReady(c) /\ Unknown(c) /\ MoveToDead(c)
             /\ ScheduleResurrect(c, ctx, bits) /\ WkStep(w, "retry")
    <3>1. lc[c] \ {"healthChecking"} \in SUBSET LifecycleBits
      BY <1>0 DEF IndInv, PoolInv
    <3>2. /\ "unknown" \in lc[c] \ {"healthChecking"}
          /\ ~({"active", "standby"} \subseteq lc[c] \ {"healthChecking"})
      BY <1>0, <2>2 DEF IndInv, PoolInv, PositionExclusive, Unknown
    <3>3. ScheduleResurrect(c, ctx, [lc EXCEPT ![c] = lc[c] \ {"healthChecking"}])
      BY <2>2
    <3>4. PoolInv' /\ ResInv'
      <4> HIDE DEF ctx
      <4> QED
        BY <1>0, <1>1, <2>2, <3>1, <3>2, <3>3, DiedScheduled DEF IndInv
    <3> QED
      BY <1>0, <2>2, <3>4, WkStepInv DEF IndInv
  <2>3. CASE /\ InReady(c) /\ MoveToDead(c)
             /\ ScheduleResurrect(c, ctx, [bits EXCEPT ![c] =
                  CasLifecycle(@, {"unknown", "needsWarmup"}, {"ready", "active", "standby"})])
             /\ WkStep(w, "retry")
    <3>1. failed \in SUBSET LifecycleBits
      BY <1>0 DEF IndInv, PoolInv, CasLifecycle, LifecycleBits
    <3>2. "unknown" \in failed /\ ~({"active", "standby"} \subseteq failed)
      BY DEF CasLifecycle
    <3>3. [bits EXCEPT ![c] =
             CasLifecycle(@, {"unknown", "needsWarmup"}, {"ready", "active", "standby"})]
          = [lc EXCEPT ![c] = failed]
      BY <1>0 DEF IndInv, PoolInv
    <3>4. ScheduleResurrect(c, ctx, [lc EXCEPT ![c] = failed])
      BY <2>3, <3>3
    <3>5. PoolInv' /\ ResInv'
      <4> HIDE DEF ctx, failed
      <4> QED
        BY <1>0, <1>1, <2>3, <3>1, <3>2, <3>4, DiedScheduled DEF IndInv
    <3> QED
      BY <1>0, <2>3, <3>5, WkStepInv DEF IndInv
  <2> QED
    BY <2>1, <2>2, <2>3 DEF StandbyRelock, StandbyInReady, listVars
<1> QED
  BY <1>0, <1>2 DEF IndInv, ReqInv, CounterInv

\* healthcheckStart returns without a candidate.
LEMMA StandbyRetryInv ==
  ASSUME IndInv, NEW w \in Workers, StandbyRetry(w)
  PROVE  IndInv'
<1>0. /\ UNCHANGED <<lc, deadSince, quiescing, warming, active, standby, dead>>
      /\ UNCHANGED <<req, spawned, poll, expiring, reached, faults>>
  BY DEF StandbyRetry, connVars, listVars
<1>1. WkInv' /\ ResInv'
  BY GiveUpInv DEF IndInv, StandbyRetry
<1> QED
  BY <1>0, <1>1, SamePool DEF IndInv, ReqInv, CounterInv

\* promoteStandbyWithLock, which looks for the candidate again.
LEMMA PromoteStandbyInv ==
  ASSUME IndInv, NEW w \in Workers, PromoteStandby(w)
  PROVE  IndInv'
<1> DEFINE c == wk[w].cand
<1>0. /\ c \in Conns
      /\ UNCHANGED <<deadSince, quiescing, dead, req, spawned, poll, expiring, reached, faults>>
  BY CandPick DEF IndInv, PromoteStandby, WkHolding
<1>1. WkInv' /\ ResInv'
  BY EndWorkerInv, GiveUpInv DEF IndInv, PromoteStandby
<1>2. CounterInv'
  BY <1>0 DEF IndInv, CounterInv, PromoteStandby, StartWarmup
<1>3. CASE UNCHANGED <<lc, active, standby>>
  BY <1>0, <1>1, <1>2, <1>3, SamePool DEF IndInv, ReqInv
<1>4. CASE /\ standby[c] > 0
           /\ active' = [active EXCEPT ![c] = @ + 1]
           /\ standby' = [standby EXCEPT ![c] = @ - 1]
           /\ lc' = [lc EXCEPT ![c] = CasLifecycle(@, {"active"}, {"standby"})]
  <2>1. PoolInv'
    BY <1>0, <1>4, Promoted DEF IndInv
  <2> QED
    BY <1>0, <1>1, <1>2, <2>1 DEF IndInv, ReqInv
<1> QED
  BY <1>3, <1>4 DEF PromoteStandby

-----------------------------------------------------------------------------
(* The poller and the viability mark *)

\* The steps of the poller and of the viability expiry that take no position.
LEMMA SimplePollInv ==
  ASSUME IndInv,
         \/ PollSnapshot \/ ViabilityClear
         \/ \E c \in Conns : \/ PollNoVerdict(c) \/ PollUnreachable(c) \/ PollHealthy(c)
                             \/ ViabilityCheck(c)
  PROVE  IndInv'
<1>0. /\ UNCHANGED <<deadSince, quiescing, warming, active, standby, dead>>
      /\ UNCHANGED <<req, res, spawned, wk, reached>>
  BY DEF PollSnapshot, PollNoVerdict, PollUnreachable, PollHealthy, ViabilityCheck,
         ViabilityClear, connVars, listVars
<1>1. expiring' \in Conns \cup {NoConn} /\ faults' \in 0 .. MaxFaults
  BY ParametersAssumption
     DEF IndInv, CounterInv, PollSnapshot, PollNoVerdict, PollUnreachable, PollHealthy,
         ViabilityCheck, ViabilityClear, Spend
<1>2. poll' \subseteq Conns \X {"ask", "lost"}
  BY DEF IndInv, CounterInv, PollSnapshot, PollNoVerdict, PollUnreachable, PollHealthy,
         ViabilityCheck, ViabilityClear, Asked
<1>3. \/ UNCHANGED lc
      \/ \E c \in Conns : \/ lc' = [lc EXCEPT ![c] = lc[c] \ {"overloaded"}]
                         \/ lc' = [lc EXCEPT ![c] = lc[c] \ {"viable"}]
  BY DEF IndInv, CounterInv, PollSnapshot, PollNoVerdict, PollUnreachable, PollHealthy,
         ViabilityCheck, ViabilityClear, connVars
<1>4. PoolInv'
  BY <1>0, <1>3, SamePool, BitsCleared DEF IndInv
<1> QED
  BY <1>0, <1>1, <1>2, <1>4 DEF IndInv, ReqInv, ResInv, WkInv, CounterInv

\* A poll without an answer takes the position, not the list entry.
LEMMA PollLosesInv ==
  ASSUME IndInv, NEW c \in Conns, PollLoses(c)
  PROVE  IndInv'
<1>0. /\ UNCHANGED <<deadSince, quiescing, warming, active, standby, dead>>
      /\ UNCHANGED <<req, res, spawned, wk, expiring, reached, faults>>
  BY DEF PollLoses, listVars
<1>1. CounterInv'
  BY <1>0 DEF IndInv, CounterInv, PollLoses
<1> DEFINE bits == CasLifecycle(lc[c], {"unknown", "needsWarmup"}, {"ready", "active", "standby"})
<1>2. lc' = [lc EXCEPT ![c] = bits]
  BY DEF PollLoses
<1>3. bits \in SUBSET LifecycleBits
  BY DEF IndInv, PoolInv, CasLifecycle, LifecycleBits
<1>4. "unknown" \in bits /\ ~({"active", "standby"} \subseteq bits)
  BY DEF CasLifecycle
<1>5. PoolInv'
  <2> HIDE DEF bits
  <2> QED
    BY <1>0, <1>2, <1>3, <1>4, OneConnBits DEF IndInv
<1> QED
  BY <1>0, <1>1, <1>5 DEF IndInv, ReqInv, ResInv, WkInv

\* demoteOverloaded with its backfill: c leaves the active partition, b enters.
LEMMA DemotedOverloaded ==
  ASSUME PoolInv, NEW c \in Conns, NEW b \in Backfill(c), ~Unknown(c),
         UNCHANGED <<deadSince, dead>>,
         active' = [[active EXCEPT ![c] = 0] EXCEPT ![b] = @ + 1],
         standby' = [[standby EXCEPT ![c] = Weight[c]] EXCEPT ![b] = @ - 1],
         lc' = [[lc EXCEPT ![c] = CasLifecycle(@, {"standby", "overloaded"}, {"active"})]
                  EXCEPT ![b] = CasLifecycle(@, {"active"}, {"standby", "needsWarmup"})]
  PROVE  PoolInv'
<1>0. /\ b \in Conns
      /\ b # c => standby[b] > 0
      /\ Weight[c] \in Nat /\ Weight[c] > 0
      /\ InReadyList(c)
  <2>1. b \in Conns /\ (b # c => standby[b] > 0)
    BY DEF Backfill
  <2>2. Weight[c] \in Nat /\ Weight[c] > 0
    BY WeightAssumption
  <2>3. InReadyList(c)
    BY DEF PoolInv, ListedOnce, InDeadList
  <2> QED
    BY <2>1, <2>2, <2>3
<1>1. /\ active' = [d \in Conns |-> IF d = b THEN (IF b = c THEN 1 ELSE active[b] + 1)
                                    ELSE IF d = c THEN 0 ELSE active[d]]
      /\ standby' = [d \in Conns |-> IF d = b
                                     THEN (IF b = c THEN Weight[c] - 1 ELSE standby[b] - 1)
                                     ELSE IF d = c THEN Weight[c] ELSE standby[d]]
  <2>1. CASE b = c
    <3>1. active' = [active EXCEPT ![c] = 1]
      <4>1. active' = [[active EXCEPT ![c] = 0] EXCEPT ![c] = 0 + 1]
        BY <2>1 DEF PoolInv
      <4>2. 0 + 1 = 1
        OBVIOUS
      <4> QED
        BY <4>1, <4>2 DEF PoolInv
    <3>2. standby' = [standby EXCEPT ![c] = Weight[c] - 1]
      BY <2>1 DEF PoolInv
    <3> QED
      BY <2>1, <3>1, <3>2 DEF PoolInv
  <2>2. CASE b # c
    <3>1. active' = [[active EXCEPT ![c] = 0] EXCEPT ![b] = active[b] + 1]
      BY <2>2 DEF PoolInv
    <3>2. standby' = [[standby EXCEPT ![c] = Weight[c]] EXCEPT ![b] = standby[b] - 1]
      BY <2>2 DEF PoolInv
    <3> QED
      BY <1>0, <2>2, <3>1, <3>2 DEF PoolInv
  <2> QED
    BY <2>1, <2>2
<1>2. /\ active' \in [Conns -> Nat]
      /\ standby' \in [Conns -> Nat]
  BY <1>0, <1>1 DEF PoolInv
<1>3. lc' = [d \in Conns |->
               IF d = b
               THEN CasLifecycle(IF b = c THEN CasLifecycle(lc[c], {"standby", "overloaded"},
                                                            {"active"})
                                          ELSE lc[b],
                                 {"active"}, {"standby", "needsWarmup"})
               ELSE IF d = c THEN CasLifecycle(lc[c], {"standby", "overloaded"}, {"active"})
                             ELSE lc[d]]
  BY <1>0 DEF PoolInv
<1>4. lc' \in [Conns -> SUBSET LifecycleBits]
  BY <1>0, <1>3 DEF PoolInv, CasLifecycle, LifecycleBits
<1>5. PositionExclusive'
  BY <1>0, <1>3 DEF PoolInv, PositionExclusive, CasLifecycle
<1>6. \A d \in Conns : "unknown" \in lc[d] => "unknown" \in lc'[d]
  BY <1>0, <1>3 DEF PoolInv, CasLifecycle
<1>7. ListedOnce'
  <2> SUFFICES ASSUME NEW d \in Conns PROVE (InDeadList(d) \/ InReadyList(d))'
    BY DEF ListedOnce
  <2>1. dead'[d] = dead[d] /\ (d \in deadSince' <=> d \in deadSince)
    OBVIOUS
  <2>2. CASE d = c \/ d = b
    <3>1. InReadyList(d)
      BY <1>0, <2>2 DEF PoolInv, ListedOnce, InDeadList
    <3>2. active'[d] + standby'[d] > 0
      BY <1>0, <1>1, <2>2 DEF PoolInv
    <3> QED
      BY <2>1, <3>1, <3>2 DEF InReadyList, InReady
  <2>3. CASE d # c /\ d # b
    <3>1. active'[d] = active[d] /\ standby'[d] = standby[d]
      BY <1>1, <2>3
    <3> QED
      BY <1>6, <2>1, <3>1 DEF PoolInv, ListedOnce, InDeadList, InReadyList, InReady, Unknown
  <2> QED
    BY <2>2, <2>3
<1> QED
  BY <1>2, <1>4, <1>5, <1>7 DEF PoolInv

\* demoteOverloaded and its backfill.
LEMMA PollOverloadedInv ==
  ASSUME IndInv, NEW c \in Conns, PollOverloaded(c)
  PROVE  IndInv'
<1>0. UNCHANGED <<deadSince, quiescing, warming, dead, req, res, spawned, wk, expiring, reached>>
  BY DEF PollOverloaded
<1>1. CounterInv'
  <2>1. poll' \subseteq Conns \X {"ask", "lost"}
    BY DEF IndInv, CounterInv, PollOverloaded, Asked
  <2> QED
    BY <1>0, <2>1, ParametersAssumption DEF IndInv, CounterInv, PollOverloaded, Spend
<1>2. PoolInv'
  <2>1. CASE /\ lc' = [lc EXCEPT ![c] = lc[c] \cup {"overloaded"}]
             /\ UNCHANGED <<active, standby>>
    BY <1>0, <2>1, BitsSet DEF IndInv, LifecycleBits
  <2>2. CASE /\ ~Unknown(c)
             /\ \E b \in Backfill(c) :
                  /\ active' = [[active EXCEPT ![c] = 0] EXCEPT ![b] = @ + 1]
                  /\ standby' = [[standby EXCEPT ![c] = Weight[c]] EXCEPT ![b] = @ - 1]
                  /\ lc' = [[lc EXCEPT ![c] =
                               CasLifecycle(@, {"standby", "overloaded"}, {"active"})]
                            EXCEPT ![b] =
                               CasLifecycle(@, {"active"}, {"standby", "needsWarmup"})]
    BY <1>0, <2>2, DemotedOverloaded DEF IndInv
  <2> QED
    BY <2>1, <2>2 DEF PollOverloaded
<1> QED
  BY <1>0, <1>1, <1>2 DEF IndInv, ReqInv, ResInv, WkInv

-----------------------------------------------------------------------------
(* The theorems *)

\* The invariant holds for a new pool.
LEMMA InitInv == Init => IndInv
<1> SUFFICES ASSUME Init PROVE IndInv
  OBVIOUS
<1>1. PICK first \in SUBSET Seeds :
        /\ active = [c \in Conns |-> IF c \in first THEN 1 ELSE 0]
        /\ standby = [c \in Conns |-> IF c \in Seeds \ first THEN 1 ELSE 0]
        /\ lc = [c \in Conns |->
                   IF c \in first THEN {"viable", "active"}
                   ELSE IF c \in Seeds THEN {"viable", "standby", "needsWarmup"}
                   ELSE {"unknown", "needsWarmup", "healthChecking"}]
  BY DEF Init
<1>2. /\ deadSince = Conns \ Seeds
      /\ dead = [c \in Conns |-> IF c \in Seeds THEN 0 ELSE 1]
  BY DEF Init
<1>3. PoolInv
  <2>1. lc \in [Conns -> SUBSET LifecycleBits] /\ PositionExclusive
    BY <1>1 DEF LifecycleBits, PositionExclusive
  <2>2. ListedOnce
    <3> SUFFICES ASSUME NEW c \in Conns PROVE InDeadList(c) \/ InReadyList(c)
      BY DEF ListedOnce
    <3>1. CASE c \in Seeds
      BY <1>1, <1>2, <3>1 DEF InReadyList, InReady
    <3>2. CASE c \notin Seeds
      BY <1>1, <1>2, <3>2 DEF InDeadList, Unknown
    <3> QED
      BY <3>1, <3>2
  <2> QED
    BY <1>1, <1>2, <2>1, <2>2 DEF PoolInv
<1>4. ReqInv
  BY DEF Init, ReqInv, Request, ReqStates, ReqHolding
<1>5. ResInv
  BY DEF Init, ResInv, ResStates, Contexts
<1>6. WkInv
  BY DEF Init, WkInv, IdleWorker, Worker, WkStates, WkHolding
<1>7. CounterInv
  BY ParametersAssumption DEF Init, CounterInv
<1> QED
  BY <1>3, <1>4, <1>5, <1>6, <1>7 DEF IndInv

\* Every step of the pool and of its goroutines keeps the invariant.
LEMMA NextInv == IndInv /\ [Next]_vars => IndInv'
<1> SUFFICES ASSUME IndInv, [Next]_vars PROVE IndInv'
  OBVIOUS
<1>1. ASSUME NEW k \in Clients, ClientStep(k) PROVE IndInv'
  BY <1>1, NextConnInv, TriggerInv, NextFallbackInv, SimpleRequestInv, OnSuccessInv,
     OnFailureInv, OnFailureScheduleInv DEF ClientStep
<1>2. ASSUME NEW c \in Conns, ResurrectStep(c) PROVE IndInv'
  BY <1>2, ResurrectWakeInv, ResurrectProbeInv, ResurrectRelockInv, ResurrectEndInv
     DEF ResurrectStep
<1>3. ASSUME NEW w \in Workers, WorkerStep(w) \/ StartRotation(w) PROVE IndInv'
  BY <1>3, StartWorkerInv, FindActiveCandidateInv, StandbyProbeInv, StandbyRelockInv,
     StandbyRetryInv, PromoteStandbyInv DEF WorkerStep
<1>4. ASSUME NEW c \in Conns, PollStep(c) \/ ViabilityCheck(c) PROVE IndInv'
  BY <1>4, PollLosesInv, PollOverloadedInv, SimplePollInv DEF PollStep
<1>5. CASE PollSnapshot \/ ViabilityClear
  BY <1>5, SimplePollInv
<1>6. CASE UNCHANGED vars
  BY <1>6, SamePool DEF IndInv, ReqInv, ResInv, WkInv, CounterInv, vars, connVars, listVars, taskVars
<1> QED
  BY <1>1, <1>2, <1>3, <1>4, <1>5, <1>6 DEF Next

\* The inductive invariant holds throughout: the lists of the pool, the bits of
\* its connections and what each goroutine holds agree at every release of cp.mu.
THEOREM Invariance == Spec => []IndInv
BY InitInv, NextInv, PTL DEF Spec

\* Every variable keeps its type; in particular removeFromDeadWithLock, which
\* the resurrection paths call for an entry they do not look for, never runs on
\* a connection that has no entry.
THEOREM TypeCorrect == Spec => []TypeOK
<1>1. IndInv => TypeOK
  BY IndInvSplit
<1> QED
  BY <1>1, Invariance, PTL

\* OnFailure, OnSuccess, the resurrection goroutines, standby promotion, lazy
\* eviction and the poller together keep every connection in exactly one list.
THEOREM NoConnectionLost == Spec => []ListedOnce
<1>1. IndInv => ListedOnce
  BY IndInvSplit
<1> QED
  BY <1>1, Invariance, PTL

\* lcActive and lcStandby are never both set (connection_lifecycle.go).
THEOREM PositionsExclude == Spec => []PositionExclusive
<1>1. IndInv => PositionExclusive
  BY IndInvSplit
<1> QED
  BY <1>1, Invariance, PTL

-----------------------------------------------------------------------------
(* Draining *)

\* Only the two resurrection paths that test the draining counter take a
\* connection out of the dead list when health checks are configured.
LEMMA QuiesceStep ==
  ASSUME IndInv, HealthCheckConfigured, [Next]_vars,
         NEW d \in Conns, dead[d] > 0, dead'[d] = 0
  PROVE  quiescing[d] = 0
<1>0. dead \in [Conns -> Nat] /\ quiescing[d] \in Nat
  BY ParametersAssumption DEF IndInv, PoolInv, CounterInv
<1>1. ASSUME NEW c \in Conns, Resurrect(c), ~Draining(c) PROVE quiescing[d] = 0
  <2>1. d = c
    BY <1>0, <1>1 DEF Resurrect
  <2> QED
    BY <1>0, <1>1, <2>1 DEF Draining
<1>2. ASSUME NEW k \in Clients, ClientStep(k) PROVE quiescing[d] = 0
  <2>1. CASE OnSuccess(k)
    <3>1. req[k].conn \in Conns
      BY <2>1, ConnPick DEF IndInv, OnSuccess, ReqHolding
    <3>2. Resurrect(req[k].conn) /\ ~Draining(req[k].conn)
      BY <1>0, <2>1 DEF OnSuccess, ShouldSkipDraining, listVars
    <3> QED
      BY <1>1, <3>1, <3>2
  <2>2. ~NextFallback(k)
    BY <1>0 DEF NextFallback
  <2>3. ~OnFailure(k)
    <3> SUFFICES ASSUME OnFailure(k) PROVE FALSE
      OBVIOUS
    <3>1. req[k].conn \in Conns
      BY ConnPick DEF IndInv, OnFailure, ReqHolding
    <3>2. dead' = dead \/ dead' = [dead EXCEPT ![req[k].conn] = @ + 1]
      BY DEF OnFailure, MoveToDead, listVars
    <3> QED
      BY <1>0, <3>1, <3>2
  <2>4. dead' # dead
    BY <1>0
  <2> QED
    BY <1>2, <2>1, <2>2, <2>3, <2>4
       DEF ClientStep, NextConn, TriggerCapEnforcement, LeavePool, RequestFails,
           OnFailureSchedule, ProactiveCheck, listVars
<1>3. ASSUME NEW c \in Conns, ResurrectStep(c) PROVE quiescing[d] = 0
  <2>1. ResurrectRelock(c)
    BY <1>0, <1>3 DEF ResurrectStep, ResurrectWake, ResurrectCancelled, ResurrectProbe,
                      ResurrectExit, listVars
  <2>2. Resurrect(c) /\ ~Draining(c)
    BY <1>0, <2>1 DEF ResurrectRelock, listVars
  <2> QED
    BY <1>1, <2>2
<1>4. ASSUME NEW w \in Workers, WorkerStep(w) \/ StartRotation(w) PROVE FALSE
  <2>1. StandbyRelock(w) => wk[w].cand \in Conns
    BY CandPick DEF IndInv, StandbyRelock, WkHolding
  <2>2. StandbyRelock(w) => dead' = dead \/ dead' = [dead EXCEPT ![wk[w].cand] = @ + 1]
    BY DEF StandbyRelock, MoveToDead, listVars
  <2>3. ~StandbyRelock(w)
    BY <1>0, <2>1, <2>2
  <2> QED
    BY <1>0, <1>4, <2>3
       DEF WorkerStep, StartAsyncPromote, StartRotation, FindActiveCandidate,
           StandbyProbe, StandbyRetry, PromoteStandby, listVars
<1>5. ASSUME NEW c \in Conns, PollStep(c) \/ ViabilityCheck(c) PROVE FALSE
  BY <1>0, <1>5 DEF PollStep, PollNoVerdict, PollUnreachable, PollLoses, PollOverloaded,
                    PollHealthy, ViabilityCheck, listVars
<1>6. ~(PollSnapshot \/ ViabilityClear \/ UNCHANGED vars)
  BY <1>0 DEF PollSnapshot, ViabilityClear, vars, listVars
<1> QED
  BY <1>2, <1>3, <1>4, <1>5, <1>6 DEF Next

\* With health checks configured, a connection that drains after a stream reset
\* leaves the dead list only after its last quiescing check: neither OnSuccess of
\* a late response nor the resurrection goroutine brings it back earlier.
THEOREM DrainingHolds ==
  ASSUME HealthCheckConfigured
  PROVE  Spec => QuiesceBlocksResurrection
<1>1. IndInv /\ [Next]_vars
        => [\A c \in Conns : dead[c] > 0 /\ dead'[c] = 0 => quiescing[c] = 0]_vars
  BY QuiesceStep
<1> QED
  BY <1>1, Invariance, PTL DEF Spec, QuiesceBlocksResurrection

-----------------------------------------------------------------------------
(* No request to an address nobody has reached *)

\* What the pool may hand out: its ready list, its zombies, and what a
\* resurrection goroutine is about to put back.
InUse(c) == InReady(c) \/ "viable" \in lc[c] \/ res[c].pc = "passed"
ReachInv == /\ \A c \in Conns : InUse(c) => c \in Seeds \cup reached
            /\ SentIsProven

NoNewUse == \A c \in Conns : InUse(c)' => InUse(c)

\* Neither the ready list, nor viability, nor a passed check is new.
LEMMA UseKept ==
  ASSUME IndInv, UNCHANGED <<active, standby>>,
         \A c \in Conns : "viable" \in lc'[c] => "viable" \in lc[c],
         \A c \in Conns : res'[c].pc = "passed" => res[c].pc = "passed"
  PROVE  NoNewUse
BY DEF NoNewUse, InUse, InReady

\* Only OnSuccess lets a request make a connection usable.
LEMMA ClientUse ==
  ASSUME IndInv, NEW k \in Clients, ClientStep(k), ~OnSuccess(k)
  PROVE  NoNewUse
<1>1. CASE NextConn(k) \/ LeavePool(k) \/ RequestFails(k) \/ ProactiveCheck(k)
  <2>1. UNCHANGED <<active, standby, res>>
    BY <1>1 DEF NextConn, LeavePool, RequestFails, ProactiveCheck, listVars, taskVars
  <2>2. \A c \in Conns : "viable" \in lc'[c] => "viable" \in lc[c]
    BY <1>1 DEF IndInv, PoolInv, NextConn, LeavePool, RequestFails, ProactiveCheck, connVars,
                CompleteWarmup, CasLifecycle
  <2> QED
    BY <2>1, <2>2, UseKept
<1>2. CASE OnFailureSchedule(k)
  <2>1. UNCHANGED <<active, standby>>
    BY <1>2 DEF OnFailureSchedule, listVars
  <2>2. \A c \in Conns : "viable" \in lc'[c] => "viable" \in lc[c]
    BY <1>2 DEF IndInv, PoolInv, OnFailureSchedule, ScheduleResurrect
  <2>3. \A c \in Conns : res'[c].pc = "passed" => res[c].pc = "passed"
    BY <1>2 DEF IndInv, ResInv, OnFailureSchedule, ScheduleResurrect
  <2> QED
    BY <2>1, <2>2, <2>3, UseKept
<1>3. CASE OnFailure(k)
  <2>1. UNCHANGED res
    BY <1>3 DEF OnFailure, taskVars
  <2>2. \A c \in Conns : "viable" \in lc'[c] => "viable" \in lc[c]
    <3> DEFINE bits == CasLifecycle(lc[req[k].conn], {"unknown", "needsWarmup"},
                                    {"ready", "active", "standby", "overloaded"})
    <3>1. lc' = lc \/ lc' = [lc EXCEPT ![req[k].conn] = bits]
      BY <1>3 DEF OnFailure
    <3>2. "viable" \in bits => "viable" \in lc[req[k].conn]
      BY DEF CasLifecycle
    <3> HIDE DEF bits
    <3> QED
      BY <3>1, <3>2 DEF IndInv, PoolInv
  <2>3. \A c \in Conns : InReady(c)' => InReady(c)
    <3>1. \/ UNCHANGED <<active, standby>>
          \/ /\ active' = [active EXCEPT ![req[k].conn] = 0]
             /\ standby' = [standby EXCEPT ![req[k].conn] = 0]
      BY <1>3 DEF OnFailure, MoveToDead, listVars
    <3> QED
      BY <3>1 DEF IndInv, PoolInv, InReady
  <2> QED
    BY <2>1, <2>2, <2>3 DEF NoNewUse, InUse
<1>4. CASE TriggerCapEnforcement(k)
  <2>1. UNCHANGED res
    BY <1>4 DEF TriggerCapEnforcement, taskVars
  <2>2. CASE UNCHANGED <<lc, active, standby>>
    BY <2>1, <2>2, UseKept
  <2>3. CASE ~UNCHANGED <<lc, active, standby>>
    <3>1. PICK moved \in Overflows :
            /\ active' = [c \in Conns |-> active[c] - moved[c]]
            /\ standby' = [c \in Conns |-> standby[c] + moved[c]]
            /\ lc' = [c \in Conns |->
                        IF moved[c] = 0 THEN lc[c]
                        ELSE CasLifecycle(lc[c], {"standby", "needsWarmup"}, {"active"})]
      BY <1>4, <2>3 DEF TriggerCapEnforcement, EnforceActiveCap
    <3>2. \A c \in Conns : moved[c] \in Int
      BY DEF Overflows
    <3>3. \A c \in Conns : InReady(c)' => InReady(c)
      BY <3>1, <3>2 DEF IndInv, PoolInv, InReady
    <3>4. \A c \in Conns : "viable" \in lc'[c] => "viable" \in lc[c]
      BY <3>1 DEF CasLifecycle
    <3> QED
      BY <2>1, <3>3, <3>4 DEF NoNewUse, InUse
  <2> QED
    BY <2>2, <2>3
<1>5. CASE NextFallback(k)
  <2> DEFINE act(E) == [c \in Conns |-> IF c \in E THEN 0 ELSE active[c]]
             stb(E) == [c \in Conns |-> IF c \in E THEN 0 ELSE standby[c]]
             bits(E) == [c \in Conns |-> IF c \in E THEN lc[c] \cup {"unknown"} ELSE lc[c]]
  <2>1. PICK E \in SUBSET Demoted :
          \/ active' = act(E) /\ standby' = stb(E) /\ lc' = bits(E)
          \/ \E c \in Conns :
               /\ stb(E)[c] > 0
               /\ active' = [act(E) EXCEPT ![c] = @ + 1]
               /\ standby' = [stb(E) EXCEPT ![c] = @ - 1]
               /\ lc' = [bits(E) EXCEPT ![c] =
                           CasLifecycle(@, {"active"}, {"standby", "needsWarmup"})]
    BY <1>5 DEF NextFallback
  <2>2. UNCHANGED res
    BY <1>5 DEF NextFallback, taskVars
  <2>3. /\ \A c \in Conns : "viable" \in bits(E)[c] => "viable" \in lc[c]
        /\ \A c \in Conns : act(E)[c] + stb(E)[c] > 0 => InReady(c)
        /\ act(E) \in [Conns -> Nat] /\ stb(E) \in [Conns -> Nat]
        /\ DOMAIN bits(E) = Conns
    BY DEF IndInv, PoolInv, InReady
  <2>4. CASE active' = act(E) /\ standby' = stb(E) /\ lc' = bits(E)
    BY <2>2, <2>3, <2>4 DEF NoNewUse, InUse, InReady
  <2>5. ASSUME NEW p \in Conns, stb(E)[p] > 0,
               active' = [act(E) EXCEPT ![p] = @ + 1],
               standby' = [stb(E) EXCEPT ![p] = @ - 1],
               lc' = [bits(E) EXCEPT ![p] =
                        CasLifecycle(@, {"active"}, {"standby", "needsWarmup"})]
        PROVE  NoNewUse
    <3> HIDE DEF act, stb, bits
    <3>1. \A c \in Conns : "viable" \in lc'[c] => "viable" \in lc[c]
      BY <2>3, <2>5 DEF CasLifecycle
    <3>2. \A c \in Conns : InReady(c)' => act(E)[c] + stb(E)[c] > 0
      BY <2>3, <2>5 DEF InReady
    <3> QED
      BY <2>2, <2>3, <3>1, <3>2 DEF NoNewUse, InUse
  <2> QED
    BY <2>1, <2>4, <2>5
<1> QED
  BY <1>1, <1>2, <1>3, <1>4, <1>5 DEF ClientStep

\* Promotion only uses connections of the ready list.
LEMMA WorkerUse ==
  ASSUME IndInv, NEW w \in Workers, WorkerStep(w) \/ StartRotation(w)
  PROVE  NoNewUse
<1>1. \A c \in Conns : res'[c].pc = "passed" => res[c].pc = "passed"
  <2>1. ASSUME EndWorker(w) PROVE \A c \in Conns : res'[c].pc = res[c].pc
    BY <2>1 DEF IndInv, ResInv, EndWorker, EndedRes
  <2>2. ASSUME GiveUp(w) PROVE \A c \in Conns : res'[c].pc = res[c].pc
    BY <2>1, <2>2 DEF GiveUp
  <2>3. ASSUME NEW c, NEW ctx, NEW bits, ScheduleResurrect(c, ctx, bits)
        PROVE  \A d \in Conns : res'[d].pc = "passed" => res[d].pc = "passed"
    BY <2>3 DEF IndInv, ResInv, ScheduleResurrect
  <2>4. CASE StandbyRelock(w)
    BY <2>2, <2>3, <2>4 DEF StandbyRelock
  <2> QED
    BY <2>1, <2>2, <2>4
       DEF WorkerStep, StartAsyncPromote, StartRotation, FindActiveCandidate, StandbyProbe,
           StandbyRetry, PromoteStandby
<1>2. \A c \in Conns : "viable" \in lc'[c] => "viable" \in lc[c]
  <2>1. CASE StandbyRelock(w)
    <3>1. ASSUME NEW bits, NEW ctx, ScheduleResurrect(wk[w].cand, ctx, bits),
                 DOMAIN bits = Conns,
                 \A c \in Conns : "viable" \in bits[c] => "viable" \in lc[c]
          PROVE  \A c \in Conns : "viable" \in lc'[c] => "viable" \in lc[c]
      BY <3>1 DEF ScheduleResurrect
    <3> DEFINE bits == [lc EXCEPT ![wk[w].cand] = @ \ {"healthChecking"}]
               failed == [bits EXCEPT ![wk[w].cand] = CasLifecycle(@, {"unknown", "needsWarmup"},
                                                        {"ready", "active", "standby"})]
               kept == [bits EXCEPT ![wk[w].cand] = @ \ {"needsWarmup"}]
    <3>2. /\ DOMAIN bits = Conns
          /\ \A c \in Conns : "viable" \in bits[c] => "viable" \in lc[c]
      BY DEF IndInv, PoolInv
    <3>3. /\ DOMAIN failed = Conns
          /\ \A c \in Conns : "viable" \in failed[c] => "viable" \in lc[c]
      BY DEF IndInv, PoolInv, CasLifecycle
    <3>4. \A c \in Conns : "viable" \in kept[c] => "viable" \in lc[c]
      BY DEF IndInv, PoolInv
    <3>5. \/ lc' = bits \/ lc' = kept
          \/ \E ctx : \/ ScheduleResurrect(wk[w].cand, ctx, bits)
                      \/ ScheduleResurrect(wk[w].cand, ctx, failed)
      BY <2>1 DEF StandbyRelock
    <3> HIDE DEF bits, failed, kept
    <3> QED
      BY <3>1, <3>2, <3>3, <3>4, <3>5
  <2>2. CASE ~StandbyRelock(w)
    BY <2>2 DEF IndInv, PoolInv, WorkerStep, StartAsyncPromote, StartRotation,
                FindActiveCandidate, StandbyProbe, StandbyRetry, PromoteStandby, connVars,
                HealthCheckPasses, CompleteWarmup, CasLifecycle
  <2> QED
    BY <2>1, <2>2
<1>3. \A c \in Conns : InReady(c)' => InReady(c)
  <2> DEFINE c == wk[w].cand
  <2>1. \/ UNCHANGED <<active, standby>>
        \/ /\ active' = [active EXCEPT ![c] = 0]
           /\ standby' = [standby EXCEPT ![c] = 0]
        \/ /\ standby[c] > 0
           /\ active' = [active EXCEPT ![c] = @ + 1]
           /\ standby' = [standby EXCEPT ![c] = @ - 1]
    BY DEF WorkerStep, StartAsyncPromote, StartRotation, FindActiveCandidate, StandbyProbe,
           StandbyRetry, PromoteStandby, StandbyRelock, MoveToDead, listVars
  <2> HIDE DEF c
  <2> QED
    BY <2>1 DEF IndInv, PoolInv, InReady
<1> QED
  BY <1>1, <1>2, <1>3 DEF NoNewUse, InUse

\* The poller and the viability expiry make no connection usable.
LEMMA PollUse ==
  ASSUME IndInv,
         \/ \E c \in Conns : PollStep(c) \/ ViabilityCheck(c)
         \/ PollSnapshot \/ ViabilityClear
  PROVE  NoNewUse
<1>1. UNCHANGED res
  BY DEF PollStep, PollNoVerdict, PollUnreachable, PollLoses, PollOverloaded, PollHealthy,
         ViabilityCheck, PollSnapshot, ViabilityClear
<1>2. \A c \in Conns : "viable" \in lc'[c] => "viable" \in lc[c]
  <2>1. ASSUME NEW c \in Conns, PollOverloaded(c)
        PROVE  \A d \in Conns : "viable" \in lc'[d] => "viable" \in lc[d]
    BY <2>1 DEF IndInv, PoolInv, PollOverloaded, CasLifecycle
  <2>2. ASSUME NEW c \in Conns, PollLoses(c) \/ PollHealthy(c)
        PROVE  \A d \in Conns : "viable" \in lc'[d] => "viable" \in lc[d]
    BY <2>2 DEF IndInv, PoolInv, PollLoses, PollHealthy, CasLifecycle
  <2>3. CASE ViabilityClear
    BY <2>3 DEF IndInv, PoolInv, ViabilityClear
  <2>4. CASE UNCHANGED lc
    BY <2>4
  <2> QED
    BY <2>1, <2>2, <2>3, <2>4
       DEF PollStep, PollNoVerdict, PollUnreachable, ViabilityCheck, PollSnapshot, connVars
<1>3. \A c \in Conns : InReady(c)' => InReady(c)
  <2>1. CASE UNCHANGED <<active, standby>>
    BY <2>1 DEF InReady
  <2>2. ASSUME NEW c \in Conns, PollOverloaded(c), ~UNCHANGED <<active, standby>>
        PROVE  \A d \in Conns : InReady(d)' => InReady(d)
    <3>1. PICK b \in Backfill(c) :
            /\ active' = [[active EXCEPT ![c] = 0] EXCEPT ![b] = @ + 1]
            /\ standby' = [[standby EXCEPT ![c] = Weight[c]] EXCEPT ![b] = @ - 1]
      BY <2>2 DEF PollOverloaded
    <3>2. InReady(c)
      BY <2>2 DEF IndInv, PoolInv, ListedOnce, InDeadList, InReadyList, PollOverloaded
    <3>3. b \in Conns /\ (b # c => standby[b] > 0)
      BY DEF Backfill
    <3>4. InReady(b)
      BY <3>2, <3>3 DEF IndInv, PoolInv, InReady
    <3>5. \A d \in Conns \ {b, c} : active'[d] = active[d] /\ standby'[d] = standby[d]
      BY <3>1, <3>3 DEF IndInv, PoolInv
    <3> QED
      BY <3>2, <3>4, <3>5 DEF InReady
  <2> QED
    BY <2>1, <2>2 DEF PollStep, PollNoVerdict, PollUnreachable, PollLoses, PollHealthy,
                      ViabilityCheck, PollSnapshot, ViabilityClear, listVars
<1> QED
  BY <1>1, <1>2, <1>3 DEF NoNewUse, InUse

\* The history of answers only grows.
LEMMA ReachedGrows ==
  ASSUME [Next]_vars
  PROVE  reached \subseteq reached'
BY DEF Next, ClientStep, NextConn, TriggerCapEnforcement, NextFallback, LeavePool, OnSuccess,
       RequestFails, OnFailure, OnFailureSchedule, ProactiveCheck, ResurrectStep,
       ResurrectWake, ResurrectCancelled, ResurrectProbe, ResurrectRelock, ResurrectExit,
       WorkerStep, StartAsyncPromote, StartRotation, FindActiveCandidate, StandbyProbe,
       StandbyRelock, StandbyRetry, PromoteStandby, PollStep, PollNoVerdict,
       PollUnreachable, PollLoses, PollOverloaded, PollHealthy, ViabilityCheck,
       PollSnapshot, ViabilityClear,
       HealthCheckPasses, vars

\* The three steps that make use of a connection possible: a success and a
\* passed check record the answer, and a resurrection follows a passed check.
LEMMA NewUseIsReached ==
  ASSUME IndInv, HealthCheckConfigured, ReachInv, [Next]_vars
  PROVE  \A c \in Conns : InUse(c)' => c \in Seeds \cup reached'
<1>0. reached \subseteq reached'
  BY ReachedGrows
<1>1. CASE NoNewUse
  BY <1>0, <1>1 DEF ReachInv, NoNewUse
<1>2. ASSUME NEW c \in Conns, Resurrect(c) PROVE \A d \in Conns \ {c} :
        /\ InReady(d)' => InReady(d)
        /\ "viable" \in lc'[d] => "viable" \in lc[d]
  BY <1>2 DEF IndInv, PoolInv, Resurrect, InReady
<1>3. ASSUME NEW k \in Clients, OnSuccess(k)
      PROVE  \A c \in Conns : InUse(c)' => c \in Seeds \cup reached'
  <2> DEFINE c == req[k].conn
  <2>1. c \in Conns /\ UNCHANGED res
    BY <1>3, ConnPick DEF IndInv, OnSuccess, ReqHolding, taskVars
  <2>2. c \in Seeds \cup reached'
    BY <1>3 DEF OnSuccess
  <2>3. Resurrect(c) \/ UNCHANGED <<lc, active, standby>>
    BY <1>3 DEF OnSuccess, listVars
  <2> HIDE DEF c
  <2>4. \A d \in Conns \ {c} : InUse(d)' => InUse(d)
    BY <1>2, <2>1, <2>3 DEF InUse, InReady
  <2> QED
    BY <1>0, <2>2, <2>4 DEF ReachInv
<1>4. ASSUME NEW c \in Conns, ResurrectStep(c)
      PROVE  \A d \in Conns : InUse(d)' => d \in Seeds \cup reached'
  <2>1. \A d \in Conns \ {c} : res'[d] = res[d]
    BY <1>4 DEF IndInv, ResInv, ResurrectStep, ResurrectWake, ResurrectCancelled,
                ResurrectProbe, ResurrectRelock, ResurrectExit, ResStep
  <2>2. CASE ResurrectRelock(c)
    <3>1. c \in Seeds \cup reached
      BY <2>2 DEF ReachInv, InUse, ResurrectRelock
    <3>2. \A d \in Conns \ {c} : InUse(d)' => InUse(d)
      BY <1>2, <2>1, <2>2 DEF ResurrectRelock, InUse, InReady, listVars
    <3> QED
      BY <1>0, <3>1, <3>2 DEF ReachInv
  <2>3. CASE ResurrectProbe(c)
    <3>1. UNCHANGED <<active, standby>> /\ \A d \in Conns \ {c} : lc'[d] = lc[d]
      BY <2>3 DEF IndInv, PoolInv, ResurrectProbe, HealthCheckPasses, listVars
    <3>2. \A d \in Conns \ {c} : InUse(d)' => InUse(d)
      BY <2>1, <3>1 DEF InUse, InReady
    <3>3. CASE HealthCheckPasses(c)
      <4>1. c \in Seeds \cup reached'
        BY <3>3 DEF HealthCheckPasses
      <4> QED
        BY <1>0, <3>2, <4>1 DEF ReachInv
    <3>4. CASE UNCHANGED lc /\ ResStep(c, "waiting")
      <4>1. InUse(c)' => InUse(c)
        BY <3>1, <3>4 DEF IndInv, ResInv, ResStep, InUse, InReady
      <4> QED
        BY <1>0, <3>2, <4>1 DEF ReachInv
    <3> QED
      BY <2>3, <3>3, <3>4 DEF ResurrectProbe
  <2>4. CASE ResurrectWake(c) \/ ResurrectCancelled(c) \/ ResurrectExit(c)
    <3>1. UNCHANGED <<active, standby>>
      BY <2>4 DEF ResurrectWake, ResurrectCancelled, ResurrectExit, listVars
    <3>2. \A d \in Conns : "viable" \in lc'[d] => "viable" \in lc[d]
      BY <2>4 DEF IndInv, PoolInv, ResurrectWake, ResurrectCancelled, ResurrectExit, connVars
    <3>3. res'[c].pc # "passed"
      BY <2>4 DEF IndInv, ResInv, ResurrectWake, ResurrectCancelled, ResurrectExit, ResStep
    <3>4. NoNewUse
      BY <2>1, <3>1, <3>2, <3>3, UseKept
    <3> QED
      BY <1>1, <3>4
  <2> QED
    BY <1>4, <2>2, <2>3, <2>4 DEF ResurrectStep
<1>5. CASE UNCHANGED vars
  <2>1. NoNewUse
    BY <1>5, UseKept DEF vars, connVars, listVars, taskVars
  <2> QED
    BY <1>1, <2>1
<1> QED
  BY <1>1, <1>3, <1>4, <1>5, ClientUse, WorkerUse, PollUse DEF Next

\* The request picks what was usable, or keeps what it has.
LEMMA SentStep ==
  ASSUME IndInv, ReachInv, [Next]_vars, reached \subseteq reached'
  PROVE  SentIsProven'
<1>1. ASSUME NEW k \in Clients, NEW pc, NEW c, Step(k, pc, c),
             pc \in {"sent", "trigger"} => c \in Seeds \cup reached
      PROVE  SentIsProven'
  BY <1>1 DEF IndInv, ReqInv, ReachInv, SentIsProven, Step, Request
<1>2. CASE UNCHANGED req
  BY <1>2 DEF ReachInv, SentIsProven
<1>3. ASSUME NEW k \in Clients, ClientStep(k) PROVE SentIsProven'
  <2>1. \A c \in Servable : c \in Seeds \cup reached
    BY DEF IndInv, PoolInv, ReachInv, InUse, InReady, Servable
  <2>2. \A c \in Conns : standby[c] > 0 => c \in Seeds \cup reached
    BY DEF IndInv, PoolInv, ReachInv, InUse, InReady
  <2>3. \A c \in Conns : AvailableForRouting(c) => c \in Seeds \cup reached
    BY DEF ReachInv, InUse, AvailableForRouting
  <2>4. CASE NextConn(k)
    BY <1>1, <2>1, <2>4 DEF NextConn
  <2>5. CASE NextFallback(k)
    <3>1. ASSUME NEW list, ServeZombie(k, list) PROVE SentIsProven'
      BY <1>1, <2>3, <3>1 DEF ServeZombie
    <3>2. \/ \E c \in Servable : Step(k, "sent", c)
          \/ \E list : ServeZombie(k, list)
          \/ \E c \in Conns : standby[c] > 0 /\ Step(k, "sent", c)
      <4> DEFINE stb(E) == [c \in Conns |-> IF c \in E THEN 0 ELSE standby[c]]
      <4>1. \/ \E c \in Servable : Step(k, "sent", c)
            \/ \E list : ServeZombie(k, list)
            \/ \E c \in Conns : \E E : stb(E)[c] > 0 /\ Step(k, "sent", c)
        BY <2>5 DEF NextFallback
      <4>2. \A c \in Conns : \A E : stb(E)[c] > 0 => standby[c] > 0
        OBVIOUS
      <4> HIDE DEF stb
      <4> QED
        BY <4>1, <4>2
    <3> QED
      BY <1>1, <2>1, <2>2, <3>1, <3>2
  <2>6. CASE TriggerCapEnforcement(k)
    BY <1>1, <2>6 DEF ReachInv, SentIsProven, TriggerCapEnforcement
  <2>7. CASE OnFailure(k)
    <3>1. \/ Step(k, "idle", NoConn)
          \/ \E b : req' = [req EXCEPT ![k] = Request("schedule", req[k].conn, b)]
      BY <2>7 DEF OnFailure
    <3>2. ASSUME NEW b, req' = [req EXCEPT ![k] = Request("schedule", req[k].conn, b)]
          PROVE  SentIsProven'
      BY <3>2 DEF IndInv, ReqInv, ReachInv, SentIsProven, Request
    <3> QED
      BY <1>1, <3>1, <3>2
  <2> QED
    BY <1>1, <1>3, <2>4, <2>5, <2>6, <2>7
       DEF ClientStep, LeavePool, OnSuccess, RequestFails, OnFailureSchedule, ProactiveCheck
<1> QED
  BY <1>2, <1>3
     DEF Next, ResurrectStep, ResurrectWake, ResurrectCancelled, ResurrectProbe,
         ResurrectRelock, ResurrectExit, WorkerStep, StartAsyncPromote, StartRotation,
         FindActiveCandidate, StandbyProbe, StandbyRelock, StandbyRetry, PromoteStandby,
         PollStep, PollNoVerdict, PollUnreachable, PollLoses, PollOverloaded, PollHealthy,
         ViabilityCheck,
         PollSnapshot, ViabilityClear, vars

\* At first only seeds are in use.
LEMMA ReachInit == Init => ReachInv
<1> SUFFICES ASSUME Init PROVE ReachInv
  OBVIOUS
<1>1. PICK first \in SUBSET Seeds :
        /\ active = [c \in Conns |-> IF c \in first THEN 1 ELSE 0]
        /\ standby = [c \in Conns |-> IF c \in Seeds \ first THEN 1 ELSE 0]
        /\ lc = [c \in Conns |->
                   IF c \in first THEN {"viable", "active"}
                   ELSE IF c \in Seeds THEN {"viable", "standby", "needsWarmup"}
                   ELSE {"unknown", "needsWarmup", "healthChecking"}]
  BY DEF Init
<1>2. \A c \in Conns \ Seeds : ~InReady(c) /\ "viable" \notin lc[c]
  BY <1>1 DEF InReady
<1>3. \A c \in Conns : res[c].pc # "passed"
  BY DEF Init
<1>4. SentIsProven
  BY DEF Init, SentIsProven, Request
<1> QED
  BY <1>2, <1>3, <1>4 DEF ReachInv, InUse

\* With health checks configured no request is ever sent to a discovered address
\* that has not answered: neither the ready list nor the zombie fallback of Next
\* offers one, whatever failures, promotions and expiries interleave.
THEOREM OnlyReachedAreServed ==
  ASSUME HealthCheckConfigured
  PROVE  Spec => []SentIsProven
<1>1. IndInv /\ ReachInv /\ [Next]_vars => ReachInv'
  <2> SUFFICES ASSUME IndInv, ReachInv, [Next]_vars PROVE ReachInv'
    OBVIOUS
  <2>1. reached \subseteq reached'
    BY ReachedGrows
  <2>2. SentIsProven'
    BY <2>1, SentStep
  <2>3. \A c \in Conns : InUse(c)' => c \in Seeds \cup reached'
    BY NewUseIsReached
  <2> QED
    BY <2>2, <2>3 DEF ReachInv
<1>2. ReachInv => SentIsProven
  BY DEF ReachInv
<1> QED
  BY <1>1, <1>2, ReachInit, Invariance, PTL DEF Spec

-----------------------------------------------------------------------------
(* ErrNoConnections is the last resort *)

\* Without the stats poller, nobody takes the position of a connection away
\* while it is in the ready list.
Positioned == \A c \in Conns : InReady(c) => IsReady(lc[c])
PositionInv == poll = {} /\ Positioned

\* The lists stay, and no connection loses its last position bit.
LEMMA PositionKept ==
  ASSUME Positioned, UNCHANGED <<active, standby>>,
         \A c \in Conns : IsReady(lc[c]) => IsReady(lc'[c])
  PROVE  Positioned'
BY DEF Positioned, InReady

\* resurrectWithLock sets the bit of the partition it appends to.
LEMMA PositionRevived ==
  ASSUME IndInv, Positioned, NEW c \in Conns, Resurrect(c)
  PROVE  Positioned'
<1>1. PICK bit \in {"active", "standby"} : lc' = [lc EXCEPT ![c] = ResurrectBits(c, bit)]
  BY DEF Resurrect
<1>2. IsReady(lc'[c])
  BY <1>1 DEF IndInv, PoolInv, IsReady, ResurrectBits, CasLifecycle
<1>3. \A d \in Conns \ {c} : /\ lc'[d] = lc[d] /\ active'[d] = active[d]
                             /\ standby'[d] = standby[d]
  BY <1>1 DEF IndInv, PoolInv, Resurrect
<1> QED
  BY <1>2, <1>3 DEF Positioned, InReady

\* A connection that moves to the dead list needs no position.
LEMMA PositionDied ==
  ASSUME IndInv, Positioned, NEW c \in Conns, MoveToDead(c),
         \A d \in Conns \ {c} : lc'[d] = lc[d]
  PROVE  Positioned'
<1>1. ~InReady(c)'
  BY DEF IndInv, PoolInv, MoveToDead, InReady
<1>2. \A d \in Conns \ {c} : active'[d] = active[d] /\ standby'[d] = standby[d]
  BY DEF IndInv, PoolInv, MoveToDead
<1> QED
  BY <1>1, <1>2 DEF Positioned, InReady

\* An entry that crosses the boundary takes the bit of its new partition.
LEMMA PositionPromoted ==
  ASSUME IndInv, Positioned, NEW c \in Conns, NEW clear, "active" \notin clear,
         standby[c] > 0,
         active' = [active EXCEPT ![c] = @ + 1], standby' = [standby EXCEPT ![c] = @ - 1],
         lc' = [lc EXCEPT ![c] = CasLifecycle(@, {"active"}, clear)]
  PROVE  Positioned'
<1>1. IsReady(lc'[c])
  BY DEF IndInv, PoolInv, IsReady, CasLifecycle
<1>2. \A d \in Conns \ {c} : /\ lc'[d] = lc[d] /\ active'[d] = active[d]
                             /\ standby'[d] = standby[d]
  BY DEF IndInv, PoolInv
<1> QED
  BY <1>1, <1>2 DEF Positioned, InReady

\* enforceActiveCapWithLock marks what overflows as standby.
LEMMA PositionCapped ==
  ASSUME IndInv, Positioned, EnforceActiveCap \/ UNCHANGED <<lc, active, standby>>
  PROVE  Positioned'
<1>1. CASE UNCHANGED <<lc, active, standby>>
  BY <1>1, PositionKept
<1>2. CASE ~UNCHANGED <<lc, active, standby>>
  <2>1. PICK moved \in Overflows :
          /\ active' = [c \in Conns |-> active[c] - moved[c]]
          /\ standby' = [c \in Conns |-> standby[c] + moved[c]]
          /\ lc' = [c \in Conns |->
                      IF moved[c] = 0 THEN lc[c]
                      ELSE CasLifecycle(lc[c], {"standby", "needsWarmup"}, {"active"})]
    BY <1>2 DEF EnforceActiveCap
  <2> SUFFICES ASSUME NEW c \in Conns, InReady(c)' PROVE IsReady(lc'[c])
    BY DEF Positioned
  <2>2. CASE moved[c] = 0
    <3>1. InReady(c)
      BY <2>1, <2>2 DEF IndInv, PoolInv, InReady
    <3> QED
      BY <2>1, <2>2, <3>1 DEF Positioned
  <2>3. CASE moved[c] # 0
    BY <2>1, <2>3 DEF IsReady, CasLifecycle
  <2> QED
    BY <2>2, <2>3
<1> QED
  BY <1>1, <1>2

\* With every active connection in its position, nextFallback evicts nothing.
LEMMA NothingEvicted ==
  ASSUME IndInv, Positioned, NEW k \in Clients, NextFallback(k)
  PROVE  /\ Demoted = {}
         /\ dead' = dead
         /\ \/ /\ \E c \in Servable : Step(k, "sent", c)
               /\ UNCHANGED <<active, standby, lc>>
            \/ /\ Servable = {}
               /\ \/ \E c \in Conns :
                       /\ standby[c] > 0
                       /\ active' = [active EXCEPT ![c] = @ + 1]
                       /\ standby' = [standby EXCEPT ![c] = @ - 1]
                       /\ lc' = [lc EXCEPT ![c] =
                                   CasLifecycle(@, {"active"}, {"standby", "needsWarmup"})]
                       /\ IF c \in Managers THEN ServeZombie(k, dead)
                                            ELSE Step(k, "sent", c)
                  \/ /\ \A c \in Conns : standby[c] = 0
                     /\ UNCHANGED <<active, standby, lc>>
                     /\ ServeZombie(k, dead)
<1>1. Demoted = {}
  <2> SUFFICES ASSUME NEW c \in Demoted PROVE FALSE
    OBVIOUS
  <2>1. c \in Conns /\ active[c] > 0 /\ ~IsReady(lc[c])
    BY DEF Demoted
  <2>2. InReady(c)
    BY <2>1 DEF IndInv, PoolInv, InReady
  <2> QED
    BY <2>1, <2>2 DEF Positioned
<1> DEFINE act(E) == [c \in Conns |-> IF c \in E THEN 0 ELSE active[c]]
           stb(E) == [c \in Conns |-> IF c \in E THEN 0 ELSE standby[c]]
           bits(E) == [c \in Conns |-> IF c \in E THEN lc[c] \cup {"unknown"} ELSE lc[c]]
           gone(E) == [c \in Conns |-> IF c \in E THEN dead[c] + 1 ELSE dead[c]]
           Fallback(E) ==
             /\ dead' = gone(E)
             /\ \/ /\ \E c \in Servable : Step(k, "sent", c)
                   /\ active' = act(E) /\ standby' = stb(E) /\ lc' = bits(E)
                \/ /\ \/ Servable = {} /\ E = Demoted
                      \/ E # {} /\ ActiveManagers # {}
                   /\ \/ \E c \in Conns :
                           /\ stb(E)[c] > 0
                           /\ active' = [act(E) EXCEPT ![c] = @ + 1]
                           /\ standby' = [stb(E) EXCEPT ![c] = @ - 1]
                           /\ lc' = [bits(E) EXCEPT ![c] =
                                CasLifecycle(@, {"active"}, {"standby", "needsWarmup"})]
                           /\ IF c \in Managers THEN ServeZombie(k, dead')
                                                ELSE Step(k, "sent", c)
                      \/ /\ \A c \in Conns : stb(E)[c] = 0
                         /\ active' = act(E) /\ standby' = stb(E) /\ lc' = bits(E)
                         /\ ServeZombie(k, dead')
<1>2. PICK E \in SUBSET Demoted : Fallback(E)
  BY DEF NextFallback
<1>3. E = {}
  BY <1>1
<1>4. act(E) = active /\ stb(E) = standby /\ bits(E) = lc /\ gone(E) = dead
  BY <1>3 DEF IndInv, PoolInv
<1> HIDE DEF act, stb, bits, gone
<1> QED
  BY <1>1, <1>2, <1>3, <1>4, Zenon

\* The steps of a request keep the positions.
LEMMA ClientPosition ==
  ASSUME IndInv, Positioned, NEW k \in Clients, ClientStep(k)
  PROVE  Positioned'
<1>1. CASE NextConn(k) \/ LeavePool(k) \/ RequestFails(k) \/ ProactiveCheck(k)
  <2>1. UNCHANGED <<active, standby>>
    BY <1>1 DEF NextConn, LeavePool, RequestFails, ProactiveCheck, listVars
  <2>2. \/ UNCHANGED lc
        \/ \E c \in Conns : lc' = [lc EXCEPT ![c] = CompleteWarmup(@)]
    BY <1>1 DEF NextConn, LeavePool, RequestFails, ProactiveCheck, connVars, Servable
  <2>3. \A c \in Conns : IsReady(lc[c]) => IsReady(lc'[c])
    BY <2>2 DEF IndInv, PoolInv, IsReady, CompleteWarmup, CasLifecycle
  <2> QED
    BY <2>1, <2>3, PositionKept
<1>2. CASE OnFailureSchedule(k)
  <2>1. UNCHANGED <<active, standby>>
    BY <1>2 DEF OnFailureSchedule, listVars
  <2>2. \A c \in Conns : IsReady(lc[c]) => IsReady(lc'[c])
    BY <1>2 DEF IndInv, PoolInv, OnFailureSchedule, ScheduleResurrect, IsReady
  <2> QED
    BY <2>1, <2>2, PositionKept
<1>3. CASE OnSuccess(k)
  <2>1. req[k].conn \in Conns
    BY <1>3, ConnPick DEF IndInv, OnSuccess, ReqHolding
  <2>2. Resurrect(req[k].conn) \/ UNCHANGED <<lc, active, standby>>
    BY <1>3 DEF OnSuccess, listVars
  <2> QED
    BY <2>1, <2>2, PositionRevived, PositionKept
<1>4. CASE OnFailure(k)
  <2>1. req[k].conn \in Conns
    BY <1>4, ConnPick DEF IndInv, OnFailure, ReqHolding
  <2>2. CASE UNCHANGED <<lc, active, standby>>
    BY <2>2, PositionKept
  <2>3. CASE ~UNCHANGED <<lc, active, standby>>
    <3>1. MoveToDead(req[k].conn) /\ \A d \in Conns \ {req[k].conn} : lc'[d] = lc[d]
      BY <1>4, <2>1, <2>3 DEF IndInv, PoolInv, OnFailure, listVars
    <3> QED
      BY <2>1, <3>1, PositionDied
  <2> QED
    BY <2>2, <2>3
<1>5. CASE TriggerCapEnforcement(k)
  BY <1>5, PositionCapped DEF TriggerCapEnforcement
<1>6. CASE NextFallback(k)
  <2>1. CASE UNCHANGED <<lc, active, standby>>
    BY <2>1, PositionKept
  <2>2. CASE ~UNCHANGED <<lc, active, standby>>
    <3>1. PICK c \in Conns :
            /\ standby[c] > 0
            /\ active' = [active EXCEPT ![c] = @ + 1]
            /\ standby' = [standby EXCEPT ![c] = @ - 1]
            /\ lc' = [lc EXCEPT ![c] =
                        CasLifecycle(@, {"active"}, {"standby", "needsWarmup"})]
      BY <1>6, <2>2, NothingEvicted
    <3> QED
      BY <3>1, PositionPromoted
  <2> QED
    BY <2>1, <2>2
<1> QED
  BY <1>1, <1>2, <1>3, <1>4, <1>5, <1>6 DEF ClientStep

\* So do those of the resurrection goroutines ...
LEMMA ResurrectPosition ==
  ASSUME IndInv, Positioned, NEW c \in Conns, ResurrectStep(c)
  PROVE  Positioned'
<1>1. \/ Resurrect(c)
      \/ UNCHANGED <<lc, active, standby>>
      \/ /\ UNCHANGED <<active, standby>>
         /\ \/ lc' = [lc EXCEPT ![c] = CompleteWarmup(@)]
            \/ lc' = [lc EXCEPT ![c] = @ \ {"healthChecking"}]
  BY DEF ResurrectStep, ResurrectWake, ResurrectCancelled, ResurrectProbe, ResurrectRelock,
         ResurrectExit, HealthCheckPasses, connVars, listVars
<1>2. CASE Resurrect(c)
  BY <1>2, PositionRevived
<1>3. CASE ~Resurrect(c)
  <2>1. \A d \in Conns : IsReady(lc[d]) => IsReady(lc'[d])
    BY <1>1, <1>3 DEF IndInv, PoolInv, IsReady, CompleteWarmup, CasLifecycle
  <2> QED
    BY <1>1, <1>3, <2>1, PositionKept
<1> QED
  BY <1>2, <1>3

\* ... and those of the promotion goroutines.
LEMMA WorkerPosition ==
  ASSUME IndInv, Positioned, NEW w \in Workers, WorkerStep(w) \/ StartRotation(w)
  PROVE  Positioned'
<1>1. CASE StandbyRelock(w)
  <2> DEFINE c == wk[w].cand
             bits == [lc EXCEPT ![c] = @ \ {"healthChecking"}]
             failed == [bits EXCEPT ![c] = CasLifecycle(@, {"unknown", "needsWarmup"},
                                                        {"ready", "active", "standby"})]
             kept == [bits EXCEPT ![c] = @ \ {"needsWarmup"}]
  <2>1. c \in Conns
    BY <1>1, CandPick DEF IndInv, StandbyRelock, WkHolding
  <2>2. \/ UNCHANGED <<active, standby>> /\ (lc' = bits \/ lc' = kept)
        \/ /\ MoveToDead(c)
           /\ \E ctx : ScheduleResurrect(c, ctx, bits) \/ ScheduleResurrect(c, ctx, failed)
    BY <1>1 DEF StandbyRelock, listVars
  <2>3. \A d \in Conns : IsReady(lc[d]) => IsReady(bits[d]) /\ IsReady(kept[d])
    BY <2>1 DEF IndInv, PoolInv, IsReady
  <2>4. /\ \A d \in Conns \ {c} : bits[d] = lc[d] /\ failed[d] = lc[d]
        /\ DOMAIN bits = Conns /\ DOMAIN failed = Conns
    BY <2>1 DEF IndInv, PoolInv
  <2> HIDE DEF c, bits, failed, kept
  <2>5. CASE UNCHANGED <<active, standby>> /\ (lc' = bits \/ lc' = kept)
    BY <2>3, <2>5, PositionKept
  <2>6. CASE MoveToDead(c) /\ \E ctx : \/ ScheduleResurrect(c, ctx, bits)
                                       \/ ScheduleResurrect(c, ctx, failed)
    <3>1. \A d \in Conns \ {c} : lc'[d] = lc[d]
      BY <2>4, <2>6 DEF ScheduleResurrect
    <3> QED
      BY <2>1, <2>6, <3>1, PositionDied
  <2> QED
    BY <2>2, <2>5, <2>6
<1>2. CASE PromoteStandby(w)
  <2>1. wk[w].cand \in Conns
    BY <1>2, CandPick DEF IndInv, PromoteStandby, WkHolding
  <2>2. CASE UNCHANGED <<lc, active, standby>>
    BY <2>2, PositionKept
  <2>3. CASE ~UNCHANGED <<lc, active, standby>>
    <3>1. /\ standby[wk[w].cand] > 0
          /\ active' = [active EXCEPT ![wk[w].cand] = @ + 1]
          /\ standby' = [standby EXCEPT ![wk[w].cand] = @ - 1]
          /\ lc' = [lc EXCEPT ![wk[w].cand] = CasLifecycle(@, {"active"}, {"standby"})]
      BY <1>2, <2>3 DEF PromoteStandby
    <3> QED
      BY <2>1, <3>1, PositionPromoted
  <2> QED
    BY <2>2, <2>3
<1>3. CASE ~StandbyRelock(w) /\ ~PromoteStandby(w)
  <2>1. UNCHANGED <<active, standby>>
    BY <1>3 DEF WorkerStep, StartAsyncPromote, StartRotation, FindActiveCandidate, StandbyProbe,
                StandbyRetry, listVars
  <2>2. \/ UNCHANGED lc
        \/ \E c : lc' = [lc EXCEPT ![c] = @ \cup {"healthChecking", "needsWarmup"}]
        \/ \E c : lc' = [lc EXCEPT ![c] = CompleteWarmup(@)]
    BY <1>3 DEF WorkerStep, StartAsyncPromote, StartRotation, FindActiveCandidate, StandbyProbe,
                StandbyRetry, HealthCheckPasses, connVars
  <2>3. \A d \in Conns : IsReady(lc[d]) => IsReady(lc'[d])
    BY <2>2 DEF IndInv, PoolInv, IsReady, CompleteWarmup, CasLifecycle
  <2> QED
    BY <2>1, <2>3, PositionKept
<1> QED
  BY <1>1, <1>2, <1>3

\* Without the poller every step keeps the positions.
LEMMA PositionStep ==
  ASSUME IndInv, ~StatsPolling, PositionInv, [Next]_vars
  PROVE  PositionInv'
<1>1. poll' = {}
  BY DEF PositionInv, Next, ClientStep, NextConn, TriggerCapEnforcement, NextFallback,
         LeavePool, OnSuccess, RequestFails, OnFailure, OnFailureSchedule, ProactiveCheck,
         ResurrectStep, ResurrectWake, ResurrectCancelled, ResurrectProbe, ResurrectRelock,
         ResurrectExit, WorkerStep, StartAsyncPromote, StartRotation, FindActiveCandidate,
         StandbyProbe, StandbyRelock, StandbyRetry, PromoteStandby, PollStep,
         PollNoVerdict, PollUnreachable, PollLoses, PollOverloaded, PollHealthy, Asks,
         ViabilityCheck, PollSnapshot,
         ViabilityClear, vars, taskVars
<1>2. Positioned'
  <2>1. ASSUME NEW c \in Conns, PollStep(c) PROVE FALSE
    BY <2>1 DEF PositionInv, PollStep, PollNoVerdict, PollUnreachable, PollLoses,
                PollOverloaded, PollHealthy, Asks
  <2>2. ASSUME NEW c \in Conns, ViabilityCheck(c) PROVE Positioned'
    BY <2>2, PositionKept DEF PositionInv, ViabilityCheck, connVars, listVars
  <2>3. CASE ViabilityClear
    <3>1. UNCHANGED <<active, standby>> /\ lc' = [lc EXCEPT ![expiring] = @ \ {"viable"}]
      BY <2>3 DEF ViabilityClear, listVars
    <3>2. \A d \in Conns : IsReady(lc[d]) => IsReady(lc'[d])
      BY <3>1 DEF IndInv, PoolInv, IsReady
    <3> QED
      BY <3>1, <3>2, PositionKept DEF PositionInv
  <2>4. ~PollSnapshot
    BY DEF PollSnapshot
  <2>5. CASE UNCHANGED vars
    BY <2>5, PositionKept DEF PositionInv, vars, connVars, listVars
  <2> QED
    BY <2>1, <2>2, <2>3, <2>4, <2>5, ClientPosition, ResurrectPosition, WorkerPosition
       DEF PositionInv, Next
<1> QED
  BY <1>1, <1>2 DEF PositionInv

\* A new pool has every connection of its ready list in its position.
LEMMA PositionInit == Init => PositionInv
<1> SUFFICES ASSUME Init PROVE PositionInv
  OBVIOUS
<1>1. PICK first \in SUBSET Seeds :
        /\ active = [c \in Conns |-> IF c \in first THEN 1 ELSE 0]
        /\ standby = [c \in Conns |-> IF c \in Seeds \ first THEN 1 ELSE 0]
        /\ lc = [c \in Conns |->
                   IF c \in first THEN {"viable", "active"}
                   ELSE IF c \in Seeds THEN {"viable", "standby", "needsWarmup"}
                   ELSE {"unknown", "needsWarmup", "healthChecking"}]
  BY DEF Init
<1>2. poll = {}
  BY DEF Init
<1>3. \A c \in Conns : c \notin Seeds => ~InReady(c)
  BY <1>1 DEF InReady
<1>4. \A c \in Seeds : c \in Conns => IsReady(lc[c])
  BY <1>1 DEF IsReady
<1> QED
  BY <1>2, <1>3, <1>4 DEF PositionInv, Positioned

\* Only nextFallback gives up, and only when its zombie turn found nothing.
LEMMA ExhaustedStep ==
  ASSUME IndInv, PositionInv, [Next]_vars, NEW k \in Clients,
         req[k].pc # "exhausted", req'[k].pc = "exhausted"
  PROVE  /\ \A c \in Conns \ Managers : active'[c] = 0
         /\ \/ \A c \in Conns : dead'[c] > 0 /\ ~AvailableForRouting(c)
            \/ \E m \in Managers : active'[m] > 0 \/ AvailableForRouting(m)
<1>0. req \in [Clients -> [pc : ReqStates, conn : Conns \cup {NoConn}, hasStandby : BOOLEAN]]
  BY DEF IndInv, ReqInv
<1>1. ASSUME NEW j \in Clients, NEW pc, NEW c, Step(j, pc, c) PROVE j = k /\ pc = "exhausted"
  <2>1. \A i \in Clients \ {j} : req'[i] = req[i]
    BY <1>0, <1>1 DEF Step
  <2>2. req'[j] = Request(pc, c, FALSE)
    BY <1>0, <1>1 DEF Step
  <2> QED
    BY <2>1, <2>2 DEF Request
<1>2. req' # req
  OBVIOUS
<1>3. PICK j \in Clients : ClientStep(j)
  BY <1>2 DEF Next, ResurrectStep, ResurrectWake, ResurrectCancelled, ResurrectProbe,
         ResurrectRelock, ResurrectExit, WorkerStep, StartAsyncPromote, StartRotation,
         FindActiveCandidate, StandbyProbe, StandbyRelock, StandbyRetry, PromoteStandby,
         PollStep, PollNoVerdict, PollUnreachable, PollLoses, PollOverloaded, PollHealthy,
         ViabilityCheck,
         PollSnapshot, ViabilityClear, vars
<1>4. ~OnFailure(j)
  <2> SUFFICES ASSUME OnFailure(j) PROVE FALSE
    OBVIOUS
  <2>1. \/ Step(j, "idle", NoConn)
        \/ \E c, h : req' = [req EXCEPT ![j] = Request("schedule", c, h)]
    BY DEF OnFailure
  <2>2. ASSUME NEW c, NEW h, req' = [req EXCEPT ![j] = Request("schedule", c, h)] PROVE FALSE
    <3>1. req'[j] = Request("schedule", c, h) /\ \A i \in Clients \ {j} : req'[i] = req[i]
      BY <1>0, <2>2
    <3> QED
      BY <3>1 DEF Request
  <2> QED
    BY <1>1, <2>1, <2>2
<1>5. NextFallback(j)
  <2>1. ~NextConn(j)
    BY <1>1 DEF NextConn
  <2>2. ~(TriggerCapEnforcement(j) \/ LeavePool(j) \/ RequestFails(j) \/ OnFailureSchedule(j))
    BY <1>1 DEF TriggerCapEnforcement, LeavePool, RequestFails, OnFailureSchedule
  <2>3. ~(OnSuccess(j) \/ ProactiveCheck(j))
    BY <1>1 DEF OnSuccess, ProactiveCheck
  <2> QED
    BY <1>3, <1>4, <2>1, <2>2, <2>3 DEF ClientStep
<1>6. /\ Demoted = {} /\ Servable = {} /\ dead' = dead
      /\ ServeZombie(j, dead)
      /\ \/ \E c \in Managers : /\ active' = [active EXCEPT ![c] = @ + 1]
         \/ active' = active /\ \A c \in Conns : standby[c] = 0
  BY <1>1, <1>5, NothingEvicted DEF PositionInv
<1>7. \A c \in Conns \ Managers : active[c] = 0
  BY <1>6 DEF IndInv, PoolInv, Demoted, Servable
<1>8. \A c \in Conns \ Managers : active'[c] = 0
  BY <1>6, <1>7 DEF IndInv, PoolInv
<1> DEFINE zombies == {c \in Conns : dead[c] > 0 /\ AvailableForRouting(c)}
<1>9. zombies = {} \/ zombies \cap Managers # {}
  <2>1. \/ \E c \in zombies \ Managers : Step(j, "sent", c)
        \/ zombies = {} \/ zombies \cap Managers # {}
    BY <1>6 DEF ServeZombie
  <2> HIDE DEF zombies
  <2> QED
    BY <1>1, <2>1
<1>10. CASE \E m \in Managers : active'[m] > 0 \/ AvailableForRouting(m)
  BY <1>8, <1>10
<1>11. CASE ~\E m \in Managers : active'[m] > 0 \/ AvailableForRouting(m)
  <2>1. active' = active /\ \A c \in Conns : standby[c] = 0
    BY <1>6, <1>11, ConnsAssumption DEF IndInv, PoolInv
  <2>2. \A c \in Conns : active[c] = 0
    BY <1>7, <1>11, <2>1 DEF IndInv, PoolInv
  <2>3. \A c \in Conns : dead[c] > 0
    BY <2>1, <2>2 DEF IndInv, PoolInv, ListedOnce, InDeadList, InReadyList, InReady
  <2>4. zombies = {}
    BY <1>9, <1>11
  <2> QED
    BY <1>6, <1>8, <2>3, <2>4
<1> QED
  BY <1>10, <1>11

\* Unless the stats poller takes positions away behind the pool's back, Next
\* returns ErrNoConnections only when no data node is active and when every
\* connection is dead and may not be dialled, or a cluster manager took the turn.
THEOREM ExhaustionTrue ==
  ASSUME ~StatsPolling
  PROVE  Spec => ExhaustionIsReal
<1>1. IndInv /\ PositionInv /\ [Next]_vars
        => [\A k \in Clients :
              (req[k].pc # "exhausted" /\ req'[k].pc = "exhausted") =>
                /\ \A c \in Conns \ Managers : active'[c] = 0
                /\ \/ \A c \in Conns : dead'[c] > 0 /\ ~AvailableForRouting(c)
                   \/ \E m \in Managers : active'[m] > 0 \/ AvailableForRouting(m)]_vars
  BY ExhaustedStep
<1>2. IndInv /\ PositionInv /\ [Next]_vars => PositionInv'
  BY PositionStep
<1> QED
  BY <1>1, <1>2, PositionInit, Invariance, PTL DEF Spec, ExhaustionIsReal

=============================================================================
