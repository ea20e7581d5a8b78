----------------------------- MODULE Congestion -----------------------------
(***************************************************************************)
(* Congestion state of one thread pool of one Connection: its entry in the *)
(* pool registry (poolRegistry, poolCongestion) and its three writers, the *)
(* stats poller (additive increase, multiplicative decrease), the health   *)
(* check that learns the size of the thread pool, and a request that was   *)
(* answered 429.  Thread-pool statistics are reduced to what AIMD reads of *)
(* them: whether tasks were rejected, completed, or waited too long.       *)
(***************************************************************************)
EXTENDS Integers, FiniteSetsExt

CONSTANTS
  DefaultCeiling,   \* defaultSyntheticCwndMultiplier * defaultServerCoreCount
  Sizes             \* configured sizes of the thread pool

ASSUME CeilingAssumption == DefaultCeiling \in Nat \ {0}
ASSUME SizesAssumption == Sizes \subseteq Nat \ {0}

VARIABLES
  pool,        \* the entry of the registry
  inFlight,    \* in-flight counters: of the entry and of the default pool
  poller,      \* updatePoolCongestion
  sizer        \* setMaxCwnd

congestionVars == <<pool, inFlight, poller, sizer>>

\* What sync.Map.LoadOrStore publishes: a zero poolCongestion.
Fresh == [exists |-> TRUE, cwnd |-> 0, ssthresh |-> 0, maxCwnd |-> 0,
          overloaded |-> FALSE]
NoPool == [Fresh EXCEPT !.exists = FALSE]

Signals == {"rejected", "none", "congested", "clear"}

-----------------------------------------------------------------------------
\* getForScoring: the named pool, or the default pool when there is none.
GetForScoring == IF pool.exists THEN "named" ELSE "default"

MaxCwndOrDefault(m) == IF m > 0 THEN m ELSE DefaultCeiling

Halve(p, cwnd) ==
  LET new == Max({cwnd \div 2, 1}) IN [p EXCEPT !.cwnd = new, !.ssthresh = new]

\* applyPoolAIMD
ApplyPoolAIMD(p, signal) ==
  LET cwnd == Max({p.cwnd, 1})
      ceiling == MaxCwndOrDefault(p.maxCwnd)
      ssthresh == IF p.ssthresh < 1 THEN ceiling ELSE p.ssthresh
      grown == IF cwnd < ssthresh THEN cwnd * 2 ELSE cwnd + 1
      q == [p EXCEPT !.overloaded = signal = "rejected"]
  IN  CASE signal \in {"rejected", "congested"} -> Halve(q, cwnd)
        [] signal = "none" -> q
        [] signal = "clear" -> [q EXCEPT !.cwnd = Min({grown, ceiling})]

\* The critical section of setMaxCwnd.
SetCeilingM(p, size) == [p EXCEPT !.maxCwnd = size, !.ssthresh = size]
SetCeiling(p, size) ==
  [p EXCEPT !.maxCwnd = size, !.ssthresh = size, !.cwnd = Min({p.cwnd, size})]

\* The first half of getOrCreate: the new entry is visible before its window
\* is set to 1.  The result is where the writer goes on.
LoadOrStore ==
  /\ pool' = IF pool.exists THEN pool ELSE Fresh
  /\ UNCHANGED inFlight
Created == IF pool.exists THEN "update" ELSE "store"

-----------------------------------------------------------------------------
\* A poll whose answer reports the pool.
PollReports ==
  /\ poller = "idle"
  /\ LoadOrStore
  /\ poller' = Created
  /\ UNCHANGED sizer

PollStores ==
  /\ poller = "store"
  /\ pool' = [pool EXCEPT !.cwnd = 1]
  /\ poller' = "update"
  /\ UNCHANGED <<inFlight, sizer>>

PollUpdates(signal) ==
  /\ poller = "update"
  /\ pool' = ApplyPoolAIMD(pool, signal)
  /\ poller' = "idle"
  /\ UNCHANGED <<inFlight, sizer>>

\* A poll whose answer does not report the pool removes it, and its counter
\* with it; a setMaxCwnd that holds the entry goes on with an object nobody
\* reads.
PollRemoves ==
  /\ poller = "idle" /\ pool.exists
  /\ pool' = NoPool
  /\ inFlight' = [inFlight EXCEPT !["named"] = 0]
  /\ sizer' = [sizer EXCEPT !.orphan = sizer.pc # "idle"]
  /\ UNCHANGED poller

-----------------------------------------------------------------------------
NoSizer == [pc |-> "idle", size |-> 0, orphan |-> FALSE]

SizerBegins(size) ==
  /\ sizer.pc = "idle"
  /\ LoadOrStore
  /\ sizer' = [pc |-> Created, size |-> size, orphan |-> FALSE]
  /\ UNCHANGED poller

SizerStores ==
  /\ sizer.pc = "store"
  /\ pool' = IF sizer.orphan THEN pool ELSE [pool EXCEPT !.cwnd = 1]
  /\ sizer' = [sizer EXCEPT !.pc = "update"]
  /\ UNCHANGED <<inFlight, poller>>

SizerUpdates ==
  /\ sizer.pc = "update"
  /\ pool' = IF sizer.orphan THEN pool ELSE SetCeiling(pool, sizer.size)
  /\ sizer' = NoSizer
  /\ UNCHANGED <<inFlight, poller>>

-----------------------------------------------------------------------------
\* What a request does: count itself, and on a 429 mark the pool overloaded
\* and halve its window.  The 429 handler gives up when a writer has the lock.
AddInFlight == inFlight' = [inFlight EXCEPT ![GetForScoring] = @ + 1]
ReleaseInFlight == inFlight' = [inFlight EXCEPT ![GetForScoring] = @ - 1]

LockTaken == poller = "update" \/ (sizer.pc = "update" /\ ~sizer.orphan)
TooManyRequests ==
  \/ /\ pool.exists /\ ~pool.overloaded
     /\ pool' = Halve([pool EXCEPT !.overloaded = TRUE], pool.cwnd)
  \/ /\ pool.exists => pool.overloaded \/ LockTaken
     /\ UNCHANGED pool

CongestionInit ==
  /\ pool = NoPool /\ inFlight = [named |-> 0, default |-> 0]
  /\ poller = "idle" /\ sizer = NoSizer

-----------------------------------------------------------------------------
CongestionTypeOK ==
  /\ pool \in [exists : BOOLEAN, cwnd : Nat, ssthresh : Nat, maxCwnd : Nat,
               overloaded : BOOLEAN]
  /\ inFlight \in [{"named", "default"} -> Int]
  /\ poller \in {"idle", "store", "update"}
  /\ sizer \in [pc : {"idle", "store", "update"}, size : Sizes \cup {0},
                orphan : BOOLEAN]

\* The congestion window stays between 1 and the ceiling in force, whatever the
\* order in which the pool is created, polled and sized; 0 is seen only until
\* the creator has stored 1.  The slow-start threshold obeys the same ceiling.
CwndBounds ==
  pool.exists =>
    /\ pool.cwnd <= MaxCwndOrDefault(pool.maxCwnd)
    /\ pool.ssthresh <= MaxCwndOrDefault(pool.maxCwnd)
    /\ pool.cwnd >= 1 \/ "store" \in {poller, sizer.pc}
=============================================================================
