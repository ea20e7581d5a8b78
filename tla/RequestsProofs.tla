--------------------------- MODULE RequestsProofs ---------------------------
(***************************************************************************)
(* Proofs about Requests for any number of requests, users, retries and    *)
(* thread-pool sizes: the invariants of the single flight, of the          *)
(* congestion state and of the retry loop, one section each, and the       *)
(* theorems they give for the composed specification.                      *)
(***************************************************************************)
EXTENDS Requests, FiniteSetTheorems, TLAPS

-----------------------------------------------------------------------------
(* Single flight *)

Waiters == {"parked", "woken"}

\* What a waiter relies on: its AfterFunc is registered until its context ends,
\* and lastErr is one of the results it was told when no discovery runs.
Waiting ==
  /\ lastErr \in {"none", "nil", "failed", "cancelled"}
  /\ \A k \in Callers :
       /\ call[k].pc \in Waiters =>
            /\ call[k].cancelled \/ call[k].armed
            /\ inProgress \/ lastErr \in call[k].ended
       /\ call[k].pc \in {"idle", "running"} => call[k].ended = {}

FlightInv == FlightTypeOK /\ FlightSafe /\ Waiting /\ ResultIsOwn

CallType == [pc : Pcs, cancelled : BOOLEAN, armed : BOOLEAN,
             result : Errors, ended : SUBSET Errors]

\* No discovery runs at first.
LEMMA FlightInitInv == FlightInit => FlightInv
<1> SUFFICES ASSUME FlightInit PROVE FlightInv
  OBVIOUS
<1>1. \A k \in Callers : call[k] = Idle
  BY DEF FlightInit
<1>2. FlightTypeOK
  <2>1. Idle \in CallType
    BY DEF Idle, CallType, Pcs, Errors
  <2>2. cancels \in 0 .. MaxCancels
    BY CancelsAssumption DEF FlightInit
  <2>3. inProgress \in BOOLEAN /\ lastErr \in Errors
    BY DEF FlightInit, Errors
  <2> QED
    BY <2>1, <2>2, <2>3 DEF FlightInit, FlightTypeOK, CallType
<1>3. FlightSafe
  BY <1>1 DEF FlightInit, FlightSafe, Running, Idle
<1>4. Waiting /\ ResultIsOwn
  BY <1>1 DEF FlightInit, Waiting, Waiters, ResultIsOwn, Idle
<1> QED
  BY <1>2, <1>3, <1>4 DEF FlightInv

\* A discovery is started only when none is in progress.
LEMMA StartInv ==
  ASSUME FlightInv, NEW k \in Callers, call[k].pc = "idle", ~inProgress,
         Start(k), UNCHANGED <<lastErr, cancels>>
  PROVE  FlightInv'
<1>1. FlightTypeOK'
  BY DEF FlightInv, FlightTypeOK, Start, Pcs
<1>2. /\ inProgress' = TRUE
      /\ call'[k] = [call[k] EXCEPT !.pc = "running"]
      /\ \A j \in Callers : j # k => call'[j] = call[j]
  BY DEF FlightInv, FlightTypeOK, Start
<1>3. call[k] \in CallType
  BY DEF FlightInv, FlightTypeOK, CallType
<1>4. call'[k].pc = "running" /\ call'[k].ended = call[k].ended
  BY <1>2, <1>3 DEF CallType
<1>5. FlightSafe'
  BY <1>2, <1>4 DEF FlightInv, FlightSafe, Running
<1>6. Waiting' /\ ResultIsOwn'
  BY <1>2, <1>4 DEF FlightInv, Waiting, Waiters, ResultIsOwn
<1> QED
  BY <1>1, <1>5, <1>6 DEF FlightInv

\* A user that finds a discovery in progress waits with its AfterFunc set.
LEMMA ParkInv ==
  ASSUME FlightInv, NEW k \in Callers, call[k].pc = "idle", inProgress,
         call' = [call EXCEPT ![k].pc = "parked", ![k].armed = TRUE],
         UNCHANGED <<inProgress, lastErr, cancels>>
  PROVE  FlightInv'
<1>1. FlightTypeOK'
  BY DEF FlightInv, FlightTypeOK, Pcs
<1>2. /\ call'[k].pc = "parked" /\ call'[k].armed
      /\ \A j \in Callers : j # k => call'[j] = call[j]
  BY DEF FlightInv, FlightTypeOK
<1>3. FlightSafe'
  BY <1>2 DEF FlightInv, FlightSafe, Running
<1>4. Waiting' /\ ResultIsOwn'
  BY <1>2 DEF FlightInv, Waiting, Waiters, ResultIsOwn
<1> QED
  BY <1>1, <1>3, <1>4 DEF FlightInv

\* The context of a caller ends; the AfterFunc that will wake it stays armed.
LEMMA CancelInv ==
  ASSUME FlightInv, NEW k \in Callers, Cancel(k)
  PROVE  FlightInv'
<1>1. FlightTypeOK'
  <2>1. call' \in [Callers -> CallType]
    BY DEF FlightInv, FlightTypeOK, CallType, Cancel
  <2>2. cancels' \in 0 .. MaxCancels
    BY CancelsAssumption DEF FlightInv, FlightTypeOK, Cancel
  <2> QED
    BY <2>1, <2>2 DEF FlightInv, FlightTypeOK, CallType, Cancel
<1>2. /\ call'[k].cancelled /\ call'[k].pc = call[k].pc
      /\ call'[k].armed = call[k].armed /\ call'[k].ended = call[k].ended
      /\ call'[k].result = call[k].result
      /\ \A j \in Callers : j # k => call'[j] = call[j]
  BY DEF FlightInv, FlightTypeOK, Cancel
<1>3. UNCHANGED <<inProgress, lastErr>> /\ ~call[k].cancelled
  BY DEF Cancel
<1>4. FlightSafe'
  BY <1>2, <1>3 DEF FlightInv, FlightSafe, Running, Waiting, Waiters
<1>5. Waiting' /\ ResultIsOwn'
  BY <1>2, <1>3 DEF FlightInv, Waiting, Waiters, ResultIsOwn
<1> QED
  BY <1>1, <1>4, <1>5 DEF FlightInv

\* A broadcast leaves nobody parked and changes nothing else.
LEMMA BroadcastEffect ==
  ASSUME NEW cs \in [Callers -> CallType]
  PROVE  /\ Broadcast(cs) \in [Callers -> CallType]
         /\ \A k \in Callers :
              /\ Broadcast(cs)[k].pc =
                   IF cs[k].pc = "parked" THEN "woken" ELSE cs[k].pc
              /\ Broadcast(cs)[k].cancelled = cs[k].cancelled
              /\ Broadcast(cs)[k].armed = cs[k].armed
              /\ Broadcast(cs)[k].result = cs[k].result
              /\ Broadcast(cs)[k].ended = cs[k].ended
  BY DEF Broadcast, CallType, Pcs

\* The AfterFunc of an ended context wakes the waiters.
LEMMA AfterFuncInv ==
  ASSUME FlightInv, NEW k \in Callers, AfterFunc(k)
  PROVE  FlightInv'
<1> DEFINE cs == [call EXCEPT ![k].armed = FALSE]
<1>1. /\ cs \in [Callers -> CallType]
      /\ \A j \in Callers :
           /\ cs[j].pc = call[j].pc /\ cs[j].cancelled = call[j].cancelled
           /\ cs[j].result = call[j].result /\ cs[j].ended = call[j].ended
           /\ j # k => cs[j].armed = call[j].armed
  BY DEF FlightInv, FlightTypeOK, CallType
<1>2. call' = Broadcast(cs) /\ call[k].cancelled /\ UNCHANGED <<inProgress, lastErr, cancels>>
  BY DEF AfterFunc
<1> HIDE DEF cs
<1>3. /\ call' \in [Callers -> CallType]
      /\ \A j \in Callers :
           /\ call'[j].pc = IF call[j].pc = "parked" THEN "woken" ELSE call[j].pc
           /\ call'[j].cancelled = call[j].cancelled
           /\ j # k => call'[j].armed = call[j].armed
           /\ call'[j].result = call[j].result /\ call'[j].ended = call[j].ended
  BY <1>1, <1>2, BroadcastEffect
<1>4. FlightTypeOK'
  BY <1>2, <1>3 DEF FlightInv, FlightTypeOK, CallType
<1>5. FlightSafe'
  BY <1>2, <1>3 DEF FlightInv, FlightSafe, Running
<1>6. Waiting'
  BY <1>2, <1>3 DEF FlightInv, Waiting, Waiters
<1>7. ResultIsOwn'
  BY <1>3 DEF FlightInv, ResultIsOwn
<1> QED
  BY <1>4, <1>5, <1>6, <1>7 DEF FlightInv

\* The return of a waiter: the result is its own if the hypothesis holds.
LEMMA ReturnInv ==
  ASSUME FlightInv, NEW k \in Callers, NEW r \in Errors, call[k].pc = "woken",
         Return(k, r), UNCHANGED <<inProgress, lastErr, cancels>>,
         \/ r = "ctx" /\ call[k].cancelled
         \/ r = "interrupted" /\ "cancelled" \in call[k].ended
         \/ r \in {"none", "nil", "failed"} /\ r \in call[k].ended
  PROVE  FlightInv'
<1>1. FlightTypeOK'
  <2>1. call[k] \in CallType
    BY DEF FlightInv, FlightTypeOK, CallType
  <2>2. [call[k] EXCEPT !.pc = "returned", !.result = r, !.armed = FALSE] \in CallType
    BY <2>1 DEF CallType, Pcs
  <2> QED
    BY <2>2 DEF FlightInv, FlightTypeOK, Return, CallType
<1>2. /\ call'[k].pc = "returned" /\ call'[k].result = r
      /\ call'[k].cancelled = call[k].cancelled /\ call'[k].ended = call[k].ended
      /\ \A j \in Callers : j # k => call'[j] = call[j]
  BY DEF FlightInv, FlightTypeOK, Return
<1>3. FlightSafe'
  BY <1>2 DEF FlightInv, FlightSafe, Running
<1>4. Waiting'
  BY <1>2 DEF FlightInv, Waiting, Waiters
<1>5. ResultIsOwn'
  BY <1>2 DEF FlightInv, ResultIsOwn
<1> QED
  BY <1>1, <1>3, <1>4, <1>5 DEF FlightInv

\* A woken waiter returns, or waits again while a discovery runs.
LEMMA WakeInv ==
  ASSUME FlightInv, NEW k \in Callers, Wake(k)
  PROVE  FlightInv'
<1>1. CASE call[k].cancelled /\ Return(k, "ctx")
  BY <1>1, ReturnInv DEF Wake, Errors
<1>2. CASE ~call[k].cancelled /\ inProgress /\ call' = [call EXCEPT ![k].pc = "parked"]
  <2>1. FlightTypeOK'
    BY <1>2 DEF FlightInv, FlightTypeOK, Wake, Pcs
  <2>2. /\ call'[k].pc = "parked" /\ call'[k].armed = call[k].armed
        /\ call'[k].ended = call[k].ended /\ call'[k].cancelled = call[k].cancelled
        /\ \A j \in Callers : j # k => call'[j] = call[j]
    BY <1>2 DEF FlightInv, FlightTypeOK
  <2>3. UNCHANGED <<inProgress, lastErr>> /\ call[k].pc = "woken"
    BY DEF Wake
  <2>4. FlightSafe'
    BY <1>2, <2>2, <2>3 DEF FlightInv, FlightSafe, Running
  <2>5. Waiting' /\ ResultIsOwn'
    BY <1>2, <2>2, <2>3 DEF FlightInv, Waiting, Waiters, ResultIsOwn
  <2> QED
    BY <2>1, <2>4, <2>5 DEF FlightInv
<1>3. CASE ~call[k].cancelled /\ ~inProgress /\ Return(k, WaiterResult(lastErr))
  <2>1. call[k].pc = "woken" /\ UNCHANGED <<inProgress, lastErr, cancels>>
    BY DEF Wake
  <2>2. lastErr \in {"none", "nil", "failed", "cancelled"} /\ lastErr \in call[k].ended
    BY <1>3, <2>1 DEF FlightInv, Waiting, Waiters
  <2>3. WaiterResult(lastErr) \in Errors
    BY <2>2 DEF WaiterResult, Errors
  <2>4. \/ WaiterResult(lastErr) = "interrupted" /\ "cancelled" \in call[k].ended
        \/ /\ WaiterResult(lastErr) \in {"none", "nil", "failed"}
           /\ WaiterResult(lastErr) \in call[k].ended
    BY <2>2 DEF WaiterResult
  <2> QED
    BY <1>3, <2>1, <2>3, <2>4, ReturnInv
<1> QED
  BY <1>1, <1>2, <1>3 DEF Wake

\* The end of a discovery: every waiter is told and woken.
LEMMA FinishInv ==
  ASSUME FlightInv, NEW k \in Callers, Finish(k)
  PROVE  FlightInv'
<1>1. PICK result \in Results(k) :
        lastErr' = result /\ call' = Finished(k, result, Broadcast(Told(result)))
  BY DEF Finish
<1>2. /\ result \in {"nil", "failed", "cancelled"}
      /\ result = "cancelled" => call[k].cancelled
  BY DEF Results
<1>3. /\ call[k].pc = "running" /\ inProgress' = FALSE /\ cancels' = cancels
      /\ call \in [Callers -> CallType]
  BY DEF Finish, FlightInv, FlightTypeOK, CallType
<1>4. /\ Told(result) \in [Callers -> CallType]
      /\ \A j \in Callers :
           /\ Told(result)[j].pc = call[j].pc
           /\ Told(result)[j].cancelled = call[j].cancelled
           /\ Told(result)[j].armed = call[j].armed
           /\ Told(result)[j].result = call[j].result
           /\ Told(result)[j].ended = IF call[j].pc \in Waiters
                                      THEN call[j].ended \cup {result}
                                      ELSE call[j].ended
  BY <1>2, <1>3 DEF Told, CallType, Waiters, Errors
<1> DEFINE ts == Told(result)
           cs == Broadcast(ts)
<1>5. /\ cs \in [Callers -> CallType]
      /\ \A j \in Callers :
           /\ cs[j].pc = IF call[j].pc = "parked" THEN "woken" ELSE call[j].pc
           /\ cs[j].cancelled = call[j].cancelled
           /\ cs[j].armed = call[j].armed
           /\ cs[j].result = call[j].result
           /\ cs[j].ended = IF call[j].pc \in Waiters
                            THEN call[j].ended \cup {result} ELSE call[j].ended
  <2> HIDE DEF ts
  <2>1. ts \in [Callers -> CallType]
    BY <1>4 DEF ts
  <2>2. \A j \in Callers :
           /\ ts[j].pc = call[j].pc /\ ts[j].cancelled = call[j].cancelled
           /\ ts[j].armed = call[j].armed /\ ts[j].result = call[j].result
           /\ ts[j].ended = IF call[j].pc \in Waiters
                            THEN call[j].ended \cup {result} ELSE call[j].ended
    BY <1>4 DEF ts
  <2>3. /\ cs \in [Callers -> CallType]
        /\ \A j \in Callers :
             /\ cs[j].pc = IF ts[j].pc = "parked" THEN "woken" ELSE ts[j].pc
             /\ cs[j].cancelled = ts[j].cancelled /\ cs[j].armed = ts[j].armed
             /\ cs[j].result = ts[j].result /\ cs[j].ended = ts[j].ended
    BY <2>1, BroadcastEffect
  <2> HIDE DEF cs
  <2>4. ASSUME NEW j \in Callers
        PROVE  /\ cs[j].pc = IF call[j].pc = "parked" THEN "woken" ELSE call[j].pc
               /\ cs[j].cancelled = call[j].cancelled /\ cs[j].armed = call[j].armed
               /\ cs[j].result = call[j].result
               /\ cs[j].ended = IF call[j].pc \in Waiters
                                THEN call[j].ended \cup {result} ELSE call[j].ended
    BY <2>2, <2>3, Zenon
  <2> QED
    BY <2>3, <2>4, Zenon
<1> HIDE DEF cs
<1>6. call' = Finished(k, result, cs)
  BY <1>1 DEF cs
<1> DEFINE c == IF k = Loop THEN [Idle EXCEPT !.cancelled = call[k].cancelled]
                ELSE [cs[k] EXCEPT !.pc = "returned",
                        !.result = IF result = "cancelled" THEN "ctx" ELSE result]
<1>61. call' = [cs EXCEPT ![k] = c]
  BY <1>6 DEF Finished
<1>62. /\ c \in CallType
       /\ \/ k = Loop /\ c.pc = "idle" /\ c.ended = {}
          \/ /\ c.pc = "returned" /\ c.ended = call[k].ended
             /\ c.cancelled = call[k].cancelled
             /\ c.result = IF result = "cancelled" THEN "ctx" ELSE result
  <2>1. call[k].cancelled \in BOOLEAN /\ cs[k] \in CallType
    BY <1>3, <1>5 DEF CallType
  <2>2. cs[k].ended = call[k].ended /\ cs[k].cancelled = call[k].cancelled
    BY <1>3, <1>5 DEF Waiters
  <2>3. CASE k = Loop
    BY <2>1, <2>3 DEF Idle, CallType, Pcs, Errors
  <2>4. CASE k # Loop
    <3>1. (IF result = "cancelled" THEN "ctx" ELSE result) \in Errors
      BY <1>2 DEF Errors
    <3> QED
      BY <2>1, <2>2, <2>4, <3>1 DEF CallType, Pcs
  <2> QED
    BY <2>3, <2>4
<1> HIDE DEF c
<1>7. /\ call' \in [Callers -> CallType]
      /\ \A j \in Callers : j # k => call'[j] = cs[j]
      /\ \/ k = Loop /\ call'[k].pc = "idle" /\ call'[k].ended = {}
         \/ /\ call'[k].pc = "returned" /\ call'[k].ended = call[k].ended
            /\ call'[k].cancelled = call[k].cancelled
            /\ call'[k].result = IF result = "cancelled" THEN "ctx" ELSE result
  BY <1>5, <1>61, <1>62
<1>71. \A j \in Callers : j # k =>
        /\ call'[j].pc = IF call[j].pc = "parked" THEN "woken" ELSE call[j].pc
        /\ call'[j].cancelled = call[j].cancelled
        /\ call'[j].armed = call[j].armed
        /\ call'[j].result = call[j].result
        /\ call'[j].ended = IF call[j].pc \in Waiters
                            THEN call[j].ended \cup {result} ELSE call[j].ended
  BY <1>5, <1>7
<1>8. FlightTypeOK'
  <2>1. lastErr' \in Errors /\ inProgress' \in BOOLEAN
    BY <1>1, <1>2, <1>3 DEF Errors
  <2> QED
    BY <2>1, <1>3, <1>7 DEF FlightInv, FlightTypeOK, CallType
<1>9. FlightSafe'
  <2>1. \A j \in Callers : call'[j].pc \notin {"running", "parked"}
    <3>1. call'[k].pc \notin {"running", "parked"}
      BY <1>7
    <3>2. \A j \in Callers : j # k => call[j].pc # "running"
      BY <1>3 DEF FlightInv, FlightSafe, Running
    <3> QED
      BY <1>71, <3>1, <3>2
  <2> QED
    BY <1>3, <2>1 DEF FlightSafe, Running
<1>10. Waiting'
  BY <1>1, <1>2, <1>3, <1>7, <1>71 DEF FlightInv, Waiting, Waiters
<1>11. ResultIsOwn'
  BY <1>2, <1>3, <1>7, <1>71 DEF FlightInv, Waiting, Waiters, ResultIsOwn
<1> QED
  BY <1>8, <1>9, <1>10, <1>11 DEF FlightInv

\* A caller returns.
LEMMA EndCallInv ==
  ASSUME FlightInv, NEW k \in Callers, EndCall(k)
  PROVE  FlightInv'
<1>1. FlightTypeOK'
  <2>1. Idle \in CallType
    BY DEF Idle, CallType, Pcs, Errors
  <2> QED
    BY <2>1 DEF FlightInv, FlightTypeOK, CallType, EndCall
<1>2. /\ call'[k].pc = "idle" /\ call'[k].ended = {}
      /\ \A j \in Callers : j # k => call'[j] = call[j]
      /\ call[k].pc = "returned" /\ UNCHANGED <<inProgress, lastErr>>
  BY DEF FlightInv, FlightTypeOK, EndCall, Idle
<1>3. FlightSafe'
  BY <1>2 DEF FlightInv, FlightSafe, Running
<1>4. Waiting' /\ ResultIsOwn'
  BY <1>2 DEF FlightInv, Waiting, Waiters, ResultIsOwn
<1> QED
  BY <1>1, <1>3, <1>4 DEF FlightInv

-----------------------------------------------------------------------------
(* Congestion *)

\* max of Go, on two values.
LEMMA MaxOfTwo ==
  ASSUME NEW a \in Int, NEW b \in Int
  PROVE  Max({a, b}) = IF a >= b THEN a ELSE b
  BY DEF Max

\* min of Go, on two values.
LEMMA MinOfTwo ==
  ASSUME NEW a \in Int, NEW b \in Int
  PROVE  Min({a, b}) = IF a <= b THEN a ELSE b
  BY DEF Min

PoolType == [exists : BOOLEAN, cwnd : Nat, ssthresh : Nat, maxCwnd : Nat,
             overloaded : BOOLEAN]

\* Window and threshold of an entry obey its ceiling.
Bounded(p) ==
  p.cwnd <= MaxCwndOrDefault(p.maxCwnd) /\ p.ssthresh <= MaxCwndOrDefault(p.maxCwnd)

\* CwndBounds, with the one writer that may still have to store the first
\* window: a sizer whose entry was removed stores into an object nobody reads.
\* A writer that has an entry in hand has the one of the registry.
Unstored == poller = "store" \/ (sizer.pc = "store" /\ ~sizer.orphan)
WriterInv ==
  /\ poller # "idle" => pool.exists
  /\ sizer.pc # "idle" =>
       sizer.size \in Sizes /\ (~sizer.orphan => pool.exists)
WindowInv == pool.exists => Bounded(pool) /\ (pool.cwnd >= 1 \/ Unstored)

CongestionInv == CongestionTypeOK /\ WriterInv /\ WindowInv

\* The ceiling of a window is never zero.
LEMMA CeilingPositive ==
  ASSUME NEW m \in Nat
  PROVE  MaxCwndOrDefault(m) \in Nat /\ MaxCwndOrDefault(m) >= 1
  BY CeilingAssumption DEF MaxCwndOrDefault

\* The multiplicative decrease keeps a bounded entry bounded and its window
\* positive, and leaves the rest of it alone.
LEMMA HalveEffect ==
  ASSUME NEW p \in PoolType, NEW c \in Nat, c <= MaxCwndOrDefault(p.maxCwnd)
  PROVE  LET q == Halve(p, c)
         IN  /\ q \in PoolType /\ q.exists = p.exists /\ q.maxCwnd = p.maxCwnd
             /\ Bounded(q) /\ q.cwnd >= 1
<1> DEFINE new == Max({c \div 2, 1})
<1>1. c \div 2 \in Nat /\ c \div 2 <= c
  OBVIOUS
<1>2. new = IF c \div 2 >= 1 THEN c \div 2 ELSE 1
  BY <1>1, MaxOfTwo
<1> HIDE DEF new
<1>3. p.maxCwnd \in Nat
  BY DEF PoolType
<1>4. new \in Nat /\ new >= 1 /\ new <= MaxCwndOrDefault(p.maxCwnd)
  BY <1>1, <1>2, <1>3, CeilingPositive
<1>5. Halve(p, c) = [p EXCEPT !.cwnd = new, !.ssthresh = new]
  BY DEF Halve, new
<1>6. /\ Halve(p, c) \in PoolType /\ Halve(p, c).exists = p.exists
      /\ Halve(p, c).maxCwnd = p.maxCwnd
      /\ Halve(p, c).cwnd = new /\ Halve(p, c).ssthresh = new
  BY <1>4, <1>5 DEF PoolType
<1> QED
  BY <1>4, <1>6 DEF Bounded

\* AIMD keeps a bounded entry bounded; it never takes a stored window back to 0.
LEMMA AIMDEffect ==
  ASSUME NEW p \in PoolType, Bounded(p), NEW signal \in Signals
  PROVE  LET q == ApplyPoolAIMD(p, signal)
         IN  /\ q \in PoolType /\ q.exists = p.exists /\ q.maxCwnd = p.maxCwnd
             /\ Bounded(q) /\ (p.cwnd >= 1 => q.cwnd >= 1)
<1> DEFINE c == Max({p.cwnd, 1})
           ceiling == MaxCwndOrDefault(p.maxCwnd)
           t == IF p.ssthresh < 1 THEN ceiling ELSE p.ssthresh
           grown == IF c < t THEN c * 2 ELSE c + 1
           q0 == [p EXCEPT !.overloaded = signal = "rejected"]
<1>1. p.cwnd \in Nat /\ p.ssthresh \in Nat /\ p.maxCwnd \in Nat
  BY DEF PoolType
<1>2. ceiling \in Nat /\ ceiling >= 1 /\ p.cwnd <= ceiling
  BY <1>1, CeilingPositive DEF Bounded
<1>3. c \in Nat /\ c >= 1 /\ c <= ceiling
  BY <1>1, <1>2, MaxOfTwo
<1>4. t \in Nat /\ grown \in Nat /\ grown >= 1
  <2> HIDE DEF c, ceiling
  <2>1. t \in Nat
    BY <1>1, <1>2
  <2> HIDE DEF t
  <2> QED
    BY <1>3, <2>1
<1>5. /\ q0 \in PoolType /\ q0.exists = p.exists /\ q0.maxCwnd = p.maxCwnd
      /\ q0.cwnd = p.cwnd /\ q0.ssthresh = p.ssthresh
  <2>1. (signal = "rejected") \in BOOLEAN
    OBVIOUS
  <2> QED
    BY <2>1 DEF PoolType
<1> DEFINE w == Min({grown, ceiling})
<1>6. w \in Nat /\ w >= 1 /\ w <= ceiling
  <2> HIDE DEF grown, ceiling
  <2> QED
    BY <1>2, <1>4, MinOfTwo
<1>7. CASE signal \in {"rejected", "congested"}
  <2>1. ApplyPoolAIMD(p, signal) = Halve(q0, c)
    BY <1>7 DEF ApplyPoolAIMD
  <2> HIDE DEF c, q0
  <2> QED
    BY <1>3, <1>5, <2>1, HalveEffect
<1>8. CASE signal = "none"
  <2>1. ApplyPoolAIMD(p, signal) = q0
    BY <1>8 DEF ApplyPoolAIMD
  <2> HIDE DEF q0
  <2> QED
    BY <1>5, <2>1 DEF Bounded
<1>9. CASE signal = "clear"
  <2>1. ApplyPoolAIMD(p, signal) = [q0 EXCEPT !.cwnd = w]
    BY <1>9 DEF ApplyPoolAIMD
  <2> HIDE DEF q0, w
  <2>2. /\ [q0 EXCEPT !.cwnd = w] \in PoolType
        /\ [q0 EXCEPT !.cwnd = w].exists = p.exists
        /\ [q0 EXCEPT !.cwnd = w].maxCwnd = p.maxCwnd
        /\ [q0 EXCEPT !.cwnd = w].cwnd = w
        /\ [q0 EXCEPT !.cwnd = w].ssthresh = p.ssthresh
    BY <1>5, <1>6 DEF PoolType
  <2> QED
    BY <1>6, <2>1, <2>2 DEF Bounded
<1> QED
  BY <1>7, <1>8, <1>9 DEF Signals

\* A new thread-pool size leaves window and threshold below the new ceiling.
LEMMA SetCeilingEffect ==
  ASSUME NEW p \in PoolType, NEW size \in Sizes
  PROVE  LET q == SetCeiling(p, size)
         IN  /\ q \in PoolType /\ q.exists = p.exists
             /\ Bounded(q) /\ (p.cwnd >= 1 => q.cwnd >= 1)
<1>1. size \in Nat /\ size >= 1 /\ p.cwnd \in Nat
  BY SizesAssumption DEF PoolType
<1> DEFINE w == Min({p.cwnd, size})
<1>2. w \in Nat /\ w <= size /\ (p.cwnd >= 1 => w >= 1)
  BY <1>1, MinOfTwo
<1> HIDE DEF w
<1>3. SetCeiling(p, size) = [p EXCEPT !.maxCwnd = size, !.ssthresh = size, !.cwnd = w]
  BY DEF SetCeiling, w
<1>4. /\ SetCeiling(p, size) \in PoolType /\ SetCeiling(p, size).exists = p.exists
      /\ SetCeiling(p, size).maxCwnd = size /\ SetCeiling(p, size).ssthresh = size
      /\ SetCeiling(p, size).cwnd = w
  BY <1>1, <1>2, <1>3 DEF PoolType
<1>5. MaxCwndOrDefault(size) = size
  BY <1>1 DEF MaxCwndOrDefault
<1> QED
  BY <1>1, <1>2, <1>4, <1>5 DEF Bounded
SizerType == [pc : {"idle", "store", "update"}, size : Sizes \cup {0}, orphan : BOOLEAN]

\* The type invariant by its parts.
LEMMA CongestionTyping ==
  CongestionTypeOK <=>
    /\ pool \in PoolType /\ inFlight \in [{"named", "default"} -> Int]
    /\ poller \in {"idle", "store", "update"} /\ sizer \in SizerType
  BY DEF CongestionTypeOK, PoolType, SizerType

\* The invariant from what a step does to the entry and to its writers.
LEMMA CongestionStep ==
  ASSUME pool' \in PoolType, inFlight' \in [{"named", "default"} -> Int],
         poller' \in {"idle", "store", "update"}, sizer' \in SizerType,
         WriterInv', pool'.exists => Bounded(pool') /\ (pool'.cwnd >= 1 \/ Unstored')
  PROVE  CongestionInv'
<1>1. CongestionTypeOK'
  BY DEF CongestionTypeOK, PoolType, SizerType
<1>2. WindowInv'
  BY DEF WindowInv, Bounded
<1> QED
  BY <1>1, <1>2 DEF CongestionInv

\* No pool is known at first.
LEMMA CongestionInitInv == CongestionInit => CongestionInv
<1> SUFFICES ASSUME CongestionInit PROVE CongestionInv
  OBVIOUS
<1>1. pool.exists = FALSE /\ sizer.pc = "idle"
  BY DEF CongestionInit, NoPool, Fresh, NoSizer
<1>2. pool \in PoolType
  BY DEF CongestionInit, NoPool, Fresh, PoolType
<1>3. sizer \in SizerType
  BY DEF CongestionInit, NoSizer, SizerType
<1>4. inFlight \in [{"named", "default"} -> Int]
  BY DEF CongestionInit
<1>5. CongestionTypeOK
  BY <1>2, <1>3, <1>4, CongestionTyping DEF CongestionInit
<1>6. WriterInv /\ WindowInv
  BY <1>1 DEF CongestionInit, WriterInv, WindowInv
<1> QED
  BY <1>5, <1>6 DEF CongestionInv

\* getOrCreate publishes a zero entry, or finds one.
LEMMA LoadOrStoreEffect ==
  ASSUME CongestionInv, LoadOrStore
  PROVE  /\ pool' \in PoolType /\ pool'.exists /\ Bounded(pool')
         /\ inFlight' = inFlight
         /\ pool.exists => pool' = pool
         /\ Created = IF pool.exists THEN "update" ELSE "store"
<1>1. pool \in PoolType
  BY CongestionTyping DEF CongestionInv
<1>2. CASE pool.exists
  BY <1>1, <1>2 DEF LoadOrStore, Created, CongestionInv, WindowInv
<1>3. CASE ~pool.exists
  <2>1. pool' = Fresh
    BY <1>3 DEF LoadOrStore
  <2>2. Fresh \in PoolType /\ Fresh.exists /\ Fresh.cwnd = 0 /\ Fresh.ssthresh = 0 /\ Fresh.maxCwnd = 0
    BY DEF Fresh, PoolType
  <2>3. Bounded(Fresh)
    BY <2>2, CeilingPositive DEF Bounded
  <2> QED
    BY <1>3, <2>1, <2>2, <2>3 DEF LoadOrStore, Created
<1> QED
  BY <1>2, <1>3

\* The poller creates an entry of the registry before it stores its window.
LEMMA PollReportsInv ==
  ASSUME CongestionInv, PollReports
  PROVE  CongestionInv'
<1>1. LoadOrStore /\ poller = "idle" /\ poller' = Created /\ sizer' = sizer
  BY DEF PollReports
<1>2. sizer \in SizerType /\ inFlight \in [{"named", "default"} -> Int]
  BY CongestionTyping DEF CongestionInv
<1>3. WriterInv'
  BY <1>1, LoadOrStoreEffect DEF CongestionInv, WriterInv
<1>4. pool'.cwnd >= 1 \/ Unstored'
  BY <1>1, LoadOrStoreEffect DEF CongestionInv, WindowInv, Unstored
<1> QED
  BY <1>1, <1>2, <1>3, <1>4, LoadOrStoreEffect, CongestionStep

\* So does the thread-pool discovery.
LEMMA SizerBeginsInv ==
  ASSUME CongestionInv, NEW size \in Sizes, SizerBegins(size)
  PROVE  CongestionInv'
<1>1. LoadOrStore /\ sizer.pc = "idle" /\ poller' = poller
  BY DEF SizerBegins
<1>2. poller \in {"idle", "store", "update"} /\ inFlight \in [{"named", "default"} -> Int]
  BY CongestionTyping DEF CongestionInv
<1>3. /\ sizer' \in SizerType /\ sizer'.pc = Created /\ sizer'.size = size
      /\ sizer'.orphan = FALSE
  BY <1>1, LoadOrStoreEffect DEF SizerBegins, SizerType
<1>4. WriterInv'
  BY <1>1, <1>3, LoadOrStoreEffect DEF CongestionInv, WriterInv
<1>5. pool'.cwnd >= 1 \/ Unstored'
  BY <1>1, <1>3, LoadOrStoreEffect DEF CongestionInv, WindowInv, Unstored
<1> QED
  BY <1>1, <1>2, <1>3, <1>4, <1>5, LoadOrStoreEffect, CongestionStep

\* The first window of an entry is 1, which every ceiling allows.
LEMMA FirstWindow ==
  ASSUME NEW p \in PoolType, Bounded(p)
  PROVE  LET q == [p EXCEPT !.cwnd = 1]
         IN  q \in PoolType /\ q.exists = p.exists /\ Bounded(q) /\ q.cwnd = 1
<1>1. p.maxCwnd \in Nat
  BY DEF PoolType
<1>2. /\ [p EXCEPT !.cwnd = 1] \in PoolType
      /\ [p EXCEPT !.cwnd = 1].exists = p.exists /\ [p EXCEPT !.cwnd = 1].cwnd = 1
      /\ [p EXCEPT !.cwnd = 1].maxCwnd = p.maxCwnd
      /\ [p EXCEPT !.cwnd = 1].ssthresh = p.ssthresh
  BY DEF PoolType
<1> QED
  BY <1>1, <1>2, CeilingPositive DEF Bounded

\* The poller stores the first window.
LEMMA PollStoresInv ==
  ASSUME CongestionInv, PollStores
  PROVE  CongestionInv'
<1>1. /\ poller = "store" /\ pool' = [pool EXCEPT !.cwnd = 1] /\ poller' = "update"
      /\ inFlight' = inFlight /\ sizer' = sizer
  BY DEF PollStores
<1>2. /\ pool \in PoolType /\ sizer \in SizerType
      /\ inFlight \in [{"named", "default"} -> Int] /\ pool.exists /\ Bounded(pool)
  BY <1>1, CongestionTyping DEF CongestionInv, WriterInv, WindowInv
<1>3. pool' \in PoolType /\ pool'.exists /\ Bounded(pool') /\ pool'.cwnd = 1
  BY <1>1, <1>2, FirstWindow
<1>4. WriterInv'
  BY <1>1, <1>3 DEF CongestionInv, WriterInv
<1> QED
  BY <1>1, <1>2, <1>3, <1>4, CongestionStep

\* The poller adjusts the window to the signal.
LEMMA PollUpdatesInv ==
  ASSUME CongestionInv, NEW signal \in Signals, PollUpdates(signal)
  PROVE  CongestionInv'
<1>1. /\ poller = "update" /\ pool' = ApplyPoolAIMD(pool, signal) /\ poller' = "idle"
      /\ inFlight' = inFlight /\ sizer' = sizer
  BY DEF PollUpdates
<1>2. /\ pool \in PoolType /\ sizer \in SizerType
      /\ inFlight \in [{"named", "default"} -> Int] /\ pool.exists /\ Bounded(pool)
  BY <1>1, CongestionTyping DEF CongestionInv, WriterInv, WindowInv
<1>3. /\ pool' \in PoolType /\ pool'.exists /\ Bounded(pool')
      /\ pool.cwnd >= 1 => pool'.cwnd >= 1
  BY <1>1, <1>2, AIMDEffect
<1>4. WriterInv'
  BY <1>1, <1>3 DEF CongestionInv, WriterInv
<1>5. pool'.cwnd >= 1 \/ Unstored'
  BY <1>1, <1>2, <1>3 DEF CongestionInv, WindowInv, Unstored
<1> QED
  BY <1>1, <1>2, <1>3, <1>4, <1>5, CongestionStep

\* The poller removes a pool the node no longer reports.
LEMMA PollRemovesInv ==
  ASSUME CongestionInv, PollRemoves
  PROVE  CongestionInv'
<1>1. /\ poller = "idle" /\ poller' = poller /\ pool' = NoPool
      /\ inFlight' = [inFlight EXCEPT !["named"] = 0]
      /\ sizer' = [sizer EXCEPT !.orphan = sizer.pc # "idle"]
  BY DEF PollRemoves
<1>2. sizer \in SizerType /\ inFlight \in [{"named", "default"} -> Int]
  BY CongestionTyping DEF CongestionInv
<1>3. pool' \in PoolType /\ ~pool'.exists
  BY <1>1 DEF NoPool, Fresh, PoolType
<1>4. /\ sizer' \in SizerType /\ sizer'.pc = sizer.pc /\ sizer'.size = sizer.size
      /\ sizer.pc # "idle" => sizer'.orphan
  <2>1. (sizer.pc # "idle") \in BOOLEAN
    OBVIOUS
  <2> QED
    BY <1>1, <1>2, <2>1 DEF SizerType
<1>5. WriterInv'
  BY <1>1, <1>4 DEF CongestionInv, WriterInv
<1>6. inFlight' \in [{"named", "default"} -> Int]
  BY <1>1, <1>2
<1> QED
  BY <1>1, <1>3, <1>4, <1>5, <1>6, CongestionStep

\* The thread-pool discovery stores the first window.
LEMMA SizerStoresInv ==
  ASSUME CongestionInv, SizerStores
  PROVE  CongestionInv'
<1>1. /\ sizer.pc = "store" /\ poller' = poller /\ inFlight' = inFlight
      /\ pool' = IF sizer.orphan THEN pool ELSE [pool EXCEPT !.cwnd = 1]
      /\ sizer' = [sizer EXCEPT !.pc = "update"]
  BY DEF SizerStores
<1>2. /\ pool \in PoolType /\ sizer \in SizerType /\ poller \in {"idle", "store", "update"}
      /\ inFlight \in [{"named", "default"} -> Int]
  BY CongestionTyping DEF CongestionInv
<1>3. /\ sizer' \in SizerType /\ sizer'.pc = "update" /\ sizer'.size = sizer.size
      /\ sizer'.orphan = sizer.orphan
  BY <1>1, <1>2 DEF SizerType
<1>4. CASE sizer.orphan
  <2>1. pool' = pool
    BY <1>1, <1>4
  <2>2. WriterInv'
    BY <1>1, <1>3, <1>4, <2>1 DEF CongestionInv, WriterInv
  <2>3. pool'.exists => Bounded(pool') /\ (pool'.cwnd >= 1 \/ Unstored')
    BY <1>1, <1>3, <1>4, <2>1 DEF CongestionInv, WindowInv, Unstored
  <2> QED
    BY <1>1, <1>2, <1>3, <2>1, <2>2, <2>3, CongestionStep
<1>5. CASE ~sizer.orphan
  <2>1. pool.exists /\ Bounded(pool) /\ pool' = [pool EXCEPT !.cwnd = 1]
    BY <1>1, <1>5 DEF CongestionInv, WriterInv, WindowInv
  <2>2. pool' \in PoolType /\ pool'.exists /\ Bounded(pool') /\ pool'.cwnd = 1
    BY <1>2, <2>1, FirstWindow
  <2>3. WriterInv'
    BY <1>1, <1>3, <2>2 DEF CongestionInv, WriterInv
  <2> QED
    BY <1>1, <1>2, <1>3, <2>2, <2>3, CongestionStep
<1> QED
  BY <1>4, <1>5

\* It moves the ceiling of an entry that the poller may be adjusting.
LEMMA SizerUpdatesInv ==
  ASSUME CongestionInv, SizerUpdates
  PROVE  CongestionInv'
<1>1. /\ sizer.pc = "update" /\ poller' = poller /\ inFlight' = inFlight
      /\ pool' = IF sizer.orphan THEN pool ELSE SetCeiling(pool, sizer.size)
      /\ sizer' = NoSizer
  BY DEF SizerUpdates
<1>2. /\ pool \in PoolType /\ poller \in {"idle", "store", "update"}
      /\ inFlight \in [{"named", "default"} -> Int] /\ sizer.size \in Sizes
  BY <1>1, CongestionTyping DEF CongestionInv, WriterInv
<1>3. sizer' \in SizerType /\ sizer'.pc = "idle"
  BY <1>1 DEF NoSizer, SizerType
<1>4. /\ pool' \in PoolType /\ pool'.exists = pool.exists
      /\ pool.exists => Bounded(pool') /\ (pool.cwnd >= 1 => pool'.cwnd >= 1)
  <2>1. CASE sizer.orphan
    BY <1>1, <1>2, <2>1 DEF CongestionInv, WindowInv
  <2>2. CASE ~sizer.orphan
    BY <1>1, <1>2, <2>2, SetCeilingEffect
  <2> QED
    BY <2>1, <2>2
<1>5. WriterInv'
  BY <1>1, <1>3, <1>4 DEF CongestionInv, WriterInv
<1>6. pool.exists => pool'.cwnd >= 1 \/ Unstored'
  BY <1>1, <1>3, <1>4 DEF CongestionInv, WindowInv, Unstored
<1> QED
  BY <1>1, <1>2, <1>3, <1>4, <1>5, <1>6, CongestionStep

\* A request marks the pool overloaded and halves its window.
LEMMA TooManyRequestsInv ==
  ASSUME CongestionInv, TooManyRequests, UNCHANGED <<inFlight, poller, sizer>>
  PROVE  CongestionInv'
<1>1. /\ pool \in PoolType /\ poller \in {"idle", "store", "update"} /\ sizer \in SizerType
      /\ inFlight \in [{"named", "default"} -> Int]
  BY CongestionTyping DEF CongestionInv
<1>2. /\ pool' \in PoolType /\ pool'.exists = pool.exists
      /\ pool.exists => Bounded(pool') /\ (pool.cwnd >= 1 => pool'.cwnd >= 1)
  <2>1. CASE pool' = pool
    BY <1>1, <2>1 DEF CongestionInv, WindowInv
  <2>2. CASE pool.exists /\ pool' = Halve([pool EXCEPT !.overloaded = TRUE], pool.cwnd)
    <3> DEFINE p == [pool EXCEPT !.overloaded = TRUE]
    <3>1. p \in PoolType /\ p.exists = pool.exists /\ p.maxCwnd = pool.maxCwnd
      BY <1>1 DEF PoolType
    <3>2. pool.cwnd \in Nat /\ pool.cwnd <= MaxCwndOrDefault(p.maxCwnd)
      BY <1>1, <2>2, <3>1 DEF PoolType, CongestionInv, WindowInv, Bounded
    <3> HIDE DEF p
    <3>3. pool' = Halve(p, pool.cwnd)
      BY <2>2 DEF p
    <3> QED
      BY <2>2, <3>1, <3>2, <3>3, HalveEffect
  <2> QED
    BY <2>1, <2>2 DEF TooManyRequests
<1>3. WriterInv'
  BY <1>2 DEF CongestionInv, WriterInv
<1>4. pool.exists => pool'.cwnd >= 1 \/ Unstored'
  BY <1>2 DEF CongestionInv, WindowInv, Unstored
<1> QED
  BY <1>1, <1>2, <1>3, <1>4, CongestionStep

\* Counting a request leaves the windows alone.
LEMMA CountingInv ==
  ASSUME CongestionInv, UNCHANGED <<pool, poller, sizer>>,
         \/ AddInFlight \/ ReleaseInFlight \/ UNCHANGED inFlight
  PROVE  CongestionInv'
<1>1. inFlight \in [{"named", "default"} -> Int]
  BY CongestionTyping DEF CongestionInv
<1>2. GetForScoring \in {"named", "default"}
  BY DEF GetForScoring
<1>3. inFlight' \in [{"named", "default"} -> Int]
  BY <1>1, <1>2 DEF AddInFlight, ReleaseInFlight
<1>4. CongestionTypeOK'
  BY <1>3 DEF CongestionInv, CongestionTypeOK
<1> QED
  BY <1>4 DEF CongestionInv, WriterInv, WindowInv, Unstored, Bounded

\* The invariant bounds the window.
LEMMA CongestionSafe == CongestionInv => CwndBounds
  BY DEF CongestionInv, WindowInv, CwndBounds, Bounded, Unstored

-----------------------------------------------------------------------------
(* Requests *)

ResType == [at : Nat, status : Statuses \cup {"none"}, body : {"none", "open", "closed"}]

ReqType ==
  [pc : ReqPcs, i : 0 .. MaxRetries, res : ResType,
   err : {"nil", "noconn", "other", "ctx"} \cup NetErrors,
   body : {"fresh", "short", "read"}, buffer : {"fresh", "short"},
   cancelled : BOOLEAN, trips : Nat, torn : BOOLEAN, leaked : BOOLEAN]

\* The outcome of a round trip: the response to it, open, or an error alone.
Outcome(q) ==
  IF q.err = "nil" THEN q.res.at = q.trips /\ q.res.body = "open"
  ELSE q.res = NoResponse

\* A request between two round trips holds no open response, one that has ended
\* or has just been answered holds the outcome of its last round trip.
Between == {"idle", "route", "flight", "backoff", "seed", "seedflight"}
Good(q) ==
  /\ q \in ReqType
  /\ ~q.leaked
  /\ q.pc \in Between => q.res.body # "open"
  /\ q.pc = "handle" => Outcome(q)
  /\ q.pc = "backoff" =>
       q.i < MaxRetries /\ (q.res = NoResponse \/ q.res.body = "closed")
  /\ q.pc = "done" =>
       \/ Outcome(q)
       \/ q.err = "ctx" /\ q.cancelled /\ q.res.body = "closed"

\* A body that was buffered whole, or need not be, is whole before the first
\* attempt of a request.
Untorn(q) == q.buffer = "fresh" => ~q.torn
Whole(q) ==
  /\ Untorn(q)
  /\ q.pc = "idle" => q.i = 0
  /\ q.pc \in {"idle", "route"} /\ q.i = 0 => q.body = q.buffer

\* Forgetting a response that is not open leaks nothing.
LEMMA ForgetEffect ==
  ASSUME NEW q \in ReqType, ~q.leaked, q.res.body # "open"
  PROVE  /\ Forget(q) \in ReqType
         /\ Forget(q).res = NoResponse /\ ~Forget(q).leaked
         /\ Forget(q).pc = q.pc /\ Forget(q).i = q.i /\ Forget(q).err = q.err
         /\ Forget(q).body = q.body /\ Forget(q).cancelled = q.cancelled
         /\ Forget(q).trips = q.trips /\ Forget(q).torn = q.torn /\ Forget(q).buffer = q.buffer
<1>1. NoResponse \in ResType
  BY DEF NoResponse, ResType
<1>2. (q.leaked \/ q.res.body = "open") = FALSE
  BY DEF ReqType
<1>3. Forget(q) = [q EXCEPT !.res = NoResponse, !.leaked = FALSE]
  BY <1>2 DEF Forget, ReqType
<1> QED
  BY <1>1, <1>3 DEF ReqType

\* A round trip leaves what the caller is to be given, whole body or not.
LEMMA SendEffect ==
  ASSUME NEW q \in ReqType, NEW pc \in ReqPcs
  PROVE  /\ Send(q, pc) \in ReqType
         /\ Send(q, pc).pc = pc /\ Send(q, pc).res = q.res
         /\ Send(q, pc).leaked = q.leaked /\ Send(q, pc).i = q.i
         /\ Send(q, pc).buffer = q.buffer
         /\ ~q.torn /\ q.body = "fresh" => ~Send(q, pc).torn
<1> DEFINE torn == q.torn \/ q.body # "fresh"
<1>1. torn \in BOOLEAN /\ (~q.torn /\ q.body = "fresh" => ~torn)
  BY DEF ReqType
<1>2. q.trips + 1 \in Nat
  BY DEF ReqType
<1>3. Send(q, pc) =
        [q EXCEPT !.pc = pc, !.trips = q.trips + 1, !.torn = torn, !.body = "read"]
  BY DEF Send, ReqType
<1> HIDE DEF torn
<1> QED
  BY <1>1, <1>2, <1>3 DEF ReqType

\* Every answer of the network is an outcome of the trip it answers.
LEMMA AnswersEffect ==
  ASSUME NEW q, Good(q), q.pc \in Between, NEW a \in Answers(q)
  PROVE  /\ a \in ReqType /\ ~a.leaked /\ Outcome(a)
         /\ a.cancelled = q.cancelled /\ a.torn = q.torn /\ a.buffer = q.buffer
         /\ a.i = q.i
<1> DEFINE f == Forget(q)
<1>1. q \in ReqType /\ ~q.leaked /\ q.res.body # "open"
  BY DEF Good
<1>2. /\ f \in ReqType /\ f.res = NoResponse /\ ~f.leaked /\ f.trips = q.trips
      /\ f.cancelled = q.cancelled /\ f.torn = q.torn /\ f.buffer = q.buffer /\ f.i = q.i
  BY <1>1, ForgetEffect
<1>3. \/ \E s \in Statuses : a = Answered(q, s)
      \/ \E e \in NetErrors \cup {"ctx"} : a = Failed(q, e)
  BY DEF Answers
<1> HIDE DEF f
<1>4. CASE \E s \in Statuses : a = Answered(q, s)
  <2>1. PICK s \in Statuses : a = [f EXCEPT
          !.res = [at |-> q.trips, status |-> s, body |-> "open"], !.err = "nil"]
    BY <1>4 DEF Answered, f
  <2>2. [at |-> q.trips, status |-> s, body |-> "open"] \in ResType
    BY <1>1 DEF ResType, ReqType
  <2>3. /\ a \in ReqType /\ a.leaked = f.leaked /\ a.err = "nil"
        /\ a.res = [at |-> q.trips, status |-> s, body |-> "open"]
        /\ a.trips = f.trips /\ a.cancelled = f.cancelled /\ a.torn = f.torn /\ a.buffer = f.buffer /\ a.i = f.i
    BY <1>2, <2>1, <2>2 DEF ReqType
  <2> QED
    BY <1>2, <2>3 DEF Outcome
<1>5. CASE \E e \in NetErrors \cup {"ctx"} : a = Failed(q, e)
  <2>1. PICK e \in NetErrors \cup {"ctx"} : a = [f EXCEPT !.err = e]
    BY <1>5 DEF Failed, f
  <2>2. /\ a \in ReqType /\ a.leaked = f.leaked /\ a.err = e
        /\ a.res = f.res
        /\ a.trips = f.trips /\ a.cancelled = f.cancelled /\ a.torn = f.torn /\ a.buffer = f.buffer /\ a.i = f.i
    BY <1>2, <2>1 DEF ReqType
  <2>3. e # "nil"
    BY DEF NetErrors
  <2> QED
    BY <1>2, <2>2, <2>3 DEF Outcome
<1> QED
  BY <1>3, <1>4, <1>5

\* What a step of stream makes of a request: it stays good, and whole when the
\* retries that reset its body are not disabled.
Keeps(q, p) == Good(p) /\ (~DisableRetry /\ Whole(q) => Whole(p))

\* What each step keeps of a request: Stream is called, and gets hold of the
\* body or of a part of it,
LEMMA CallKeeps ==
  ASSUME NEW q, Good(q), q.pc = "idle", NEW p,
         \/ p = [q EXCEPT !.pc = "route"]
         \/ p = [q EXCEPT !.pc = "route", !.body = "short", !.buffer = "short"]
  PROVE  Keeps(q, p) /\ p.pc = "route"
<1>1. q \in ReqType /\ ~q.leaked /\ q.res.body # "open"
  BY DEF Good, Between
<1>2. /\ p \in ReqType /\ p.pc = "route" /\ p.leaked = q.leaked /\ p.res = q.res
      /\ p.torn = q.torn /\ p.i = q.i
      /\ \/ p.body = q.body /\ p.buffer = q.buffer
         \/ p.body = "short" /\ p.buffer = "short"
  BY <1>1 DEF ReqType, ReqPcs
<1>3. Good(p)
  BY <1>1, <1>2 DEF Good
<1>4. Whole(q) => Whole(p)
  BY <1>2 DEF Whole, Untorn
<1> QED
  BY <1>2, <1>3, <1>4 DEF Keeps

\* A reset leaves everything but the body alone.
LEMMA ResetEffect ==
  ASSUME NEW q \in ReqType, NEW p, p = q \/ p = [q EXCEPT !.body = q.buffer]
  PROVE  /\ p \in ReqType /\ p.pc = q.pc /\ p.leaked = q.leaked /\ p.res = q.res
         /\ p.torn = q.torn /\ p.buffer = q.buffer /\ p.i = q.i
         /\ p = [q EXCEPT !.body = q.buffer] => p.body = q.buffer
  BY DEF ReqType

\* an attempt is sent with a fresh body,
LEMMA RouteFoundKeeps ==
  ASSUME NEW q, Good(q), q.pc = "route"
  PROVE  Keeps(q, Send(ResetBody(q), "flight"))
<1> DEFINE b == ResetBody(q)
           p == Send(b, "flight")
<1>1. q \in ReqType /\ ~q.leaked /\ q.res.body # "open" /\ q.i \in 0 .. MaxRetries
  BY DEF Good, Between, ReqType
<1>2. /\ b \in ReqType /\ b.leaked = q.leaked /\ b.res = q.res
      /\ b.torn = q.torn /\ b.buffer = q.buffer /\ b.i = q.i
  BY <1>1, ResetEffect DEF ResetBody
<1>3. ~DisableRetry /\ Whole(q) => b.body = b.buffer
  <2> SUFFICES ASSUME ~DisableRetry, Whole(q) PROVE b.body = b.buffer
    OBVIOUS
  <2>1. CASE q.i > 0
    BY <1>1, <2>1, ResetEffect DEF ResetBody
  <2>2. CASE ~(q.i > 0)
    <3>1. q.i = 0
      BY <1>1, <2>2, RetriesAssumption
    <3> QED
      BY <2>2, <3>1 DEF Whole, ResetBody
  <2> QED
    BY <2>1, <2>2
<1> HIDE DEF b
<1>4. /\ p \in ReqType /\ p.pc = "flight" /\ p.res = b.res /\ p.leaked = b.leaked
      /\ p.buffer = b.buffer
      /\ ~b.torn /\ b.body = "fresh" => ~p.torn
  BY <1>2, SendEffect DEF ReqPcs
<1> HIDE DEF p
<1>5. Good(p)
  BY <1>1, <1>2, <1>4 DEF Good
<1>6. ~DisableRetry /\ Whole(q) => Whole(p)
  BY <1>2, <1>3, <1>4 DEF Whole, Untorn
<1> QED
  BY <1>5, <1>6 DEF Keeps, p, b

\* A request that ends with an error has no response.
LEMMA FailKeeps ==
  ASSUME NEW q, Good(q), q.pc \in Between, NEW pc \in {"done", "seed"},
         NEW err \in {"noconn", "other", "ctx"}
  PROVE  Keeps(q, [Forget(q) EXCEPT !.pc = pc, !.err = err])
<1> DEFINE f == Forget(q)
           p == [f EXCEPT !.pc = pc, !.err = err]
<1>1. q \in ReqType /\ ~q.leaked /\ q.res.body # "open"
  BY DEF Good
<1>2. f \in ReqType /\ f.res = NoResponse /\ ~f.leaked /\ f.torn = q.torn /\ f.buffer = q.buffer
  BY <1>1, ForgetEffect
<1> HIDE DEF f
<1>3. /\ p \in ReqType /\ p.pc = pc /\ p.err = err /\ p.res = f.res
      /\ p.leaked = f.leaked /\ p.torn = f.torn /\ p.buffer = f.buffer
  BY <1>2 DEF ReqType, ReqPcs
<1>4. NoResponse.body = "none"
  BY DEF NoResponse
<1> HIDE DEF p
<1>5. Outcome(p)
  BY <1>2, <1>3 DEF Outcome
<1>6. Good(p)
  BY <1>2, <1>3, <1>4, <1>5 DEF Good
<1>7. Whole(q) => Whole(p)
  BY <1>2, <1>3 DEF Whole, Untorn
<1> QED
  BY <1>6, <1>7 DEF Keeps, p, f

\* An answer is handled, or returned by the seed fallback.
LEMMA AnswerKeeps ==
  ASSUME NEW q, Good(q), q.pc \in Between, NEW a \in Answers(q),
         NEW pc \in {"handle", "done"}
  PROVE  Keeps(q, [a EXCEPT !.pc = pc])
<1> DEFINE p == [a EXCEPT !.pc = pc]
<1>1. /\ a \in ReqType /\ ~a.leaked /\ Outcome(a) /\ a.torn = q.torn /\ a.buffer = q.buffer
  BY AnswersEffect
<1>2. /\ p \in ReqType /\ p.pc = pc /\ p.leaked = a.leaked /\ p.torn = a.torn /\ p.buffer = a.buffer
      /\ p.res = a.res /\ p.err = a.err /\ p.trips = a.trips
  BY <1>1 DEF ReqType, ReqPcs
<1> HIDE DEF p
<1>3. Outcome(p)
  BY <1>1, <1>2 DEF Outcome
<1>4. Good(p)
  BY <1>1, <1>2, <1>3 DEF Good, Between
<1>5. Whole(q) => Whole(p)
  BY <1>1, <1>2 DEF Whole, Untorn
<1> QED
  BY <1>4, <1>5 DEF Keeps, p

\* Another iteration begins when one is left and no response is open.
LEMMA IterationKeeps ==
  ASSUME NEW q \in ReqType, ~q.leaked, q.i < MaxRetries, q.res.body # "open"
  PROVE  /\ Good(NextIteration(q)) /\ NextIteration(q).pc = "route"
         /\ Untorn(q) => Whole(NextIteration(q))
<1> DEFINE p == [q EXCEPT !.i = q.i + 1, !.pc = "route", !.err = "nil"]
<1>1. q.i + 1 \in 0 .. MaxRetries /\ q.i + 1 # 0
  BY RetriesAssumption DEF ReqType
<1>2. NextIteration(q) = p
  BY DEF NextIteration
<1>3. /\ p \in ReqType /\ p.pc = "route" /\ p.leaked = q.leaked /\ p.res = q.res
      /\ p.torn = q.torn /\ p.buffer = q.buffer /\ p.i = q.i + 1
  BY <1>1 DEF ReqType, ReqPcs
<1> HIDE DEF p
<1>4. Good(p)
  BY <1>3 DEF Good
<1>5. Untorn(q) => Whole(p)
  BY <1>1, <1>3 DEF Whole, Untorn
<1> QED
  BY <1>2, <1>3, <1>4, <1>5

\* What the loop does with the outcome q, its body closed if it will be retried.
Handled(q) ==
  CASE ~ShouldRetry(q) -> Done(q)
    [] ShouldRetry(q) /\ HasBackoff /\ q.i < MaxRetries -> [q EXCEPT !.pc = "backoff"]
    [] OTHER -> NextIteration(q)

\* A response is closed exactly when the loop goes on without it.
LEMMA CloseBodyEffect ==
  ASSUME NEW q, Good(q), q.pc = "handle"
  PROVE  LET c == CloseBody(q)
         IN  /\ c \in ReqType /\ ~c.leaked /\ c.torn = q.torn /\ c.buffer = q.buffer /\ c.i = q.i
             /\ ShouldRetry(c) /\ c.i < MaxRetries =>
                  c.res = NoResponse \/ c.res.body = "closed"
             /\ ~(ShouldRetry(c) /\ c.i < MaxRetries) => Outcome(c)
<1> DEFINE c == CloseBody(q)
           closing == RetriesStatus(q.res.status) /\ q.i < MaxRetries
<1>1. q \in ReqType /\ ~q.leaked /\ Outcome(q) /\ q.res \in ResType
  BY DEF Good, ReqType
<1>2. CASE closing
  <2>1. c = [q EXCEPT !.res.body = "closed"]
    BY <1>2 DEF CloseBody
  <2>2. [q.res EXCEPT !.body = "closed"] \in ResType
    BY <1>1 DEF ResType
  <2>3. /\ c \in ReqType /\ c.leaked = q.leaked /\ c.torn = q.torn /\ c.buffer = q.buffer /\ c.i = q.i
        /\ c.res = [q.res EXCEPT !.body = "closed"]
    BY <1>1, <2>1, <2>2 DEF ReqType
  <2>4. c.res.body = "closed" /\ c.res.status = q.res.status
    BY <1>1, <2>3 DEF ResType
  <2>5. ShouldRetry(c) /\ c.i < MaxRetries
    BY <1>2, <2>3, <2>4 DEF ShouldRetry
  <2> HIDE DEF c
  <2> QED
    BY <1>1, <2>3, <2>4, <2>5 DEF c
<1>3. CASE ~closing
  <2>1. c = q
    BY <1>3 DEF CloseBody
  <2>2. ASSUME ShouldRetry(q), q.i < MaxRetries PROVE q.res = NoResponse
    <3>1. RetriesError(q.err)
      BY <1>3, <2>2 DEF ShouldRetry
    <3>2. q.err # "nil"
      BY <3>1 DEF RetriesError
    <3> QED
      BY <1>1, <3>2 DEF Outcome
  <2> QED
    BY <1>1, <2>1, <2>2
<1> QED
  BY <1>2, <1>3

\* its outcome is handled,
LEMMA HandleKeeps ==
  ASSUME NEW q, Good(q), q.pc = "handle"
  PROVE  /\ Keeps(q, Handled(CloseBody(q)))
         /\ Handled(CloseBody(q)).pc # "flight"
<1> DEFINE c == CloseBody(q)
           p == Handled(c)
<1>1. /\ c \in ReqType /\ ~c.leaked /\ c.torn = q.torn /\ c.buffer = q.buffer /\ c.i = q.i
      /\ ShouldRetry(c) /\ c.i < MaxRetries =>
           c.res = NoResponse \/ c.res.body = "closed"
      /\ ~(ShouldRetry(c) /\ c.i < MaxRetries) => Outcome(c)
  BY CloseBodyEffect
<1>2. NoResponse.body = "none"
  BY DEF NoResponse
<1> HIDE DEF c
<1>3. CASE ~(ShouldRetry(c) /\ c.i < MaxRetries)
  <2>1. p = [c EXCEPT !.pc = "done"]
    BY <1>3 DEF Handled, Done, NextIteration
  <2>2. /\ p \in ReqType /\ p.pc = "done" /\ p.leaked = c.leaked /\ p.torn = c.torn /\ p.buffer = c.buffer
        /\ p.res = c.res /\ p.err = c.err /\ p.trips = c.trips
    BY <1>1, <2>1 DEF ReqType, ReqPcs
  <2> HIDE DEF p
  <2>3. Outcome(p)
    BY <1>1, <1>3, <2>2 DEF Outcome
  <2>4. Good(p)
    BY <1>1, <2>2, <2>3 DEF Good, Between
  <2>5. Whole(q) => Whole(p)
    BY <1>1, <2>2 DEF Whole, Untorn
  <2> QED
    BY <2>2, <2>4, <2>5 DEF Keeps, p, c
<1>4. CASE ShouldRetry(c) /\ c.i < MaxRetries /\ HasBackoff
  <2>1. p = [c EXCEPT !.pc = "backoff"]
    BY <1>4 DEF Handled
  <2>2. /\ p \in ReqType /\ p.pc = "backoff" /\ p.leaked = c.leaked /\ p.torn = c.torn /\ p.buffer = c.buffer
        /\ p.res = c.res /\ p.i = c.i
    BY <1>1, <2>1 DEF ReqType, ReqPcs
  <2> HIDE DEF p
  <2>3. Good(p)
    BY <1>1, <1>2, <1>4, <2>2 DEF Good
  <2>4. Whole(q) => Whole(p)
    BY <1>1, <2>2 DEF Whole, Untorn
  <2> QED
    BY <2>2, <2>3, <2>4 DEF Keeps, p, c
<1>5. CASE ShouldRetry(c) /\ c.i < MaxRetries /\ ~HasBackoff
  <2>1. p = NextIteration(c)
    BY <1>5 DEF Handled
  <2>2. Good(p) /\ p.pc = "route" /\ (Untorn(c) => Whole(p))
    BY <1>1, <1>2, <1>5, <2>1, IterationKeeps
  <2>3. Whole(q) => Untorn(c)
    BY <1>1 DEF Whole, Untorn
  <2> HIDE DEF p
  <2> QED
    BY <2>2, <2>3 DEF Keeps, p, c
<1> QED
  BY <1>3, <1>4, <1>5

\* The context of a backoff ends: the response that was to be retried is closed.
LEMMA BackoffKeeps ==
  ASSUME NEW q, Good(q), q.pc = "backoff"
  PROVE  /\ Keeps(q, NextIteration(q)) /\ NextIteration(q).pc # "flight"
         /\ q.cancelled => Keeps(q, Done([q EXCEPT !.err = "ctx"]))
<1>1. /\ q \in ReqType /\ ~q.leaked /\ q.i < MaxRetries
      /\ q.res = NoResponse \/ q.res.body = "closed"
  BY DEF Good
<1>2. q.res.body # "open"
  BY <1>1 DEF NoResponse
<1>3. Keeps(q, NextIteration(q)) /\ NextIteration(q).pc # "flight"
  BY <1>1, <1>2, IterationKeeps DEF Keeps, Whole
<1> DEFINE p == Done([q EXCEPT !.err = "ctx"])
<1>4. ASSUME q.cancelled PROVE Keeps(q, p)
  <2>1. /\ p \in ReqType /\ p.pc = "done" /\ p.err = "ctx" /\ p.leaked = q.leaked
        /\ p.torn = q.torn /\ p.buffer = q.buffer /\ p.res = q.res /\ p.cancelled = q.cancelled
    BY <1>1 DEF Done, ReqType, ReqPcs
  <2> HIDE DEF p
  <2>2. Good(p)
    BY <1>1, <1>4, <2>1 DEF Good, Between, Outcome
  <2>3. Whole(q) => Whole(p)
    BY <2>1 DEF Whole, Untorn
  <2> QED
    BY <2>2, <2>3 DEF Keeps
<1> QED
  BY <1>3, <1>4

\* the seed fallback is sent,
LEMMA SeedSendKeeps ==
  ASSUME NEW q, Good(q), q.pc = "seed"
  PROVE  Keeps(q, Send(SeedReset(q), "seedflight"))
<1> DEFINE b == SeedReset(q)
           p == Send(b, "seedflight")
<1>1. q \in ReqType /\ ~q.leaked /\ q.res.body # "open"
  BY DEF Good, Between
<1>2. /\ b \in ReqType /\ b.leaked = q.leaked /\ b.res = q.res
      /\ b.torn = q.torn /\ b.buffer = q.buffer /\ b.i = q.i
  BY <1>1, ResetEffect DEF SeedReset
<1>3. ~DisableRetry => b.body = b.buffer
  BY <1>1, ResetEffect DEF SeedReset, HasGetBody
<1> HIDE DEF b
<1>4. /\ p \in ReqType /\ p.pc = "seedflight" /\ p.res = b.res /\ p.leaked = b.leaked
      /\ p.buffer = b.buffer
      /\ ~b.torn /\ b.body = "fresh" => ~p.torn
  BY <1>2, SendEffect DEF ReqPcs
<1> HIDE DEF p
<1>5. Good(p)
  BY <1>1, <1>2, <1>4 DEF Good
<1>6. ~DisableRetry /\ Whole(q) => Whole(p)
  BY <1>2, <1>3, <1>4 DEF Whole, Untorn
<1> QED
  BY <1>5, <1>6 DEF Keeps, p, b

\* the context of the request is cancelled.
LEMMA CancelKeeps ==
  ASSUME NEW q, Good(q)
  PROVE  Keeps(q, [q EXCEPT !.cancelled = TRUE])
<1> DEFINE p == [q EXCEPT !.cancelled = TRUE]
<1>1. q \in ReqType
  BY DEF Good
<1>2. /\ p \in ReqType /\ p.pc = q.pc /\ p.leaked = q.leaked /\ p.res = q.res
      /\ p.torn = q.torn /\ p.buffer = q.buffer /\ p.i = q.i /\ p.body = q.body /\ p.cancelled
      /\ p.err = q.err /\ p.trips = q.trips
  BY <1>1 DEF ReqType
<1> HIDE DEF p
<1>3. Outcome(q) => Outcome(p)
  BY <1>2 DEF Outcome
<1>4. Good(p)
  BY <1>2, <1>3 DEF Good
<1>5. Whole(q) => Whole(p)
  BY <1>2 DEF Whole, Untorn
<1> QED
  BY <1>4, <1>5 DEF Keeps, p
ReqInv ==
  /\ req \in [Reqs -> ReqType]
  /\ \A r \in Reqs : Good(req[r])
  /\ ~DisableRetry => \A r \in Reqs : Whole(req[r])

\* A step of one request leaves the others alone.
LEMMA UpdateInv ==
  ASSUME ReqInv, NEW r \in Reqs, NEW p, Keeps(req[r], p), Update(r, p)
  PROVE  ReqInv' /\ req'[r] = p /\ \A s \in Reqs : s # r => req'[s] = req[s]
<1>1. req \in [Reqs -> ReqType] /\ req' = [req EXCEPT ![r] = p]
  BY DEF ReqInv, Update
<1>2. p \in ReqType
  BY DEF Keeps, Good
<1>3. req' \in [Reqs -> ReqType] /\ req'[r] = p /\ \A s \in Reqs : s # r => req'[s] = req[s]
  BY <1>1, <1>2
<1>4. \A s \in Reqs : Good(req'[s])
  BY <1>3 DEF ReqInv, Keeps
<1>5. ~DisableRetry => \A s \in Reqs : Whole(req'[s])
  BY <1>3 DEF ReqInv, Keeps
<1> QED
  BY <1>3, <1>4, <1>5 DEF ReqInv

\* A step of one request, and what it does to the set in flight.
LEMMA RequestEffect ==
  ASSUME ReqInv, NEW r \in Reqs, NEW p, Keeps(req[r], p), Update(r, p)
  PROVE  /\ ReqInv'
         /\ req[r].pc # "flight" /\ p.pc = "flight" =>
              r \notin InFlight /\ InFlight' = InFlight \cup {r}
         /\ req[r].pc = "flight" /\ p.pc # "flight" =>
              r \in InFlight /\ InFlight' = InFlight \ {r}
         /\ req[r].pc # "flight" /\ p.pc # "flight" => InFlight' = InFlight
<1>1. ReqInv' /\ req'[r] = p /\ \A s \in Reqs : s # r => req'[s] = req[s]
  BY UpdateInv
<1> QED
  BY <1>1 DEF InFlight

\* Sending an attempt adds the request to those in flight,
LEMMA RouteFoundEffect ==
  ASSUME ReqInv, NEW r \in Reqs, RouteFound(r)
  PROVE  ReqInv' /\ r \notin InFlight /\ InFlight' = InFlight \cup {r}
<1> DEFINE q == req[r]
<1>1. Good(q) /\ q \in ReqType /\ q.pc = "route" /\ Update(r, Send(ResetBody(q), "flight"))
  BY DEF ReqInv, RouteFound
<1>2. ResetBody(q) \in ReqType
  BY <1>1, ResetEffect DEF ResetBody
<1>3. Keeps(q, Send(ResetBody(q), "flight")) /\ Send(ResetBody(q), "flight").pc = "flight"
  BY <1>1, <1>2, RouteFoundKeeps, SendEffect DEF ReqPcs
<1> QED
  BY <1>1, <1>3, RequestEffect

\* its return removes it,
LEMMA RoundTripEffect ==
  ASSUME ReqInv, NEW r \in Reqs, RoundTrip(r)
  PROVE  ReqInv' /\ r \in InFlight /\ InFlight' = InFlight \ {r}
<1> DEFINE q == req[r]
<1>1. Good(q) /\ q \in ReqType /\ q.pc = "flight"
  BY DEF ReqInv, RoundTrip
<1>2. PICK a \in Answers(q) : Update(r, [a EXCEPT !.pc = "handle"])
  BY DEF RoundTrip
<1>3. a \in ReqType
  BY <1>1, AnswersEffect DEF Between
<1>4. [a EXCEPT !.pc = "handle"].pc = "handle"
  BY <1>3 DEF ReqType
<1>5. Keeps(q, [a EXCEPT !.pc = "handle"])
  BY <1>1, AnswerKeeps DEF Between
<1> QED
  BY <1>1, <1>2, <1>4, <1>5, RequestEffect

\* The steps of a request that neither begin nor end a counted round trip.
Uncounted(r) ==
  \/ Call(r) \/ CallTruncated(r) \/ RouteExhausted(r) \/ RouteFails(r)
  \/ Handle(r) \/ Backoff(r) \/ SeedSend(r) \/ SeedFails(r) \/ SeedRoundTrip(r) \/ CancelRequest(r)

\* and no other step does either.
LEMMA UncountedEffect ==
  ASSUME ReqInv, NEW r \in Reqs, Uncounted(r)
  PROVE  ReqInv' /\ InFlight' = InFlight
<1> DEFINE q == req[r]
<1>1. Good(q) /\ q \in ReqType
  BY DEF ReqInv
<1>3. CASE Call(r) \/ CallTruncated(r)
  <2>1. PICK p : /\ \/ p = [q EXCEPT !.pc = "route"]
                    \/ p = [q EXCEPT !.pc = "route", !.body = "short", !.buffer = "short"]
                 /\ q.pc = "idle" /\ Update(r, p)
    BY <1>3 DEF Call, CallTruncated
  <2>2. Keeps(q, p) /\ p.pc = "route"
    BY <1>1, <2>1, CallKeeps
  <2> QED
    BY <2>1, <2>2, RequestEffect
<1>4. CASE RouteExhausted(r)
  <2>1. q.pc = "route"
    BY <1>4 DEF RouteExhausted
  <2>2. PICK pc \in {"seed", "done"} : Update(r, [Exhausted(q) EXCEPT !.pc = pc])
    BY <1>4 DEF RouteExhausted
  <2>3. Forget(q) \in ReqType
    BY <1>1, <2>1, ForgetEffect DEF Good, Between
  <2>4. /\ [Exhausted(q) EXCEPT !.pc = pc] = [Forget(q) EXCEPT !.pc = pc, !.err = "noconn"]
        /\ [Forget(q) EXCEPT !.pc = pc, !.err = "noconn"].pc = pc
    BY <2>3 DEF Exhausted, ReqType
  <2>5. Keeps(q, [Forget(q) EXCEPT !.pc = pc, !.err = "noconn"])
    BY <1>1, <2>1, FailKeeps DEF Between
  <2> QED
    BY <2>1, <2>2, <2>4, <2>5, RequestEffect
<1>5. CASE RouteFails(r) \/ SeedFails(r)
  <2>1. q.pc \in {"route", "seed"}
    BY <1>5 DEF RouteFails, SeedFails
  <2>2. PICK err \in {"noconn", "other", "ctx"} : Update(r, Fail(q, err))
    BY <1>5 DEF RouteFails, SeedFails
  <2>3. Forget(q) \in ReqType
    BY <1>1, <2>1, ForgetEffect DEF Good, Between
  <2>4. Fail(q, err).pc = "done"
    BY <2>3 DEF Fail, ReqType
  <2>5. Keeps(q, Fail(q, err))
    BY <1>1, <2>1, FailKeeps DEF Between, Fail
  <2> QED
    BY <2>1, <2>2, <2>4, <2>5, RequestEffect
<1>6. CASE Handle(r)
  <2>1. q.pc = "handle" /\ Update(r, Handled(CloseBody(q)))
    BY <1>6 DEF Handle, Handled
  <2> QED
    BY <1>1, <2>1, HandleKeeps, RequestEffect
<1>7. CASE Backoff(r)
  <2>1. /\ q.pc = "backoff"
        /\ \/ Update(r, NextIteration(q))
           \/ q.cancelled /\ Update(r, Done([q EXCEPT !.err = "ctx"]))
    BY <1>7 DEF Backoff
  <2>2. Done([q EXCEPT !.err = "ctx"]).pc = "done"
    BY <1>1 DEF Done, ReqType
  <2> QED
    BY <1>1, <2>1, <2>2, BackoffKeeps, RequestEffect
<1>8. CASE SeedSend(r)
  <2>1. q.pc = "seed" /\ Update(r, Send(SeedReset(q), "seedflight"))
    BY <1>8 DEF SeedSend
  <2>2. SeedReset(q) \in ReqType
    BY <1>1, ResetEffect DEF SeedReset
  <2>3. Send(SeedReset(q), "seedflight").pc = "seedflight"
    BY <2>2, SendEffect DEF ReqPcs
  <2> QED
    BY <1>1, <2>1, <2>3, SeedSendKeeps, RequestEffect
<1>9. CASE SeedRoundTrip(r)
  <2>1. q.pc = "seedflight"
    BY <1>9 DEF SeedRoundTrip
  <2>2. PICK a \in Answers(q) : Update(r, [a EXCEPT !.pc = "done"])
    BY <1>9 DEF SeedRoundTrip
  <2>3. a \in ReqType
    BY <1>1, <2>1, AnswersEffect DEF Between
  <2>4. [a EXCEPT !.pc = "done"].pc = "done"
    BY <2>3 DEF ReqType
  <2>5. Keeps(q, [a EXCEPT !.pc = "done"])
    BY <1>1, <2>1, AnswerKeeps DEF Between
  <2> QED
    BY <2>1, <2>2, <2>4, <2>5, RequestEffect
<1>10. CASE CancelRequest(r)
  <2>1. Update(r, [q EXCEPT !.cancelled = TRUE])
    BY <1>10 DEF CancelRequest
  <2>2. ReqInv' /\ req'[r] = [q EXCEPT !.cancelled = TRUE]
        /\ \A s \in Reqs : s # r => req'[s] = req[s]
    BY <1>1, <2>1, CancelKeeps, UpdateInv
  <2>3. [q EXCEPT !.cancelled = TRUE].pc = q.pc
    BY <1>1 DEF ReqType
  <2> QED
    BY <2>2, <2>3 DEF InFlight
<1> QED
  BY <1>3, <1>4, <1>5, <1>6, <1>7, <1>8, <1>9, <1>10 DEF Uncounted

-----------------------------------------------------------------------------
(* Requests in flight *)

\* The counters are exact, of a set that stays finite.
Counted == IsFiniteSet(InFlight) /\ InFlightExact

\* The counter follows a request that is sent,
LEMMA CountAdd ==
  ASSUME CongestionInv, Counted, NEW r, r \notin InFlight, InFlight' = InFlight \cup {r},
         AddInFlight, UNCHANGED <<pool, skewed>>
  PROVE  Counted'
<1>1. /\ IsFiniteSet(InFlight') /\ Cardinality(InFlight') = Cardinality(InFlight) + 1
      /\ Cardinality(InFlight) \in Nat
  BY FS_AddElement, FS_CardinalityType DEF Counted
<1>2. /\ inFlight \in [{"named", "default"} -> Int] /\ GetForScoring \in {"named", "default"}
      /\ GetForScoring' = GetForScoring
  BY CongestionTyping DEF CongestionInv, GetForScoring
<1>3. /\ inFlight'[GetForScoring] = inFlight[GetForScoring] + 1
      /\ \A p \in {"named", "default"} : p # GetForScoring => inFlight'[p] = inFlight[p]
  BY <1>2 DEF AddInFlight
<1> QED
  BY <1>1, <1>2, <1>3 DEF Counted, InFlightExact

\* and one that returns.
LEMMA CountRelease ==
  ASSUME CongestionInv, Counted, NEW r \in InFlight, InFlight' = InFlight \ {r},
         ReleaseInFlight, UNCHANGED <<pool, skewed>>
  PROVE  Counted'
<1>1. /\ IsFiniteSet(InFlight') /\ Cardinality(InFlight') = Cardinality(InFlight) - 1
      /\ Cardinality(InFlight) \in Nat
  BY FS_RemoveElement, FS_CardinalityType DEF Counted
<1>2. /\ inFlight \in [{"named", "default"} -> Int] /\ GetForScoring \in {"named", "default"}
      /\ GetForScoring' = GetForScoring
  BY CongestionTyping DEF CongestionInv, GetForScoring
<1>3. /\ inFlight'[GetForScoring] = inFlight[GetForScoring] - 1
      /\ \A p \in {"named", "default"} : p # GetForScoring => inFlight'[p] = inFlight[p]
  BY <1>2 DEF ReleaseInFlight
<1> QED
  BY <1>1, <1>2, <1>3 DEF Counted, InFlightExact

\* An entry that stays keeps the counters exact.
LEMMA CountKept ==
  ASSUME Counted, InFlight' = InFlight, pool'.exists = pool.exists,
         inFlight' = inFlight, skewed' = FALSE => skewed = FALSE
  PROVE  Counted'
<1>1. GetForScoring' = GetForScoring
  BY DEF GetForScoring
<1> QED
  BY <1>1 DEF Counted, InFlightExact

\* An entry that comes or goes while nothing is in flight finds both at 0.
LEMMA CountEmpty ==
  ASSUME Counted, InFlight' = InFlight, skewed' = FALSE => skewed = FALSE /\ InFlight = {},
         \A p \in {"named", "default"} : inFlight'[p] = inFlight[p] \/ inFlight'[p] = 0
  PROVE  Counted'
<1>1. Cardinality({}) = 0
  BY FS_EmptySet
<1> QED
  BY <1>1 DEF Counted, InFlightExact

\* A step that creates or removes the entry marks the counts it tears apart.
LEMMA CountMarked ==
  ASSUME CongestionInv, Counted, skewed \in BOOLEAN, UNCHANGED req, Mark,
         PollReports \/ PollRemoves \/ (\E s \in Sizes : SizerBegins(s))
  PROVE  Counted'
<1>1. InFlight' = InFlight
  BY DEF InFlight
<1>2. skewed' = FALSE => skewed = FALSE /\ (InFlight = {} \/ pool'.exists = pool.exists)
  BY DEF Mark
<1>3. inFlight \in [{"named", "default"} -> Int]
  BY CongestionTyping DEF CongestionInv
<1>4. CASE PollReports \/ \E s \in Sizes : SizerBegins(s)
  <2>1. inFlight' = inFlight
    BY <1>4 DEF PollReports, SizerBegins, LoadOrStore
  <2>2. CASE pool'.exists = pool.exists
    BY <1>1, <1>2, <2>1, <2>2, CountKept
  <2>3. CASE pool'.exists # pool.exists
    BY <1>1, <1>2, <2>1, <2>3, CountEmpty
  <2> QED
    BY <2>2, <2>3
<1>5. CASE PollRemoves
  <2>1. pool.exists /\ pool' = NoPool /\ inFlight' = [inFlight EXCEPT !["named"] = 0]
    BY <1>5 DEF PollRemoves
  <2>2. pool'.exists # pool.exists
    BY <2>1 DEF NoPool, Fresh
  <2>3. \A p \in {"named", "default"} : inFlight'[p] = inFlight[p] \/ inFlight'[p] = 0
    BY <1>3, <2>1
  <2> QED
    BY <1>1, <1>2, <2>2, <2>3, CountEmpty
<1> QED
  BY <1>4, <1>5

\* The later steps of the writers, and a 429, keep the entry.
LEMMA EntryKept ==
  ASSUME CongestionInv,
         \/ PollStores \/ (\E s \in Signals : PollUpdates(s))
         \/ SizerStores \/ SizerUpdates \/ TooManyRequests
  PROVE  pool'.exists = pool.exists
<1>1. pool \in PoolType /\ sizer \in SizerType
  BY CongestionTyping DEF CongestionInv
<1>2. CASE PollStores \/ SizerStores
  BY <1>1, <1>2 DEF PollStores, SizerStores, PoolType
<1>3. CASE \E s \in Signals : PollUpdates(s)
  <2>1. PICK s \in Signals : PollUpdates(s)
    BY <1>3
  <2>2. pool' = ApplyPoolAIMD(pool, s) /\ Bounded(pool)
    BY <2>1 DEF PollUpdates, CongestionInv, WriterInv, WindowInv
  <2> QED
    BY <1>1, <2>2, AIMDEffect
<1>4. CASE SizerUpdates
  <2>1. /\ sizer.size \in Sizes
        /\ pool' = IF sizer.orphan THEN pool ELSE SetCeiling(pool, sizer.size)
    BY <1>4 DEF SizerUpdates, CongestionInv, WriterInv
  <2> QED
    BY <1>1, <2>1, SetCeilingEffect
<1>5. CASE TooManyRequests
  BY <1>1, <1>5 DEF TooManyRequests, Halve, PoolType
<1> QED
  BY <1>2, <1>3, <1>4, <1>5

-----------------------------------------------------------------------------
(* The composed specification *)

SignalType ==
  /\ discoveryNeeded \in BOOLEAN /\ owed \in {"none", "owed", "missed"}
  /\ skewed \in BOOLEAN
  /\ events \in 0 .. MaxEvents

\* The inductive invariant.
Inv == FlightInv /\ CongestionInv /\ ReqInv /\ Counted /\ SignalType

\* The four invariants only speak of their own variables.
LEMMA FlightStutter == FlightInv /\ UNCHANGED flightVars => FlightInv'
  BY DEF FlightInv, flightVars, FlightTypeOK, FlightSafe, Running, Waiting, ResultIsOwn

\* The same for the congestion state,
LEMMA CongestionStutter == CongestionInv /\ UNCHANGED congestionVars => CongestionInv'
  BY DEF CongestionInv, congestionVars, CongestionTypeOK, WriterInv, WindowInv, Unstored,
         Bounded

\* for the requests
LEMMA RequestStutter == ReqInv /\ UNCHANGED req => ReqInv' /\ InFlight' = InFlight
  BY DEF ReqInv, InFlight

\* and for the counts.
LEMMA CountStutter ==
  ASSUME Counted, InFlight' = InFlight, UNCHANGED <<congestionVars, skewed>>
  PROVE  Counted'
  BY CountKept DEF congestionVars

\* The number of events stays within its bound.
LEMMA SpendType == ASSUME events \in 0 .. MaxEvents, Spend PROVE events' \in 0 .. MaxEvents
  BY EventsAssumption DEF Spend

\* The invariant holds in the initial state.
LEMMA InitInv == Init => Inv
<1> SUFFICES ASSUME Init PROVE Inv
  OBVIOUS
<1>1. FlightInv /\ CongestionInv
  BY FlightInitInv, CongestionInitInv DEF Init
<1>2. /\ NewReq \in ReqType /\ NewReq.pc = "idle" /\ NewReq.i = 0 /\ ~NewReq.leaked
      /\ NewReq.res = NoResponse /\ ~NewReq.torn /\ NewReq.body = NewReq.buffer
  <2>1. NoResponse \in ResType
    BY DEF NoResponse, ResType
  <2>2. 0 \in 0 .. MaxRetries
    BY RetriesAssumption
  <2> QED
    BY <2>1, <2>2 DEF NewReq, ReqType, ReqPcs
<1>3. Good(NewReq) /\ Whole(NewReq)
  BY <1>2 DEF Good, Whole, Untorn, NoResponse
<1>4. ReqInv
  BY <1>2, <1>3 DEF Init, ReqInv
<1>5. InFlight = {}
  BY <1>2 DEF Init, InFlight
<1>6. Counted
  BY <1>5, FS_EmptySet DEF Init, CongestionInit, Counted, InFlightExact
<1>7. SignalType
  <2>1. events \in 0 .. MaxEvents
    BY EventsAssumption DEF Init
  <2> QED
    BY <2>1, Zenon DEF Init, SignalType
<1> QED
  BY <1>1, <1>4, <1>6, <1>7 DEF Inv

\* The steps of stream.
LEMMA RequestStepInv ==
  ASSUME Inv, NEW r \in Reqs, RequestStep(r)
  PROVE  Inv'
<1> USE DEF Inv
<1>1. FlightInv'
  <2>1. UNCHANGED flightVars
    BY DEF RequestStep, Call, CallTruncated, RouteFound, RouteExhausted, RouteFails, RoundTrip, Handle,
           Backoff, SeedSend, SeedFails, SeedRoundTrip, Local
  <2> QED
    BY <2>1, FlightStutter
<1>2. SignalType' /\ skewed' = skewed
  <2>1. CASE Local
    BY <2>1 DEF Local, SignalType
  <2>2. CASE SeedRoundTrip(r)
    <3>1. discoveryNeeded' \in BOOLEAN
      BY <2>2 DEF SeedRoundTrip, SignalType, SeedSignals
    <3> QED
      BY <2>2, <3>1 DEF SeedRoundTrip, SignalType
  <2>3. CASE CallTruncated(r)
    BY <2>3, SpendType DEF CallTruncated, SignalType
  <2> QED
    BY <2>1, <2>2, <2>3 DEF RequestStep, Call, RouteFound, RouteExhausted, RouteFails, RoundTrip,
       Handle, Backoff, SeedSend, SeedFails
<1>3. CASE RouteFound(r)
  <2>1. AddInFlight /\ UNCHANGED <<pool, poller, sizer>>
    BY <1>3 DEF RouteFound
  <2>2. ReqInv' /\ Counted'
    BY <1>2, <1>3, <2>1, RouteFoundEffect, CountAdd
  <2> QED
    BY <1>1, <1>2, <2>1, <2>2, CountingInv
<1>4. CASE RoundTrip(r)
  <2>1. ReleaseInFlight /\ UNCHANGED <<pool, poller, sizer>>
    BY <1>4 DEF RoundTrip, Releases
  <2>2. ReqInv' /\ Counted'
    BY <1>2, <1>4, <2>1, RoundTripEffect, CountRelease
  <2> QED
    BY <1>1, <1>2, <2>1, <2>2, CountingInv
<1>5. CASE Handle(r)
  <2>1. /\ TooManyRequests \/ UNCHANGED pool
        /\ UNCHANGED <<inFlight, poller, sizer>>
    BY <1>5 DEF Handle
  <2>2. ReqInv' /\ InFlight' = InFlight
    BY <1>5, UncountedEffect DEF Uncounted
  <2>3. CongestionInv'
    BY <2>1, TooManyRequestsInv, CountingInv
  <2>4. pool'.exists = pool.exists
    BY <2>1, EntryKept
  <2>5. Counted'
    BY <1>2, <2>1, <2>2, <2>4, CountKept
  <2> QED
    BY <1>1, <1>2, <2>2, <2>3, <2>5
<1>6. CASE \/ Call(r) \/ CallTruncated(r) \/ RouteExhausted(r) \/ RouteFails(r) \/ Backoff(r)
           \/ SeedSend(r) \/ SeedFails(r) \/ SeedRoundTrip(r)
  <2>1. UNCHANGED congestionVars
    BY <1>6 DEF Call, CallTruncated, RouteExhausted, RouteFails, Backoff, SeedSend, SeedFails,
               SeedRoundTrip
  <2>2. ReqInv' /\ InFlight' = InFlight
    BY <1>6, UncountedEffect DEF Uncounted
  <2>3. Counted'
    BY <1>2, <2>1, <2>2, CountStutter
  <2> QED
    BY <1>1, <1>2, <2>1, <2>2, <2>3, CongestionStutter
<1> QED
  BY <1>3, <1>4, <1>5, <1>6 DEF RequestStep

\* The steps of the discovery loop and of the callers of DiscoverNodes.
LEMMA DiscoveryStepInv ==
  ASSUME Inv,
         \/ (\E due \in BOOLEAN : LoopWake(due)) \/ (\E k \in Users : UserDiscovers(k))
         \/ (\E k \in Callers : ContextEnds(k)) \/ (\E k \in Callers : CallerStep(k))
  PROVE  Inv'
<1> USE DEF Inv
<1>1. UNCHANGED <<congestionVars, req, skewed>>
  BY DEF LoopWake, UserDiscovers, ContextEnds, CallerStep, Quietly, requestVars
<1>2. CongestionInv' /\ ReqInv' /\ Counted'
  BY <1>1, CongestionStutter, RequestStutter, CountStutter
<1>3. SignalType'
  <2>1. \A unpaid \in {"none", "owed", "missed"} :
          StartPays(unpaid) => owed' \in {"none", "owed", "missed"}
    BY DEF StartPays
  <2>2. ASSUME NEW due \in BOOLEAN, LoopWake(due) PROVE SignalType'
    <3>1. (IF discoveryNeeded /\ owed = "owed" THEN "missed" ELSE owed)
            \in {"none", "owed", "missed"}
      BY DEF SignalType
    <3> QED
      BY <1>1, <2>1, <2>2, <3>1 DEF LoopWake, SignalType
  <2>3. CASE \E k \in Users : UserDiscovers(k)
    BY <1>1, <2>1, <2>3, SpendType DEF UserDiscovers, SignalType
  <2>4. CASE Quietly
    BY <2>4 DEF Quietly, requestVars, SignalType
  <2> QED
    BY <2>2, <2>3, <2>4 DEF ContextEnds, CallerStep
<1>4. FlightInv'
  <2>1. ASSUME NEW due \in BOOLEAN, LoopWake(due) PROVE FlightInv'
    <3>1. TryDiscoverNodes /\ Loop \in Callers
      BY <2>1 DEF LoopWake, Callers
    <3>2. CASE inProgress
      BY <3>1, <3>2, FlightStutter DEF TryDiscoverNodes, flightVars
    <3>3. CASE ~inProgress
      BY <3>1, <3>3, StartInv DEF TryDiscoverNodes
    <3> QED
      BY <3>2, <3>3
  <2>2. ASSUME NEW k \in Users, UserDiscovers(k) PROVE FlightInv'
    <3>1. DiscoverNodes(k) /\ k \in Callers
      BY <2>2 DEF UserDiscovers, Callers
    <3> QED
      BY <3>1, StartInv, ParkInv DEF DiscoverNodes
  <2>3. ASSUME NEW k \in Callers, ContextEnds(k) PROVE FlightInv'
    BY <2>3, CancelInv DEF ContextEnds
  <2>4. ASSUME NEW k \in Callers, CallerStep(k) PROVE FlightInv'
    BY <2>4, AfterFuncInv, WakeInv, FinishInv, EndCallInv DEF CallerStep, FlightStep
  <2> QED
    BY <2>1, <2>2, <2>3, <2>4
<1> QED
  BY <1>2, <1>3, <1>4

\* The steps of the poller and of the sizer.
LEMMA CongestionStepInv ==
  ASSUME Inv, Poll \/ Remove \/ Size \/ GoesOn
  PROVE  Inv'
<1> USE DEF Inv
<1>1. UNCHANGED <<flightVars, req, discoveryNeeded, owed>>
  BY DEF Poll, Remove, Size, GoesOn, Elsewhere, requestVars
<1>2. FlightInv' /\ ReqInv' /\ InFlight' = InFlight
  BY <1>1, FlightStutter, RequestStutter
<1>3. CASE Poll \/ Remove \/ Size
  <2>1. /\ Spend /\ Mark
        /\ PollReports \/ PollRemoves \/ (\E s \in Sizes : SizerBegins(s))
    BY <1>3 DEF Poll, Remove, Size
  <2>2. SignalType'
    BY <1>1, <2>1, SpendType DEF SignalType, Mark
  <2>3. CongestionInv'
    BY <2>1, PollReportsInv, PollRemovesInv, SizerBeginsInv
  <2>4. Counted'
    BY <1>1, <2>1, CountMarked DEF SignalType
  <2> QED
    BY <1>2, <2>2, <2>3, <2>4
<1>4. CASE GoesOn
  <2>1. /\ PollStores \/ (\E s \in Signals : PollUpdates(s)) \/ SizerStores \/ SizerUpdates
        /\ UNCHANGED <<skewed, events>>
    BY <1>4 DEF GoesOn, requestVars
  <2>2. CongestionInv'
    BY <2>1, PollStoresInv, PollUpdatesInv, SizerStoresInv, SizerUpdatesInv
  <2>3. inFlight' = inFlight
    BY <2>1 DEF PollStores, PollUpdates, SizerStores, SizerUpdates
  <2>4. Counted'
    BY <1>2, <2>1, <2>3, EntryKept, CountKept
  <2>5. SignalType'
    BY <1>1, <2>1 DEF SignalType
  <2> QED
    BY <1>2, <2>2, <2>4, <2>5
<1> QED
  BY <1>3, <1>4

\* Every step of requests, callers, poller and thread-pool discovery keeps it.
LEMMA NextInv == Inv /\ [Next]_vars => Inv'
<1> SUFFICES ASSUME Inv, [Next]_vars PROVE Inv'
  OBVIOUS
<1>1. ASSUME NEW r \in Reqs, RequestStep(r) PROVE Inv'
  BY <1>1, RequestStepInv
<1>2. ASSUME NEW r \in Reqs, CancelRequest(r) PROVE Inv'
  <2>1. UNCHANGED <<flightVars, congestionVars, discoveryNeeded, owed, skewed>> /\ Spend
    BY <1>2 DEF CancelRequest
  <2>2. ReqInv' /\ InFlight' = InFlight
    BY <1>2, UncountedEffect DEF Inv, Uncounted
  <2>3. SignalType'
    BY <2>1, SpendType DEF Inv, SignalType
  <2> QED
    BY <2>1, <2>2, <2>3, FlightStutter, CongestionStutter, CountStutter DEF Inv
<1>3. CASE \/ (\E due \in BOOLEAN : LoopWake(due)) \/ (\E k \in Users : UserDiscovers(k))
           \/ (\E k \in Callers : ContextEnds(k)) \/ (\E k \in Callers : CallerStep(k))
  BY <1>3, DiscoveryStepInv
<1>4. CASE Poll \/ Remove \/ Size \/ GoesOn
  BY <1>4, CongestionStepInv
<1>5. CASE UNCHANGED vars
  <2>1. UNCHANGED <<flightVars, congestionVars, req, discoveryNeeded, owed, skewed, events>>
    BY <1>5 DEF vars, requestVars
  <2> QED
    BY <2>1, FlightStutter, CongestionStutter, RequestStutter, CountStutter
    DEF Inv, SignalType
<1> QED
  BY <1>1, <1>2, <1>3, <1>4, <1>5 DEF Next

\* The invariant holds throughout.
LEMMA AlwaysInv == Spec => []Inv
  BY InitInv, NextInv, PTL DEF Spec

-----------------------------------------------------------------------------
(* Theorems *)

\* Every variable of the request path, of the single flight and of the
\* congestion state keeps its type.
THEOREM TypeCorrect == Spec => []TypeOK
<1>1. Inv => TypeOK
  BY DEF Inv, FlightInv, CongestionInv, ReqInv, SignalType, TypeOK, ReqType, ResType
<1> QED
  BY <1>1, AlwaysInv, PTL

\* At most one discovery runs whatever the users and the loop do, and no waiter
\* of DiscoverNodes is left without something that will wake it: the deferred
\* broadcast of the running discovery or the AfterFunc of its own context.
THEOREM OneDiscovery == Spec => []FlightSafe
<1>1. Inv => FlightSafe
  BY DEF Inv, FlightInv
<1> QED
  BY <1>1, AlwaysInv, PTL

\* A caller of DiscoverNodes returns the error of a context only if the context
\* is its own, and otherwise the result of a discovery that ended while it
\* waited.
THEOREM OwnResult == Spec => []ResultIsOwn
<1>1. Inv => ResultIsOwn
  BY DEF Inv, FlightInv
<1> QED
  BY <1>1, AlwaysInv, PTL

\* The congestion window of a pool stays between 1 and its ceiling in every
\* interleaving of getOrCreate, applyPoolAIMD, setMaxCwnd, removal and 429s.
THEOREM WindowBounded == Spec => []CwndBounds
<1>1. Inv => CwndBounds
  BY CongestionSafe DEF Inv
<1> QED
  BY <1>1, AlwaysInv, PTL

\* stream returns the open response of its last round trip or an error, with a
\* response only when the context ended in a backoff, and leaks no response body
\* on any path of the retry loop, of the backoff and of the seed fallback.
THEOREM ResponseReturned == Spec => []ReturnedResponse
<1>1. Inv => ReturnedResponse
  BY DEF Inv, ReqInv, Good, Outcome, ReturnedResponse
<1> QED
  BY <1>1, AlwaysInv, PTL

\* With retries enabled every attempt, the seed fallback included, sends the
\* whole request body, unless stream's own buffering of it was cut short.  (With
\* DisableRetry a stream error is retried although the body was not buffered.)
THEOREM WholeBody ==
  ASSUME ~DisableRetry
  PROVE  Spec => []BodyComplete
<1>1. Inv => BodyComplete
  <2> SUFFICES ASSUME Inv, NEW r \in Reqs PROVE req[r].torn => req[r].buffer = "short"
    BY DEF BodyComplete
  <2>1. req[r] \in ReqType /\ Whole(req[r])
    BY DEF Inv, ReqInv
  <2> QED
    BY <2>1 DEF Whole, Untorn, ReqType
<1> QED
  BY <1>1, AlwaysInv, PTL

\* The in-flight counter that scoring reads is the number of requests in flight
\* as long as the pool did not come or go under one of them.
THEOREM ExactInFlight == Spec => []InFlightExact
<1>1. Inv => InFlightExact
  BY DEF Inv, Counted
<1> QED
  BY <1>1, AlwaysInv, PTL

=============================================================================
