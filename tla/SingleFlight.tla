---------------------------- MODULE SingleFlight ----------------------------
(***************************************************************************)
(* The single flight of node discovery in the OpenSearch Go client: a      *)
(* caller of DiscoverNodes that finds a discovery in progress waits for    *)
(* its end or for the end of its own context; the discovery loop never     *)
(* waits (tryDiscoverNodes).  What a discovery does is in Discovery.       *)
(***************************************************************************)
EXTENDS Naturals

CONSTANTS
  Loop,         \* the discovery loop
  Users,        \* goroutines that call DiscoverNodes
  MaxCancels    \* bound: contexts that end

Callers == Users \cup {Loop}
ASSUME CallersAssumption == Loop \notin Users
ASSUME CancelsAssumption == MaxCancels \in Nat

VARIABLES
  inProgress, lastErr,   \* discoverMu
  call,                  \* the callers
  cancels

flightVars == <<inProgress, lastErr, call, cancels>>

Pcs == {"idle", "running", "parked", "woken", "returned"}
Errors == {"none", "nil", "ctx", "failed", "cancelled", "interrupted"}

\* ended is a history variable: the results of the discoveries that ended while
\* the caller waited.
Idle == [pc |-> "idle", cancelled |-> FALSE, armed |-> FALSE,
         result |-> "none", ended |-> {}]

-----------------------------------------------------------------------------
Start(k) ==
  /\ inProgress' = TRUE
  /\ call' = [call EXCEPT ![k].pc = "running"]

\* A user starts a discovery, or registers the AfterFunc of its context and
\* waits for the one in progress.
DiscoverNodes(k) ==
  /\ call[k].pc = "idle"
  /\ \/ ~inProgress /\ Start(k)
     \/ /\ inProgress
        /\ call' = [call EXCEPT ![k].pc = "parked", ![k].armed = TRUE]
        /\ UNCHANGED inProgress
  /\ UNCHANGED <<lastErr, cancels>>

\* The loop starts one, or returns at once.
TryDiscoverNodes ==
  /\ call[Loop].pc = "idle" /\ ~call[Loop].cancelled
  /\ IF inProgress THEN UNCHANGED <<inProgress, call>> ELSE Start(Loop)
  /\ UNCHANGED <<lastErr, cancels>>

\* The context of a caller ends; the loop's is the transport's, ended by Close.
Cancel(k) ==
  /\ k = Loop \/ call[k].pc \notin {"idle", "returned"}
  /\ ~call[k].cancelled
  /\ cancels < MaxCancels
  /\ cancels' = cancels + 1
  /\ call' = [call EXCEPT ![k].cancelled = TRUE]
  /\ UNCHANGED <<inProgress, lastErr>>

\* cond.Broadcast
Broadcast(cs) ==
  [k \in Callers |-> IF cs[k].pc = "parked" THEN [cs[k] EXCEPT !.pc = "woken"]
                     ELSE cs[k]]

\* What context.AfterFunc runs when the context ends.
AfterFunc(k) ==
  /\ call[k].armed /\ call[k].cancelled
  /\ call' = Broadcast([call EXCEPT ![k].armed = FALSE])
  /\ UNCHANGED <<inProgress, lastErr, cancels>>

\* What a waiter makes of the result of the discovery it waited for.
WaiterResultM(err) == err
WaiterResult(err) == IF err = "cancelled" THEN "interrupted" ELSE err

Return(k, result) ==
  call' = [call EXCEPT ![k].pc = "returned", ![k].result = result,
                       ![k].armed = FALSE]

\* A waiter has been woken and holds discoverMu again.
Wake(k) ==
  /\ call[k].pc = "woken"
  /\ \/ call[k].cancelled /\ Return(k, "ctx")
     \/ ~call[k].cancelled /\ inProgress /\ call' = [call EXCEPT ![k].pc = "parked"]
     \/ ~call[k].cancelled /\ ~inProgress /\ Return(k, WaiterResult(lastErr))
  /\ UNCHANGED <<inProgress, lastErr, cancels>>

\* A discovery ends: with a context that has ended it fails with the error of
\* the context, if it notices.
Results(k) == IF call[k].cancelled THEN {"cancelled", "nil"} ELSE {"nil", "failed"}

\* The runner returns; the loop ignores the result.
Finished(k, result, cs) ==
  [cs EXCEPT ![k] =
     IF k = Loop THEN [Idle EXCEPT !.cancelled = call[k].cancelled]
     ELSE [@ EXCEPT !.pc = "returned",
                    !.result = IF result = "cancelled" THEN "ctx" ELSE result]]

\* The waiters, each with the result added to those it could have been given.
Told(result) ==
  [j \in Callers |->
     IF call[j].pc \in {"parked", "woken"}
     THEN [call[j] EXCEPT !.ended = @ \cup {result}]
     ELSE call[j]]

\* The deferred function of doDiscoverNodes.
FinishM(k) ==
  /\ call[k].pc = "running"
  /\ inProgress' = FALSE
  /\ \E result \in Results(k) :
       /\ lastErr' = result
       /\ call' = Finished(k, result, Told(result))
  /\ UNCHANGED cancels
Finish(k) ==
  /\ call[k].pc = "running"
  /\ inProgress' = FALSE
  /\ \E result \in Results(k) :
       /\ lastErr' = result
       /\ call' = Finished(k, result, Broadcast(Told(result)))
  /\ UNCHANGED cancels

EndCall(k) ==
  /\ call[k].pc = "returned"
  /\ call' = [call EXCEPT ![k] = Idle]
  /\ UNCHANGED <<inProgress, lastErr, cancels>>

FlightInit ==
  /\ inProgress = FALSE /\ lastErr = "none" /\ cancels = 0
  /\ call = [k \in Callers |-> Idle]

\* What a caller does without anybody's help once it has called.
FlightStep(k) ==
  AfterFunc(k) \/ Wake(k) \/ Finish(k) \/ EndCall(k)

-----------------------------------------------------------------------------
(* Properties *)

FlightTypeOK ==
  /\ inProgress \in BOOLEAN /\ lastErr \in Errors /\ cancels \in 0 .. MaxCancels
  /\ call \in [Callers -> [pc : Pcs, cancelled : BOOLEAN, armed : BOOLEAN,
                           result : Errors, ended : SUBSET Errors]]

\* At most one discovery runs, inProgress says whether one does, and no waiter
\* is left behind: what will wake it is still to come, the end of a running
\* discovery and, once its context has ended, the AfterFunc.
Running(k) == call[k].pc = "running"
FlightSafe ==
  /\ inProgress <=> \E k \in Callers : Running(k)
  /\ \A j, k \in Callers : Running(j) /\ Running(k) => j = k
  /\ \A k \in Callers : call[k].pc = "parked" =>
       inProgress /\ (call[k].cancelled => call[k].armed)

\* A caller gets the error of a context only when that context is its own; a
\* waiter gets the result of a discovery that ended while it waited, or learns
\* that one of them was interrupted by the context of its runner.
ResultIsOwn ==
  \A k \in Callers : call[k].pc = "returned" =>
    LET r == call[k].result
        waited == call[k].ended
    IN  /\ r # "cancelled"
        /\ r = "ctx" => call[k].cancelled
        /\ r = "interrupted" => "cancelled" \in waited
        /\ waited # {} /\ r \notin {"ctx", "interrupted"} => r \in waited
=============================================================================
