------------------------------ MODULE Requests ------------------------------
(***************************************************************************)
(* The request path of the OpenSearch Go client (Transport.stream): retry  *)
(* loop, request body, response body, backoff and seed fallback, together  *)
(* with what it shares with the rest of the client, the congestion state   *)
(* of the thread pool it is sent to (Congestion) and the signal to the     *)
(* discovery loop (SingleFlight).  Routing, the network and the caller's   *)
(* context answer in every way they can.                                   *)
(***************************************************************************)
EXTENDS SingleFlight, Congestion

CONSTANTS
  Reqs,                   \* requests
  MaxRetries, DisableRetry, EnableRetryOnTimeout,
  HasBackoff,             \* a RetryBackoff function is configured
  SeedFallback,           \* whether the seed pool exists and is not disabled
  CallerGetBody,          \* the caller's request has a GetBody
  DiscoveryLoop,          \* DiscoverNodesInterval > 0: the loop was started
  MaxEvents               \* bound: polls, sizings, cancellations, user discoveries,
                          \* request bodies that cannot be read to their end

ASSUME RetriesAssumption == MaxRetries \in Nat
ASSUME EventsAssumption == MaxEvents \in Nat
ASSUME SwitchAssumption ==
  /\ {DisableRetry, EnableRetryOnTimeout, HasBackoff} \subseteq BOOLEAN
  /\ {CallerGetBody, DiscoveryLoop} \subseteq BOOLEAN
  /\ SeedFallback \in (SUBSET BOOLEAN) \ {{}}   \* the configurations considered

VARIABLES
  req,               \* the calls of stream
  discoveryNeeded,   \* the signal of the request path to the discovery loop
  owed,              \* history: no discovery has started since the last seed
                     \* fallback that succeeded; missed: a wake of the loop has
                     \* consumed its signal while another discovery ran
  skewed,            \* history: the pool came or went with a request in flight
  events

requestVars == <<req, discoveryNeeded, owed, skewed, events>>
vars == <<flightVars, congestionVars, requestVars>>

Statuses == {"ok", "retryable", "busy"}       \* busy is 429
NetErrors == {"net", "timeout", "reset"}      \* reset is EOF or an HTTP/2 stream error
ReqPcs == {"idle", "route", "flight", "handle", "backoff", "seed", "seedflight", "done"}

NoResponse == [at |-> 0, status |-> "none", body |-> "none"]

\* buffer is what GetBody gives.  trips, torn and leaked are history variables:
\* round trips so far, whether one of them sent less than the whole body, and
\* whether a response was forgotten with an open body.
NewReq == [pc |-> "idle", i |-> 0, res |-> NoResponse, err |-> "nil",
           body |-> "fresh", buffer |-> "fresh", cancelled |-> FALSE,
           trips |-> 0, torn |-> FALSE, leaked |-> FALSE]

Update(r, q) == req' = [req EXCEPT ![r] = q]
Spend == events < MaxEvents /\ events' = events + 1
Local == UNCHANGED <<flightVars, discoveryNeeded, owed, skewed, events>>

-----------------------------------------------------------------------------
\* stream buffers the request body when it may have to send it again.
HasGetBody == CallerGetBody \/ ~DisableRetry

\* q without its response.
Forget(q) == [q EXCEPT !.res = NoResponse, !.leaked = @ \/ q.res.body = "open"]

\* return nil, sr, err
Fail(q, err) == [Forget(q) EXCEPT !.pc = "done", !.err = err]

\* The loop is left; only ErrNoConnections leads to the seed fallback.
Done(q) == [q EXCEPT !.pc = "done"]

\* The end of an iteration that is to be retried; the next one overwrites err.
NextIterationM(q) ==
  IF q.i <= MaxRetries THEN [q EXCEPT !.i = @ + 1, !.pc = "route", !.err = "nil"]
  ELSE Done(q)
NextIteration(q) ==
  IF q.i < MaxRetries THEN [q EXCEPT !.i = @ + 1, !.pc = "route", !.err = "nil"]
  ELSE Done(q)

\* The answer of the network: a response whose body is open, or an error.
Answered(q, status) ==
  [Forget(q) EXCEPT !.res = [at |-> q.trips, status |-> status, body |-> "open"],
                    !.err = "nil"]
Failed(q, err) == [Forget(q) EXCEPT !.err = err]
Answers(q) ==
  {Answered(q, s) : s \in Statuses}
    \cup {Failed(q, e) : e \in NetErrors \cup (IF q.cancelled THEN {"ctx"} ELSE {})}

\* A round trip reads the request body.
Send(q, pc) ==
  [q EXCEPT !.pc = pc, !.trips = @ + 1, !.torn = @ \/ q.body # "fresh", !.body = "read"]

-----------------------------------------------------------------------------
\* stream is called.
Call(r) ==
  /\ req[r].pc = "idle"
  /\ Update(r, [req[r] EXCEPT !.pc = "route"])
  /\ UNCHANGED congestionVars /\ Local

\* The caller's reader fails while stream buffers the body: the error of
\* buf.ReadFrom is dropped and what was read so far is sent.
CallTruncated(r) ==
  /\ req[r].pc = "idle" /\ ~CallerGetBody /\ HasGetBody
  /\ Spend
  /\ Update(r, [req[r] EXCEPT !.pc = "route", !.body = "short", !.buffer = "short"])
  /\ UNCHANGED <<congestionVars, flightVars, discoveryNeeded, owed, skewed>>

\* The body is reset before every attempt but the first.
ResetBodyM(q) == q
ResetBody(q) ==
  IF ~DisableRetry /\ q.i > 0 THEN [q EXCEPT !.body = q.buffer] ELSE q

\* The request is routed, its body reset, signed and sent.
RouteFound(r) ==
  /\ req[r].pc = "route"
  /\ AddInFlight
  /\ Update(r, Send(ResetBody(req[r]), "flight"))
  /\ UNCHANGED <<pool, poller, sizer>> /\ Local

\* No connection: the stale response of an earlier attempt is dropped and the
\* loop left.
ExhaustedM(q) == [q EXCEPT !.err = "noconn"]
Exhausted(q) == [Forget(q) EXCEPT !.err = "noconn"]
RouteExhausted(r) ==
  /\ req[r].pc = "route"
  /\ \E seed \in SeedFallback :
       Update(r, [Exhausted(req[r]) EXCEPT !.pc = IF seed THEN "seed" ELSE "done"])
  /\ UNCHANGED congestionVars /\ Local

\* Another error of the router, of GetBody or of the signer.
RouteFails(r) ==
  /\ req[r].pc = "route"
  /\ Update(r, Fail(req[r], "other"))
  /\ UNCHANGED congestionVars /\ Local

\* The round trip ends.
ReleasesM(q) == q.err = "nil"
Releases(q) == TRUE
RoundTrip(r) ==
  /\ req[r].pc = "flight"
  /\ \E q \in Answers(req[r]) :
       /\ IF Releases(q) THEN ReleaseInFlight ELSE UNCHANGED inFlight
       /\ Update(r, [q EXCEPT !.pc = "handle"])
  /\ UNCHANGED <<pool, poller, sizer>> /\ Local

-----------------------------------------------------------------------------
RetriesError(err) ==
  \/ err = "reset"
  \/ ~DisableRetry /\ (err = "net" \/ (err = "timeout" /\ EnableRetryOnTimeout))
RetriesStatus(status) == ~DisableRetry /\ status \in {"retryable", "busy"}
ShouldRetry(q) == RetriesError(q.err) \/ RetriesStatus(q.res.status)

\* The body of a response is closed when another attempt will follow.
CloseBody(q) ==
  IF RetriesStatus(q.res.status) /\ q.i < MaxRetries
  THEN [q EXCEPT !.res.body = "closed"] ELSE q

\* What the loop does with the outcome of an attempt.
Handle(r) ==
  /\ req[r].pc = "handle"
  /\ LET q == CloseBody(req[r])
     IN  Update(r, CASE ~ShouldRetry(q) -> Done(q)
                     [] ShouldRetry(q) /\ HasBackoff /\ q.i < MaxRetries ->
                          [q EXCEPT !.pc = "backoff"]
                     [] OTHER -> NextIteration(q))
  /\ IF req[r].res.status = "busy" THEN TooManyRequests ELSE UNCHANGED pool
  /\ UNCHANGED <<inFlight, poller, sizer>> /\ Local

\* The backoff timer fires, or the context ends first and the loop is left with
\* the response it has.
Backoff(r) ==
  /\ req[r].pc = "backoff"
  /\ \/ Update(r, NextIteration(req[r]))
     \/ req[r].cancelled /\ Update(r, Done([req[r] EXCEPT !.err = "ctx"]))
  /\ UNCHANGED congestionVars /\ Local

-----------------------------------------------------------------------------
\* performSeedFallback: a connection of the seed pool is tried once.
SeedReset(q) == IF HasGetBody THEN [q EXCEPT !.body = q.buffer] ELSE q
SeedSend(r) ==
  /\ req[r].pc = "seed" /\ ~req[r].cancelled
  /\ Update(r, Send(SeedReset(req[r]), "seedflight"))
  /\ UNCHANGED congestionVars /\ Local

\* The context has ended, the seed pool has no connection, or the request
\* cannot be prepared.
SeedFails(r) ==
  /\ req[r].pc = "seed"
  /\ \E err \in IF req[r].cancelled THEN {"ctx"} ELSE {"noconn", "other"} :
       Update(r, Fail(req[r], err))
  /\ UNCHANGED congestionVars /\ Local

\* The round trip ends; its success asks for a discovery.
SeedSignalsM(q) == FALSE
SeedSignals(q) == q.err = "nil"
SeedRoundTrip(r) ==
  /\ req[r].pc = "seedflight"
  /\ \E q \in Answers(req[r]) :
       /\ Update(r, [q EXCEPT !.pc = "done"])
       /\ discoveryNeeded' = (discoveryNeeded \/ SeedSignals(q))
       /\ owed' = IF q.err = "nil" THEN "owed" ELSE owed
  /\ UNCHANGED <<flightVars, congestionVars, skewed, events>>

-----------------------------------------------------------------------------
\* A wake of the discovery loop, if there is one: the signal is consumed, and a
\* discovery tried when there was one or the interval has passed (due).
StartPays(unpaid) == owed' = IF inProgress' /\ ~inProgress THEN "none" ELSE unpaid
LoopWake(due) ==
  /\ DiscoveryLoop /\ (discoveryNeeded \/ due)
  /\ discoveryNeeded' = FALSE
  /\ TryDiscoverNodes
  /\ StartPays(IF discoveryNeeded /\ owed = "owed" THEN "missed" ELSE owed)
  /\ UNCHANGED <<congestionVars, req, skewed, events>>

\* The program calls DiscoverNodes.
UserDiscovers(k) ==
  /\ Spend
  /\ DiscoverNodes(k) /\ StartPays(owed)
  /\ UNCHANGED <<congestionVars, req, skewed, discoveryNeeded>>

Quietly == UNCHANGED <<congestionVars, requestVars>>
ContextEnds(k) == Cancel(k) /\ Quietly
CallerStep(k) == FlightStep(k) /\ Quietly

\* The context of a request ends.
CancelRequest(r) ==
  /\ Spend
  /\ req[r].pc \notin {"idle", "done"} /\ ~req[r].cancelled
  /\ Update(r, [req[r] EXCEPT !.cancelled = TRUE])
  /\ UNCHANGED <<flightVars, congestionVars, discoveryNeeded, owed, skewed>>

\* The registry is created or emptied under the requests in flight.
InFlight == {r \in Reqs : req[r].pc = "flight"}
Mark == skewed' = (skewed \/ (InFlight # {} /\ pool'.exists # pool.exists))
Elsewhere == UNCHANGED <<flightVars, req, discoveryNeeded, owed>>
Poll == Spend /\ PollReports /\ Mark /\ Elsewhere
Remove == Spend /\ PollRemoves /\ Mark /\ Elsewhere
Size == Spend /\ (\E s \in Sizes : SizerBegins(s)) /\ Mark /\ Elsewhere
GoesOn ==
  /\ PollStores \/ (\E s \in Signals : PollUpdates(s)) \/ SizerStores \/ SizerUpdates
  /\ UNCHANGED <<flightVars, requestVars>>

RequestStep(r) ==
  \/ Call(r) \/ CallTruncated(r) \/ RouteFound(r) \/ RouteExhausted(r) \/ RouteFails(r)
  \/ RoundTrip(r) \/ Handle(r) \/ Backoff(r)
  \/ SeedSend(r) \/ SeedFails(r) \/ SeedRoundTrip(r)

Init ==
  /\ FlightInit /\ CongestionInit
  /\ req = [r \in Reqs |-> NewReq]
  /\ discoveryNeeded = FALSE /\ owed = "none" /\ skewed = FALSE /\ events = 0

Next ==
  \/ \E r \in Reqs : RequestStep(r)
  \/ \E r \in Reqs : CancelRequest(r)
  \/ \E due \in BOOLEAN : LoopWake(due)
  \/ \E k \in Users : UserDiscovers(k)
  \/ \E k \in Callers : ContextEnds(k)
  \/ \E k \in Callers : CallerStep(k)
  \/ Poll \/ Remove \/ Size \/ GoesOn

Spec == Init /\ [][Next]_vars

\* The loop wakes for a signal, goroutines that can run do, and a woken waiter
\* is not overtaken for ever by new discoveries.  That the interval passes is
\* not assumed: the signal has to do.
FairSpec ==
  /\ Spec
  /\ WF_discoveryNeeded(LoopWake(FALSE))
  /\ \A k \in Callers : WF_call(CallerStep(k))
  /\ \A k \in Users : SF_call(Wake(k) /\ ~inProgress /\ Quietly)

-----------------------------------------------------------------------------
(* Properties *)

\* The types of the variables.
TypeOK ==
  /\ FlightTypeOK /\ CongestionTypeOK
  /\ req \in [Reqs ->
       [pc : ReqPcs, i : 0 .. MaxRetries,
        res : [at : Nat, status : Statuses \cup {"none"},
               body : {"none", "open", "closed"}],
        err : {"nil", "noconn", "other", "ctx"} \cup NetErrors,
        body : {"fresh", "short", "read"}, buffer : {"fresh", "short"},
        cancelled : BOOLEAN, trips : Nat, torn : BOOLEAN, leaked : BOOLEAN]]
  /\ discoveryNeeded \in BOOLEAN /\ owed \in {"none", "owed", "missed"}
  /\ skewed \in BOOLEAN
  /\ events \in 0 .. MaxEvents

\* What a caller is given: without an error the response of the last round
\* trip, its body open; with an error nothing, save that a context of its own
\* that ends during a backoff comes with the response that was to be retried
\* (StreamUnread is about the body of that one).  No other response is left
\* behind with an open body.
ReturnedResponse ==
  \A r \in Reqs : req[r].pc = "done" =>
    LET q == req[r]
    IN  /\ ~q.leaked
        /\ q.err = "nil" => q.res.at = q.trips /\ q.res.body = "open"
        /\ q.err # "nil" /\ q.res # NoResponse => q.err = "ctx" /\ q.cancelled

\* "Stream executes the request and returns the raw [http.Response] unread. The
\* caller owns the body and must close it; Stream neither reads nor closes it"
\* (opensearchtransport.go:1302), the response that comes with the error of a
\* context cancelled during a backoff included (1311).
StreamUnread ==
  \A r \in Reqs : req[r].pc = "done" /\ req[r].res # NoResponse => req[r].res.body = "open"

\* Every round trip of a request, retries and seed fallback included, sends
\* the whole request body, unless the caller's reader failed while stream
\* buffered it, which stream does not report.
BodyComplete == \A r \in Reqs : req[r].torn => req[r].buffer = "short"

\* As long as the pool has not been created or removed under a request in
\* flight, which leaves both counters wrong for good, the counter that scoring
\* reads is the number of requests in flight and the other one is 0.
InFlightExact ==
  ~skewed => \A p \in {"named", "default"} :
    inFlight[p] = IF p = GetForScoring THEN Cardinality(InFlight) ELSE 0

\* "set DisableRetry to true to disable the retry behavior altogether"
\* (doc.go:50): a request is then sent once.
NoRetryWhenDisabled == DisableRetry => \A r \in Reqs : req[r].trips <= 1

\* A caller that waits for a discovery returns.
CallersReturn ==
  \A k \in Users : call[k].pc = "parked" ~> call[k].pc = "returned"

\* Until the client is closed, and where there is a discovery loop, a seed
\* fallback that succeeds is followed by a discovery that starts after it,
\* because of its signal alone.  The exception: the wake that consumes the
\* signal finds a discovery in progress, and tryDiscoverNodes returns at once.
Closed == call[Loop].cancelled
Rediscovers == (DiscoveryLoop /\ owed = "owed") ~> (owed # "owed" \/ Closed)
=============================================================================
