---------------------------- MODULE BulkIndexer ----------------------------
(***************************************************************************)
(* The bulk indexer (opensearchutil/bulk_indexer.go): callers of Add, one  *)
(* worker per queue, the periodic flusher and Close share the workers'     *)
(* buffers.  A buffer is kept as the server will read it, line by line; the*)
(* server is modelled from what the bulk API makes of such lines.  A flush *)
(* holds the worker's mutex from the request to the last callback.         *)
(***************************************************************************)
EXTENDS Integers, Sequences, FiniteSets, Functions

CONSTANTS
  Items,        \* what the application adds
  Document,     \* hash of the DocumentID of an item, or NoDocument
  HasBody,      \* items whose Body is not nil
  NumWorkers,
  FlushLines,   \* FlushBytes, counted in lines
  WriteErrors,  \* encoding metadata, reading or rewinding a Body can fail
  CtxCancels,   \* the construction context can be cancelled
  NoDocument, NoItem

ASSUME BulkAssumption ==
  /\ HasBody \subseteq Items /\ NoItem \notin Items
  /\ {NumWorkers, FlushLines} \subseteq Nat \ {0}
  /\ {WriteErrors, CtxCancels} \subseteq BOOLEAN
  /\ \A i \in Items : Document[i] = NoDocument \/ Document[i] \in Int

Workers == 1 .. NumWorkers

VARIABLES
  added,      \* history: items whose Add returned nil, in channel order
  rejected,   \* items whose Add returned an error
  queue,      \* the channel of each worker
  ctxDone,    \* the construction context is cancelled
  worker,     \* pc and current item of each worker goroutine
  mu,         \* who holds worker.mu across a flush
  buf,        \* worker.buf: its lines and what the server reads in them
  torn,       \* buffers whose last line has no newline
  items,      \* worker.items
  flusher,    \* the flusher goroutine; at is the worker it looks at
  tick,       \* a tick waits in the ticker's channel
  closer,     \* the call of Close; at is the worker it drains
  result,     \* what the callbacks of an item were told
  reports,    \* how often an item was reported
  executed,   \* history: items the server executed as they were meant, as sent
  crashed     \* a goroutine panicked

queueVars == <<added, rejected, queue>>
bufVars == <<buf, torn, items>>
outVars == <<result, reports, executed, crashed>>
vars == <<queueVars, bufVars, outVars, ctxDone, worker, mu, flusher, tick, closer>>

-----------------------------------------------------------------------------
(* The server: external, as the bulk API reads its lines *)

Line(kind, i) == [kind |-> kind, item |-> i]

EmptyBuf == [lines |-> 0, ops |-> <<>>, open |-> NoItem, bad |-> FALSE]

\* One line more: a source for the open action, or an action of its own.
ServerLine(b, line) ==
  IF b.bad THEN b
  ELSE IF b.open # NoItem
  THEN [b EXCEPT !.open = NoItem,
          !.ops = Append(@, [item |-> b.open,
                    genuine |-> line = Line("body", b.open),
                    readable |-> line.kind # "junk"])]
  ELSE IF line.kind # "meta" THEN [b EXCEPT !.bad = TRUE]
  ELSE IF line.item \in HasBody THEN [b EXCEPT !.open = line.item]
  ELSE [b EXCEPT !.ops = Append(@, [item |-> line.item, genuine |-> TRUE,
                                    readable |-> TRUE])]

Accepted(b, unterminated) == ~b.bad /\ b.open = NoItem /\ ~unterminated

-----------------------------------------------------------------------------
(* Add *)

\* Go's remainder has the sign of the dividend.
Remainder(a, n) == IF a >= 0 THEN a % n ELSE -((-a) % n)

\* queueIndex, as the worker numbers it may yield: a document has one queue;
\* concurrent callers share the round robin of the other items.
QueueIndexM(i) == Workers
QueueIndex(i) ==
  IF Document[i] = NoDocument THEN Workers
  ELSE LET idx == Remainder(Document[i], NumWorkers)
       IN  {1 + IF idx < 0 THEN idx + NumWorkers ELSE idx}

Open == closer.pc = "open"

Add(i) ==
  /\ ~crashed /\ Open /\ i \notin Range(added) \cup rejected
  /\ \E w \in QueueIndex(i) :
       /\ Len(queue[w]) < NumWorkers
       /\ queue' = [queue EXCEPT ![w] = Append(@, i)]
  /\ added' = Append(added, i)
  /\ UNCHANGED <<rejected, bufVars, outVars, ctxDone, worker, mu, flusher, tick, closer>>

\* The caller's context ends before the queue takes the item.
AddCancelled(i) ==
  /\ ~crashed /\ Open /\ i \notin Range(added) \cup rejected
  /\ rejected' = rejected \cup {i}
  /\ UNCHANGED <<added, queue, bufVars, outVars, ctxDone, worker, mu, flusher, tick, closer>>

CtxCancel ==
  /\ ~crashed /\ CtxCancels /\ ~ctxDone
  /\ ctxDone' = TRUE
  /\ UNCHANGED <<queueVars, bufVars, outVars, worker, mu, flusher, tick, closer>>

-----------------------------------------------------------------------------
(* Workers *)

WorkerAt(w, pc, i) == worker' = [worker EXCEPT ![w] = [pc |-> pc, item |-> i]]

Report(i, r) ==
  /\ result' = [result EXCEPT ![i] = r]
  /\ reports' = [reports EXCEPT ![i] = @ + 1]

Receive(w) ==
  /\ ~crashed /\ worker[w].pc = "receive" /\ queue[w] # <<>>
  /\ queue' = [queue EXCEPT ![w] = Tail(@)]
  /\ WorkerAt(w, "write", Head(queue[w]))
  /\ UNCHANGED <<added, rejected, bufVars, outVars, ctxDone, mu, flusher, tick, closer>>

\* The queue is closed and empty, or the context is cancelled.
MayExitM(w) == ~Open
MayExit(w) == ctxDone \/ (~Open /\ queue[w] = <<>>)
WorkerExit(w) ==
  /\ ~crashed /\ worker[w].pc = "receive" /\ MayExit(w)
  /\ WorkerAt(w, "exited", NoItem)
  /\ UNCHANGED <<queueVars, bufVars, outVars, ctxDone, mu, flusher, tick, closer>>

WriteLine(b, line) == [ServerLine(b, line) EXCEPT !.lines = @ + 1]

\* A line written after an unterminated one becomes part of it, and the server
\* makes as little of it as before.
Written(w, line) == IF torn[w] THEN buf[w] ELSE WriteLine(buf[w], line)

FlushDue(b) == b.lines >= FlushLines

\* writeMeta and writeBody under the mutex.
WriteItem(w) ==
  LET i == worker[w].item
      meta == Written(w, Line("meta", i))
      full == IF i \in HasBody THEN WriteLine(meta, Line("body", i)) ELSE meta
  IN  /\ ~crashed /\ worker[w].pc = "write" /\ mu[w] = "free"
      /\ buf' = [buf EXCEPT ![w] = full]
      /\ torn' = [torn EXCEPT ![w] = FALSE]
      /\ items' = [items EXCEPT ![w] = Append(@, i)]
      /\ IF FlushDue(full)
         THEN mu' = [mu EXCEPT ![w] = "worker"] /\ WorkerAt(w, "flush", NoItem)
         ELSE mu' = mu /\ WorkerAt(w, "receive", NoItem)
      /\ UNCHANGED <<queueVars, outVars, ctxDone, flusher, tick, closer>>

\* writeMeta cannot encode the item, or writeBody fails before, in the middle or
\* at the end of the body, after the metadata line has been written.
WriteFails(w) ==
  LET i == worker[w].item
      meta == Written(w, Line("meta", i))
  IN  /\ ~crashed /\ worker[w].pc = "write" /\ mu[w] = "free"
      /\ WriteErrors
      /\ \/ UNCHANGED <<buf, torn>>
         \/ /\ i \in HasBody
            /\ \/ buf' = [buf EXCEPT ![w] = meta] /\ torn' = [torn EXCEPT ![w] = FALSE]
               \/ /\ buf' = [buf EXCEPT ![w] = WriteLine(meta, Line("junk", NoItem))]
                  /\ torn' = [torn EXCEPT ![w] = TRUE]
      /\ Report(i, "failed")
      /\ WorkerAt(w, "receive", NoItem)
      /\ UNCHANGED <<queueVars, items, executed, crashed, ctxDone, mu, flusher, tick, closer>>

-----------------------------------------------------------------------------
(* Flush *)

\* The call returns to whoever holds the mutex.
Resume(w) ==
  /\ worker' = IF mu[w] = "worker"
               THEN [worker EXCEPT ![w].pc = "receive"] ELSE worker
  /\ flusher' = IF mu[w] = "flusher"
                THEN [pc |-> "scan", at |-> flusher.at + 1] ELSE flusher
  /\ closer' = IF mu[w] = "closer"
               THEN [pc |-> "drain", at |-> closer.at + 1] ELSE closer

\* The operations of a request the server carries out.
Outcomes(ops) == {good \in SUBSET (1 .. Len(ops)) : \A n \in good : ops[n].readable}
InOrder(S) ==
  {e \in [1 .. Cardinality(S) -> S] : \A m, n \in DOMAIN e : m < n => e[m] < e[n]}
Executed(ops, good) ==
  {[n \in DOMAIN e |-> ops[e[n]].item] : e \in InOrder({n \in good : ops[n].genuine})}

\* The deferred reset of flush.
ClearedM(s) == s
Cleared(s) == <<>>

\* Every path out of a flush unlocks the worker.
UnlockM(w) == mu' = mu
Unlock(w) == mu' = [mu EXCEPT ![w] = "free"]

\* flush: the response is matched with the items by position.
Flush(w) ==
  LET ops == buf[w].ops
      sent == items[w]
      accepted == Accepted(buf[w], torn[w])
  IN  /\ ~crashed /\ mu[w] # "free"
      /\ \E good \in Outcomes(ops) : \E done \in Executed(ops, good) :
           \/ /\ accepted
              /\ LET told(i) == {n \in 1 .. Len(sent) : n <= Len(ops) /\ sent[n] = i}
                 IN  /\ result' = [i \in Items |->
                                     IF told(i) = {} THEN result[i]
                                     ELSE IF told(i) \subseteq good THEN "ok" ELSE "failed"]
                     /\ reports' = [i \in Items |-> reports[i] + (IF told(i) = {} THEN 0 ELSE 1)]
              /\ executed' = executed \o done
              /\ crashed' = (Len(ops) > Len(sent))
           \/ /\ executed' = IF accepted THEN executed \o done   \* handleBulkError
                             ELSE executed
              /\ result' = [i \in Items |-> IF i \in Range(sent) THEN "failed" ELSE result[i]]
              /\ reports' = [i \in Items |-> reports[i] + (IF i \in Range(sent) THEN 1 ELSE 0)]
              /\ UNCHANGED crashed
      /\ buf' = [buf EXCEPT ![w] = EmptyBuf]
      /\ torn' = [torn EXCEPT ![w] = FALSE]
      /\ items' = [items EXCEPT ![w] = Cleared(@)]
      /\ Unlock(w)
      /\ Resume(w)
      /\ UNCHANGED <<queueVars, ctxDone, tick>>

-----------------------------------------------------------------------------
(* The flusher *)

TickerFires ==
  /\ ~crashed /\ Open /\ ~tick /\ flusher.pc # "done"
  /\ tick' = TRUE
  /\ UNCHANGED <<queueVars, bufVars, outVars, ctxDone, worker, mu, flusher, closer>>

FlusherTick ==
  /\ ~crashed /\ flusher.pc = "wait" /\ tick
  /\ tick' = FALSE
  /\ flusher' = [pc |-> "scan", at |-> 1]
  /\ UNCHANGED <<queueVars, bufVars, outVars, ctxDone, worker, mu, closer>>

FlusherScan ==
  /\ ~crashed /\ flusher.pc = "scan"
  /\ \/ /\ flusher.at > NumWorkers
        /\ flusher' = [pc |-> "wait", at |-> 0]
        /\ UNCHANGED mu
     \/ /\ flusher.at \in Workers /\ mu[flusher.at] = "free"
        /\ IF buf[flusher.at].lines = 0
           THEN flusher' = [flusher EXCEPT !.at = @ + 1] /\ UNCHANGED mu
           ELSE /\ mu' = [mu EXCEPT ![flusher.at] = "flusher"]
                /\ flusher' = [flusher EXCEPT !.pc = "flush"]
  /\ UNCHANGED <<queueVars, bufVars, outVars, ctxDone, worker, tick, closer>>

\* flushCtx: the construction context, or stopFlush called by Close.
FlushStoppedM == ctxDone
FlushStopped == ctxDone \/ ~Open
FlusherExit ==
  /\ ~crashed /\ flusher.pc = "wait" /\ FlushStopped
  /\ flusher' = [pc |-> "done", at |-> 0]
  /\ UNCHANGED <<queueVars, bufVars, outVars, ctxDone, worker, mu, tick, closer>>

-----------------------------------------------------------------------------
(* Close *)

CloserAt(pc, at) == closer' = [pc |-> pc, at |-> at]

\* Stop the ticker, close the queues, stop the flusher.
Close ==
  /\ ~crashed /\ Open
  /\ CloserAt("join", 0)
  /\ UNCHANGED <<queueVars, bufVars, outVars, ctxDone, worker, mu, flusher, tick>>

\* flusherDone is closed; Close's own context may be cancelled by now.
CloseJoin ==
  /\ ~crashed /\ closer.pc = "join" /\ flusher.pc = "done"
  /\ CloserAt("wait", 0) \/ CloserAt("aborted", 0)
  /\ UNCHANGED <<queueVars, bufVars, outVars, ctxDone, worker, mu, flusher, tick>>

AllExited == \A w \in Workers : worker[w].pc = "exited"
CloseWait ==
  /\ ~crashed /\ closer.pc = "wait" /\ AllExited
  /\ CloserAt("drain", 1)
  /\ UNCHANGED <<queueVars, bufVars, outVars, ctxDone, worker, mu, flusher, tick>>

CloseDrain ==
  /\ ~crashed /\ closer.pc = "drain"
  /\ \/ /\ closer.at > NumWorkers
        /\ CloserAt("closed", 0)
        /\ UNCHANGED mu
     \/ /\ closer.at \in Workers /\ mu[closer.at] = "free"
        /\ IF buf[closer.at].lines = 0
           THEN CloserAt("drain", closer.at + 1) /\ UNCHANGED mu
           ELSE /\ mu' = [mu EXCEPT ![closer.at] = "closer"]
                /\ CloserAt("flush", closer.at)
  /\ UNCHANGED <<queueVars, bufVars, outVars, ctxDone, worker, flusher, tick>>

-----------------------------------------------------------------------------
(* Specification *)

Init ==
  /\ added = <<>> /\ rejected = {} /\ queue = [w \in Workers |-> <<>>]
  /\ ctxDone = FALSE /\ tick = FALSE /\ crashed = FALSE
  /\ worker = [w \in Workers |-> [pc |-> "receive", item |-> NoItem]]
  /\ mu = [w \in Workers |-> "free"]
  /\ buf = [w \in Workers |-> EmptyBuf] /\ torn = [w \in Workers |-> FALSE]
  /\ items = [w \in Workers |-> <<>>]
  /\ flusher = [pc |-> "wait", at |-> 0] /\ closer = [pc |-> "open", at |-> 0]
  /\ result = [i \in Items |-> "none"] /\ reports = [i \in Items |-> 0]
  /\ executed = <<>>

WorkerStep(w) == Receive(w) \/ WorkerExit(w) \/ WriteItem(w) \/ WriteFails(w)
FlusherStep == FlusherTick \/ FlusherScan \/ FlusherExit
CloserStep == CloseJoin \/ CloseWait \/ CloseDrain

\* A panic in a goroutine ends the process: no action is enabled after it.
Next ==
  \/ \E i \in Items : Add(i) \/ AddCancelled(i)
  \/ \E w \in Workers : WorkerStep(w) \/ Flush(w)
  \/ FlusherStep \/ CloserStep
  \/ CtxCancel \/ TickerFires \/ Close

Spec == Init /\ [][Next]_vars

\* Goroutines run and requests return; the application need not add or close.
FairSpec ==
  /\ Spec
  /\ \A w \in Workers : WF_vars(WorkerStep(w)) /\ WF_vars(Flush(w))
  /\ WF_vars(FlusherStep) /\ WF_vars(CloserStep)

-----------------------------------------------------------------------------
(* Properties *)

\* The variables keep their types, queues their capacity, and a mutex held
\* across a flush belongs to a goroutine that is flushing that buffer.
TypeOK ==
  /\ added \in Seq(Items) /\ rejected \subseteq Items /\ ctxDone \in BOOLEAN
  /\ \A w \in Workers : queue[w] \in Seq(Items) /\ Len(queue[w]) <= NumWorkers
  /\ \A w \in Workers :
       /\ worker[w].pc \in {"receive", "write", "flush", "exited"}
       /\ mu[w] = "worker" <=> worker[w].pc = "flush"
       /\ mu[w] = "flusher" <=> flusher = [pc |-> "flush", at |-> w]
       /\ mu[w] = "closer" <=> closer = [pc |-> "flush", at |-> w]

\* No item is reported twice, and so NumFailed + NumFlushed <= NumAdded: a flush
\* by size, by the ticker and by Close never both find an item in the buffer,
\* and an item whose write failed is not flushed.
ReportedOnce == \A i \in Items : reports[i] <= 1

\* "Repeated actions on one document are sent in the order they were added"
\* (BulkIndexer.Add): whichever goroutine flushes, the requests carry the
\* actions on a document to the server in the order the queues took them.
DocumentOrder ==
  \A m, n \in 1 .. Len(executed) :
    LET i == executed[m] j == executed[n]
    IN  (m < n /\ Document[i] = Document[j] /\ Document[i] # NoDocument) =>
          \E a, b \in 1 .. Len(added) : a < b /\ added[a] = i /\ added[b] = j

\* "Close waits until all added items are flushed": unless the construction
\* context was cancelled, every item added is reported when Close returns nil.
CloseDrains ==
  (closer.pc = "closed" /\ ~ctxDone) => \A i \in Range(added) : reports[i] = 1

\* Close does not hang, whatever the flusher and the workers are doing and even
\* if the construction context was cancelled, unless a panic ends the process.
CloseReturns == (closer.pc = "join") ~> (closer.pc \in {"closed", "aborted"} \/ crashed)

\* "Use the OnSuccess and OnFailure callbacks to get the operation result for
\* the item" (BulkIndexer.Add): an item reported as indexed was executed.
SuccessIsReal == \A i \in Items : result[i] = "ok" => i \in Range(executed)

=============================================================================
