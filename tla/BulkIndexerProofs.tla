------------------------- MODULE BulkIndexerProofs -------------------------
(***************************************************************************)
(* Proofs about BulkIndexer for any items, documents, number of workers    *)
(* and flush threshold.  The inductive invariant follows an item from the  *)
(* channel that takes it through its worker to the buffer it is written to *)
(* until it is reported, and keeps every stage in the order of added.      *)
(***************************************************************************)
EXTENDS BulkIndexer, FiniteSetTheorems, TLAPS

-----------------------------------------------------------------------------
(* The invariant *)

\* i comes before j in the sequence s.
Earlier(s, i, j) == \E a, b \in 1 .. Len(s) : a < b /\ s[a] = i /\ s[b] = j

\* Where an item of worker w is: in its channel, in its hands, in its buffer.
Queued(w, i) == \E n \in 1 .. Len(queue[w]) : queue[w][n] = i
Held(w, i) == worker[w].pc = "write" /\ worker[w].item = i
Buffered(w, i) == \E n \in 1 .. Len(items[w]) : items[w][n] = i
Located(w, i) == Queued(w, i) \/ Held(w, i) \/ Buffered(w, i)

WorkerType == [pc : {"receive", "write", "flush", "exited"}, item : Items \cup {NoItem}]
OpType == [item : Items, genuine : BOOLEAN, readable : BOOLEAN]
BufType == [lines : Nat, ops : Seq(OpType), open : Items \cup {NoItem}, bad : BOOLEAN]
FlusherType == [pc : {"wait", "scan", "flush", "done"}, at : Nat]
CloserType ==
  [pc : {"open", "join", "wait", "drain", "flush", "closed", "aborted"}, at : Nat]

PipeType ==
  /\ added \in Seq(Items) /\ rejected \subseteq Items
  /\ queue \in [Workers -> Seq(Items)] /\ items \in [Workers -> Seq(Items)]
  /\ \A w \in Workers : Len(queue[w]) <= NumWorkers
  /\ worker \in [Workers -> WorkerType]
  /\ \A w \in Workers : worker[w].pc = "write" => worker[w].item \in Items

BufferType == buf \in [Workers -> BufType] /\ torn \in [Workers -> BOOLEAN]

\* Who holds a mutex is flushing that buffer.
MutexInv ==
  /\ mu \in [Workers -> {"free", "worker", "flusher", "closer"}]
  /\ flusher \in FlusherType /\ closer \in CloserType
  /\ \A w \in Workers :
       /\ mu[w] = "worker" <=> worker[w].pc = "flush"
       /\ mu[w] = "flusher" <=> flusher.pc = "flush" /\ flusher.at = w
       /\ mu[w] = "closer" <=> closer.pc = "flush" /\ closer.at = w

\* An item is added once, has one worker, the one of its document, and the
\* stages of a worker hold their items in the order of added.
PipeInv ==
  /\ \A a, b \in 1 .. Len(added) : added[a] = added[b] => a = b
  /\ \A w \in Workers, i \in Items : Located(w, i) =>
       i \in Range(added) /\ w \in QueueIndex(i)
  /\ \A v, w \in Workers, i \in Items : Located(v, i) /\ Located(w, i) => v = w
  /\ \A w \in Workers :
       /\ \A m, n \in 1 .. Len(queue[w]) : m < n => Earlier(added, queue[w][m], queue[w][n])
       /\ \A m, n \in 1 .. Len(items[w]) : m < n => Earlier(added, items[w][m], items[w][n])
       /\ \A i, j \in Items : Held(w, i) /\ Queued(w, j) => Earlier(added, i, j)
       /\ \A i, j \in Items : Buffered(w, i) /\ (Held(w, j) \/ Queued(w, j)) => Earlier(added, i, j)

\* An item is reported when it leaves the last stage.
ReportInv ==
  /\ reports \in [Items -> Nat]
  /\ \A i \in Items : i \notin Range(added) => reports[i] = 0
  /\ \A i \in Items, w \in Workers : Located(w, i) => reports[i] = 0
  /\ \A i \in Range(added) : reports[i] = 1 \/ \E w \in Workers : Located(w, i)

\* The operations that are what they seem to be are those of items of the
\* buffer, in their order; as long as the server accepts the buffer it has an
\* operation for every item and one more for an unterminated line.
OpsOf(s, ops, S) ==
  /\ \A n \in 1 .. Len(ops) : ops[n].genuine => ops[n].item \in S
  /\ \A m, n \in 1 .. Len(ops) :
       m < n /\ ops[m].genuine /\ ops[n].genuine => Earlier(s, ops[m].item, ops[n].item)
Kept(w) == {i \in Items : Buffered(w, i)}
BufInv ==
  \A w \in Workers :
    /\ OpsOf(added, buf[w].ops, Kept(w))
    /\ ~buf[w].bad => Len(items[w]) <= Len(buf[w].ops)
    /\ ~buf[w].bad /\ torn[w] => Len(items[w]) < Len(buf[w].ops) /\ buf[w].open = NoItem
    /\ items[w] # <<>> \/ torn[w] => buf[w].lines > 0

\* What the server executed of a document precedes what is still to be sent.
SameDocument(i, j) == Document[i] = Document[j] /\ Document[i] # NoDocument
OrderInv ==
  \A m, n \in 1 .. Len(executed) :
    m < n /\ SameDocument(executed[m], executed[n]) => Earlier(added, executed[m], executed[n])
ExecInv ==
  /\ executed \in Seq(Items)
  /\ \A n \in 1 .. Len(executed) : executed[n] \in Range(added)
  /\ \A n \in 1 .. Len(executed), w \in Workers, j \in Items :
       Located(w, j) /\ SameDocument(executed[n], j) => Earlier(added, executed[n], j)
  /\ OrderInv

\* How Close takes the indexer down.
CloseInv ==
  /\ \A w \in Workers : worker[w].pc = "exited" /\ ~ctxDone => ~Open /\ queue[w] = <<>>
  /\ closer.pc \in {"wait", "drain", "flush", "closed"} => flusher.pc = "done"
  /\ closer.pc \in {"drain", "flush", "closed"} => AllExited
  /\ closer.pc \in {"drain", "flush"} =>
       \A w \in Workers : w < closer.at => items[w] = <<>>
  /\ closer.pc = "closed" => \A w \in Workers : items[w] = <<>>

Inv ==
  /\ PipeType /\ BufferType /\ ctxDone \in BOOLEAN
  /\ MutexInv /\ PipeInv /\ ReportInv /\ BufInv /\ ExecInv /\ CloseInv

-----------------------------------------------------------------------------
(* Operators *)

\* What a channel and a slice do to the positions of their elements.
LEMMA AppendFacts ==
  ASSUME NEW S, NEW s \in Seq(S), NEW x \in S
  PROVE  /\ Append(s, x) \in Seq(S) /\ Len(Append(s, x)) = Len(s) + 1 /\ Len(s) \in Nat
         /\ \A n \in 1 .. Len(s) : Append(s, x)[n] = s[n]
         /\ Append(s, x)[Len(s) + 1] = x
         /\ Append(s, x) # <<>>
  OBVIOUS

\* What receiving from a channel does to the sequence it holds.
LEMMA TailFacts ==
  ASSUME NEW S, NEW s \in Seq(S), s # <<>>
  PROVE  /\ Tail(s) \in Seq(S) /\ Len(Tail(s)) = Len(s) - 1
         /\ Len(s) \in Nat /\ Len(s) >= 1
         /\ \A n \in 1 .. Len(s) - 1 : Tail(s)[n] = s[n + 1]
         /\ Head(s) = s[1] /\ Head(s) \in S
  OBVIOUS

\* What appending a sequence does.
LEMMA ConcatFacts ==
  ASSUME NEW S, NEW s \in Seq(S), NEW t \in Seq(S)
  PROVE  /\ s \o t \in Seq(S) /\ Len(s \o t) = Len(s) + Len(t)
         /\ Len(s) \in Nat /\ Len(t) \in Nat
         /\ \A n \in 1 .. Len(s) : (s \o t)[n] = s[n]
         /\ \A n \in 1 .. Len(t) : (s \o t)[Len(s) + n] = t[n]
         /\ \A n \in 1 .. Len(s) + Len(t) :
              n \in 1 .. Len(s) \/ \E k \in 1 .. Len(t) : n = Len(s) + k
<1>1. Len(s) \in Nat /\ Len(t) \in Nat
  OBVIOUS
<1>2. \A n \in 1 .. Len(s) + Len(t) :
        n \in 1 .. Len(s) \/ (n - Len(s) \in 1 .. Len(t) /\ n = Len(s) + (n - Len(s)))
  BY <1>1
<1>3. \A n \in 1 .. Len(t) : (s \o t)[Len(s) + n] = t[n]
  BY <1>1
<1>4. s \o t \in Seq(S) /\ Len(s \o t) = Len(s) + Len(t)
  OBVIOUS
<1>5. \A n \in 1 .. Len(s) : (s \o t)[n] = s[n]
  BY <1>1
<1>6. \A n \in 1 .. Len(s) + Len(t) :
        n \in 1 .. Len(s) \/ \E k \in 1 .. Len(t) : n = Len(s) + k
  BY <1>2
<1> QED
  BY <1>1, <1>3, <1>4, <1>5, <1>6

\* The elements of a sequence are those at its positions.
LEMMA RangeOfSeq ==
  ASSUME NEW S, NEW s \in Seq(S), NEW x
  PROVE  x \in Range(s) <=> \E n \in 1 .. Len(s) : s[n] = x
  BY DEF Range

\* The order of added is strict, concerns what was added, and stays when more
\* is added.
LEMMA BeforeFacts ==
  ASSUME added \in Seq(Items), NEW i, NEW j, Earlier(added, i, j)
  PROVE  i \in Range(added) /\ j \in Range(added)
  BY RangeOfSeq DEF Earlier

\* No item was added before itself.
LEMMA BeforeStrict ==
  ASSUME PipeInv, NEW i
  PROVE  ~Earlier(added, i, i)
  BY DEF Earlier, PipeInv

\* The elements of added are the old ones and the new one, which comes last.
LEMMA AddedEffect ==
  ASSUME added \in Seq(Items), NEW i \in Items, added' = Append(added, i)
  PROVE  /\ added' \in Seq(Items)
         /\ Range(added') = Range(added) \cup {i}
         /\ \A x, y : Earlier(added, x, y) => Earlier(added', x, y)
         /\ \A x \in Range(added) : Earlier(added', x, i)
<1>1. /\ added' \in Seq(Items) /\ Len(added') = Len(added) + 1 /\ Len(added) \in Nat
      /\ \A n \in 1 .. Len(added) : added'[n] = added[n]
      /\ added'[Len(added) + 1] = i
  BY AppendFacts
<1>2. \A n : n \in 1 .. Len(added) => n \in 1 .. Len(added') /\ n < Len(added) + 1
  BY <1>1
<1>3. Len(added) + 1 \in 1 .. Len(added')
  BY <1>1
<1>4. \A n \in 1 .. Len(added') : n \in 1 .. Len(added) \/ n = Len(added) + 1
  BY <1>1
<1>5. Range(added') = Range(added) \cup {i}
  <2>1. \A x : x \in Range(added') <=> \E n \in 1 .. Len(added') : added'[n] = x
    BY <1>1, RangeOfSeq
  <2>2. \A x : x \in Range(added) <=> \E n \in 1 .. Len(added) : added[n] = x
    BY RangeOfSeq
  <2>3. \A x : x \in Range(added') <=> x \in Range(added) \/ x = i
    BY <1>1, <1>2, <1>3, <1>4, <2>1, <2>2
  <2> QED
    BY <2>3
<1>6. \A x, y : Earlier(added, x, y) => Earlier(added', x, y)
  BY <1>1, <1>2 DEF Earlier
<1>7. ASSUME NEW x \in Range(added) PROVE Earlier(added', x, i)
  <2>1. PICK n \in 1 .. Len(added) : added[n] = x
    BY RangeOfSeq
  <2>2. n \in 1 .. Len(added') /\ n < Len(added) + 1 /\ added'[n] = x
    BY <1>1, <1>2, <2>1
  <2> QED
    BY <1>1, <1>3, <2>2 DEF Earlier
<1> QED
  BY <1>1, <1>5, <1>6, <1>7

\* The remainder of Go, wrapped into range, is a queue number.
LEMMA QueueIndexWorker ==
  ASSUME NEW i \in Items
  PROVE  QueueIndex(i) \subseteq Workers
<1>1. NumWorkers \in Nat \ {0}
  BY BulkAssumption
<1>2. CASE Document[i] = NoDocument
  BY <1>2 DEF QueueIndex
<1>3. CASE Document[i] # NoDocument
  <2> DEFINE d == Document[i]
             idx == Remainder(d, NumWorkers)
  <2>1. d \in Int
    BY <1>3, BulkAssumption
  <2> HIDE DEF d
  <2>2. \A a \in Nat : a % NumWorkers \in 0 .. NumWorkers - 1
    BY <1>1
  <2>3. idx \in -(NumWorkers - 1) .. NumWorkers - 1
    <3>1. CASE d >= 0
      BY <1>1, <2>1, <2>2, <3>1 DEF Remainder
    <3>2. CASE ~(d >= 0)
      <4>1. -d \in Nat
        BY <2>1, <3>2
      <4>2. (-d) % NumWorkers \in 0 .. NumWorkers - 1
        BY <2>2, <4>1
      <4> DEFINE r == (-d) % NumWorkers
      <4>3. idx = -r
        BY <3>2 DEF Remainder
      <4> HIDE DEF r
      <4>4. r \in 0 .. NumWorkers - 1
        BY <4>2 DEF r
      <4> HIDE DEF idx
      <4> QED
        BY <1>1, <4>3, <4>4
    <3> QED
      BY <3>1, <3>2
  <2> HIDE DEF idx
  <2>4. (1 + IF idx < 0 THEN idx + NumWorkers ELSE idx) \in Workers
    BY <1>1, <2>3 DEF Workers
  <2> QED
    BY <1>3, <2>4 DEF QueueIndex, idx, d
<1> QED
  BY <1>2, <1>3

\* Items on one document have one queue.
LEMMA OneQueue ==
  ASSUME NEW i \in Items, NEW j \in Items, SameDocument(i, j),
         NEW v \in QueueIndex(i), NEW w \in QueueIndex(j)
  PROVE  v = w
  BY DEF SameDocument, QueueIndex

-----------------------------------------------------------------------------
(* The stages of an item *)

\* A step that leaves the channels, the items in hand and the items written
\* where they are.
Still ==
  /\ added' = added /\ rejected \subseteq rejected' /\ rejected' \subseteq Items
  /\ queue' = queue /\ items' = items
  /\ worker' \in [Workers -> WorkerType]
  /\ \A w \in Workers :
       /\ worker'[w].pc = "write" <=> worker[w].pc = "write"
       /\ worker[w].pc = "write" => worker'[w].item = worker[w].item

\* A step that moves no item leaves every item in its stage.
LEMMA StillEffect ==
  ASSUME PipeType, Still
  PROVE  /\ PipeType'
         /\ \A w \in Workers, i \in Items :
              /\ Queued(w, i)' <=> Queued(w, i)
              /\ Held(w, i)' <=> Held(w, i)
              /\ Buffered(w, i)' <=> Buffered(w, i)
              /\ Located(w, i)' <=> Located(w, i)
         /\ \A i, j : Earlier(added', i, j) <=> Earlier(added, i, j)
<1>1. PipeType'
  BY DEF PipeType, Still
<1>2. \A w \in Workers, i \in Items :
        /\ Queued(w, i)' <=> Queued(w, i)
        /\ Held(w, i)' <=> Held(w, i)
        /\ Buffered(w, i)' <=> Buffered(w, i)
  BY DEF Still, Queued, Held, Buffered
<1>3. \A i, j : Earlier(added', i, j) <=> Earlier(added, i, j)
  BY DEF Still, Earlier
<1> QED
  BY <1>1, <1>2, <1>3 DEF Located

\* Such a step keeps the order of the stages,
LEMMA StillPipe == ASSUME PipeType, PipeInv, Still PROVE PipeInv'
  <1>1. UNCHANGED <<added, queue, items>>
    BY DEF Still
  <1> QED
    BY <1>1, StillEffect DEF PipeInv

\* Only items are added.
LEMMA AddedItems == ASSUME PipeType PROVE Range(added) \subseteq Items
  BY RangeOfSeq DEF PipeType

\* It keeps the callbacks,
LEMMA StillReport == ASSUME PipeType, ReportInv, Still, UNCHANGED reports PROVE ReportInv'
  <1>1. UNCHANGED <<added, queue, items>>
    BY DEF Still
  <1>2. Range(added) \subseteq Items
    BY AddedItems
  <1> QED
    BY <1>1, <1>2, StillEffect DEF ReportInv

\* what the server executed
LEMMA StillExec == ASSUME PipeType, ExecInv, Still, UNCHANGED executed PROVE ExecInv'
  <1>1. UNCHANGED added
    BY DEF Still
  <1>2. OrderInv'
    BY <1>1 DEF ExecInv, OrderInv, SameDocument
  <1> QED
    BY <1>1, <1>2, StillEffect DEF ExecInv, SameDocument

\* and what the buffers say of their items.
LEMMA StillBuf == ASSUME PipeType, BufInv, BufferType, Still, UNCHANGED <<buf, torn>> PROVE BufInv'
<1>1. UNCHANGED <<added, items, buf, torn>>
  BY DEF Still
<1>2. \A w \in Workers : Kept(w)' = Kept(w)
  BY <1>1 DEF Kept, Buffered
<1> QED
  BY <1>1, <1>2 DEF BufInv

\* A channel takes an item: the item is new, and last in its stage.
LEMMA AddEffect ==
  ASSUME PipeType, PipeInv, NEW i \in Items, Add(i)
  PROVE  \E w \in Workers :
           /\ w \in QueueIndex(i) /\ Len(queue[w]) < NumWorkers
           /\ queue' = [queue EXCEPT ![w] = Append(queue[w], i)]
           /\ \A v \in Workers, x \in Items :
                /\ Queued(v, x)' <=> Queued(v, x) \/ (v = w /\ x = i)
                /\ Held(v, x)' <=> Held(v, x)
                /\ Buffered(v, x)' <=> Buffered(v, x)
                /\ Located(v, x)' <=> Located(v, x) \/ (v = w /\ x = i)
                /\ ~Located(v, i)
           /\ i \notin Range(added) /\ added' = Append(added, i)
<1>1. PICK w \in QueueIndex(i) :
        Len(queue[w]) < NumWorkers /\ queue' = [queue EXCEPT ![w] = Append(@, i)]
  BY DEF Add
<1>2. w \in Workers
  BY QueueIndexWorker
<1>3. i \notin Range(added) /\ added' = Append(added, i) /\ UNCHANGED <<worker, items>>
  BY DEF Add, bufVars
<1>4. queue'[w] = Append(queue[w], i) /\ \A v \in Workers : v # w => queue'[v] = queue[v]
  BY <1>1, <1>2 DEF PipeType
<1>5. /\ Len(queue'[w]) = Len(queue[w]) + 1 /\ Len(queue[w]) \in Nat
      /\ \A n \in 1 .. Len(queue[w]) : queue'[w][n] = queue[w][n]
      /\ queue'[w][Len(queue[w]) + 1] = i
  BY <1>2, <1>4, AppendFacts DEF PipeType
<1>6. \A x \in Items : Queued(w, x)' <=> Queued(w, x) \/ x = i
  <2>1. \A n : n \in 1 .. Len(queue'[w]) <=> n \in 1 .. Len(queue[w]) \/ n = Len(queue[w]) + 1
    BY <1>5
  <2> QED
    BY <1>5, <2>1 DEF Queued
<1>7. \A v \in Workers, x \in Items : Queued(v, x)' <=> Queued(v, x) \/ (v = w /\ x = i)
  BY <1>4, <1>6 DEF Queued
<1>8. \A v \in Workers, x \in Items :
        (Held(v, x)' <=> Held(v, x)) /\ (Buffered(v, x)' <=> Buffered(v, x))
  BY <1>3 DEF Held, Buffered
<1>9. \A v \in Workers : ~Located(v, i)
  BY <1>3 DEF PipeInv
<1>10. \A v \in Workers, x \in Items : Located(v, x)' <=> Located(v, x) \/ (v = w /\ x = i)
  BY <1>7, <1>8 DEF Located
<1> QED
  BY <1>1, <1>2, <1>3, <1>7, <1>8, <1>9, <1>10

\* Add appends behind every item of the same channel.
LEMMA AddPipe ==
  ASSUME PipeType, PipeInv, NEW i \in Items, Add(i)
  PROVE  PipeType' /\ PipeInv'
<1>1. PICK w \in Workers :
        /\ w \in QueueIndex(i) /\ Len(queue[w]) < NumWorkers
        /\ queue' = [queue EXCEPT ![w] = Append(queue[w], i)]
        /\ \A v \in Workers, x \in Items :
             /\ Queued(v, x)' <=> Queued(v, x) \/ (v = w /\ x = i)
             /\ Held(v, x)' <=> Held(v, x)
             /\ Buffered(v, x)' <=> Buffered(v, x)
             /\ Located(v, x)' <=> Located(v, x) \/ (v = w /\ x = i)
             /\ ~Located(v, i)
        /\ i \notin Range(added) /\ added' = Append(added, i)
  BY AddEffect
<1>2. UNCHANGED <<rejected, items, worker>>
  BY DEF Add, bufVars
<1>3. added \in Seq(Items)
  BY DEF PipeType
<1>4. /\ added' \in Seq(Items) /\ Range(added') = Range(added) \cup {i}
      /\ \A x, y : Earlier(added, x, y) => Earlier(added', x, y)
      /\ \A x \in Range(added) : Earlier(added', x, i)
  BY <1>1, <1>3, AddedEffect
<1>5. /\ queue'[w] = Append(queue[w], i) /\ \A v \in Workers : v # w => queue'[v] = queue[v]
      /\ queue[w] \in Seq(Items) /\ NumWorkers \in Nat
  BY <1>1, BulkAssumption DEF PipeType
<1>6. /\ queue'[w] \in Seq(Items)
      /\ Len(queue'[w]) = Len(queue[w]) + 1 /\ Len(queue[w]) \in Nat
      /\ \A n \in 1 .. Len(queue[w]) : queue'[w][n] = queue[w][n]
      /\ queue'[w][Len(queue[w]) + 1] = i
  BY <1>5, AppendFacts
<1>7. PipeType'
  <2>1. queue' \in [Workers -> Seq(Items)]
    BY <1>1, <1>5, <1>6 DEF PipeType
  <2>2. \A v \in Workers : Len(queue'[v]) <= NumWorkers
    BY <1>1, <1>5, <1>6 DEF PipeType
  <2> QED
    BY <1>2, <1>4, <2>1, <2>2 DEF PipeType
<1>8. \A a, b \in 1 .. Len(added') : added'[a] = added'[b] => a = b
  <2>1. /\ Len(added') = Len(added) + 1 /\ Len(added) \in Nat
        /\ \A n \in 1 .. Len(added) : added'[n] = added[n]
        /\ added'[Len(added) + 1] = i
    BY <1>1, <1>3, AppendFacts
  <2>2. \A n \in 1 .. Len(added) : added[n] # i
    BY <1>1, <1>3, RangeOfSeq
  <2>3. \A n \in 1 .. Len(added') : n \in 1 .. Len(added) \/ n = Len(added) + 1
    BY <2>1
  <2> QED
    BY <2>1, <2>2, <2>3 DEF PipeInv
<1>9. \A v \in Workers, x \in Items : Located(v, x)' =>
        x \in Range(added') /\ v \in QueueIndex(x)
  BY <1>1, <1>4 DEF PipeInv
<1>10. \A u, v \in Workers, x \in Items : Located(u, x)' /\ Located(v, x)' => u = v
  BY <1>1 DEF PipeInv
<1>11. \A x \in Items, v \in Workers : Located(v, x) => Earlier(added', x, i)
  BY <1>4 DEF PipeInv
<1>12. ASSUME NEW v \in Workers, NEW m \in 1 .. Len(queue'[v]), NEW n \in 1 .. Len(queue'[v]), m < n
       PROVE  Earlier(added', queue'[v][m], queue'[v][n])
  <2>1. CASE v # w
    BY <1>4, <1>5, <1>12, <2>1 DEF PipeInv
  <2>2. CASE v = w /\ n # Len(queue[w]) + 1
    <3>1. m \in 1 .. Len(queue[w]) /\ n \in 1 .. Len(queue[w])
      BY <1>6, <1>12, <2>2
    <3> QED
      BY <1>4, <1>6, <1>12, <2>2, <3>1 DEF PipeInv
  <2>3. CASE v = w /\ n = Len(queue[w]) + 1
    <3>1. m \in 1 .. Len(queue[w])
      BY <1>6, <1>12, <2>3
    <3>2. queue[w][m] \in Items /\ Queued(w, queue[w][m])
      BY <1>5, <3>1 DEF Queued
    <3> QED
      BY <1>6, <1>11, <2>3, <3>1, <3>2 DEF Located
  <2> QED
    BY <2>1, <2>2, <2>3
<1>13. \A v \in Workers : \A m, n \in 1 .. Len(items'[v]) :
         m < n => Earlier(added', items'[v][m], items'[v][n])
  BY <1>2, <1>4 DEF PipeInv
<1>14. \A v \in Workers, x, y \in Items : Held(v, x)' /\ Queued(v, y)' => Earlier(added', x, y)
  BY <1>1, <1>4, <1>11 DEF PipeInv, Located
<1>15. \A v \in Workers, x, y \in Items :
         Buffered(v, x)' /\ (Held(v, y)' \/ Queued(v, y)') => Earlier(added', x, y)
  BY <1>1, <1>4, <1>11 DEF PipeInv, Located
<1>16. PipeInv'
  BY <1>8, <1>9, <1>10, <1>12, <1>13, <1>14, <1>15 DEF PipeInv
<1> QED
  BY <1>7, <1>16

\* A new item has not been reported.
LEMMA AddReport ==
  ASSUME PipeType, PipeInv, ReportInv, NEW i \in Items, Add(i)
  PROVE  ReportInv'
<1>1. PICK w \in Workers :
        /\ \A v \in Workers, x \in Items :
             /\ Located(v, x)' <=> Located(v, x) \/ (v = w /\ x = i)
             /\ ~Located(v, i)
        /\ i \notin Range(added) /\ added' = Append(added, i)
  BY AddEffect
<1>2. Range(added') = Range(added) \cup {i} /\ Range(added) \subseteq Items
  BY <1>1, AddedEffect, AddedItems DEF PipeType
<1>3. reports' = reports
  BY DEF Add, outVars
<1> QED
  BY <1>1, <1>2, <1>3 DEF ReportInv

\* A new item comes after everything the server has executed.
LEMMA AddExec ==
  ASSUME PipeType, PipeInv, ExecInv, NEW i \in Items, Add(i)
  PROVE  ExecInv'
<1>1. PICK w \in Workers :
        /\ \A v \in Workers, x \in Items : Located(v, x)' <=> Located(v, x) \/ (v = w /\ x = i)
        /\ i \notin Range(added) /\ added' = Append(added, i)
  BY AddEffect
<1>2. /\ Range(added') = Range(added) \cup {i}
      /\ \A x, y : Earlier(added, x, y) => Earlier(added', x, y)
      /\ \A x \in Range(added) : Earlier(added', x, i)
  BY <1>1, AddedEffect DEF PipeType
<1>3. executed' = executed
  BY DEF Add, outVars
<1>4. OrderInv'
  BY <1>2, <1>3 DEF ExecInv, OrderInv, SameDocument
<1>5. \A n \in 1 .. Len(executed'), v \in Workers, j \in Items :
        Located(v, j)' /\ SameDocument(executed'[n], j) => Earlier(added', executed'[n], j)
  BY <1>1, <1>2, <1>3 DEF ExecInv
<1> QED
  BY <1>2, <1>3, <1>4, <1>5 DEF ExecInv

\* Add leaves the buffers alone.
LEMMA AddBuf ==
  ASSUME PipeType, BufInv, NEW i \in Items, Add(i)
  PROVE  BufInv'
<1>1. UNCHANGED <<items, buf, torn>> /\ added' = Append(added, i)
  BY DEF Add, bufVars
<1>2. \A x, y : Earlier(added, x, y) => Earlier(added', x, y)
  BY <1>1, AddedEffect DEF PipeType
<1>3. \A w \in Workers : Kept(w)' = Kept(w)
  BY <1>1 DEF Kept, Buffered
<1>4. \A ops, S : OpsOf(added, ops, S) => OpsOf(added', ops, S)
  BY <1>2 DEF OpsOf
<1> QED
  BY <1>1, <1>3, <1>4 DEF BufInv

\* An item that moves from one stage of its worker to the next is still there.
LEMMA MovedReport ==
  ASSUME PipeType, ReportInv, UNCHANGED <<added, reports>>,
         \A w \in Workers, i \in Items : Located(w, i)' <=> Located(w, i)
  PROVE  ReportInv'
<1>1. Range(added) \subseteq Items
  BY AddedItems
<1> QED
  BY <1>1 DEF ReportInv

\* Items that leave the pipeline disturb no order at the server.
LEMMA FewerExec ==
  ASSUME PipeType, ExecInv, UNCHANGED <<added, executed>>,
         \A w \in Workers, i \in Items : Located(w, i)' => Located(w, i)
  PROVE  ExecInv'
<1>1. OrderInv'
  BY DEF ExecInv, OrderInv, SameDocument
<1> QED
  BY <1>1 DEF ExecInv, SameDocument

\* The worker takes the head of its channel.
LEMMA ReceiveEffect ==
  ASSUME PipeType, NEW w \in Workers, Receive(w)
  PROVE  LET h == Head(queue[w])
         IN  /\ h \in Items /\ Queued(w, h) /\ queue[w] # <<>>
             /\ worker[w].pc = "receive" /\ worker'[w].pc = "write" /\ worker'[w].item = h
             /\ \A v \in Workers : v # w => worker'[v] = worker[v] /\ queue'[v] = queue[v]
             /\ queue'[w] = Tail(queue[w])
             /\ PipeType'
             /\ \A x \in Items : Queued(w, x) <=> x = h \/ Queued(w, x)'
             /\ \A v \in Workers, x \in Items :
                  /\ Buffered(v, x)' <=> Buffered(v, x)
                  /\ Located(v, x)' <=> Located(v, x)
<1> DEFINE h == Head(queue[w])
<1>1. /\ queue[w] # <<>> /\ queue[w] \in Seq(Items) /\ worker[w].pc = "receive"
      /\ queue' = [queue EXCEPT ![w] = Tail(@)]
      /\ worker' = [worker EXCEPT ![w] = [pc |-> "write", item |-> h]]
      /\ UNCHANGED <<added, rejected, items>>
  BY DEF PipeType, Receive, WorkerAt, bufVars
<1>2. /\ Tail(queue[w]) \in Seq(Items) /\ Len(Tail(queue[w])) = Len(queue[w]) - 1
      /\ Len(queue[w]) \in Nat /\ Len(queue[w]) >= 1
      /\ \A n \in 1 .. Len(queue[w]) - 1 : Tail(queue[w])[n] = queue[w][n + 1]
      /\ h = queue[w][1] /\ h \in Items
  BY <1>1, TailFacts
<1>3. Queued(w, h)
  BY <1>2 DEF Queued
<1> HIDE DEF h
<1>4. /\ queue'[w] = Tail(queue[w])
      /\ \A v \in Workers : v # w => worker'[v] = worker[v] /\ queue'[v] = queue[v]
      /\ worker'[w] = [pc |-> "write", item |-> h]
  BY <1>1 DEF PipeType
<1>5. worker'[w].pc = "write" /\ worker'[w].item = h
  BY <1>4
<1>6. PipeType'
  <2>1. queue' \in [Workers -> Seq(Items)]
    BY <1>1, <1>2 DEF PipeType
  <2>2. \A v \in Workers : Len(queue'[v]) <= NumWorkers
    <3>1. NumWorkers \in Nat /\ Len(queue[w]) <= NumWorkers
      BY BulkAssumption DEF PipeType
    <3>2. Len(queue'[w]) <= NumWorkers
      BY <1>2, <1>4, <3>1
    <3> QED
      BY <1>4, <3>2 DEF PipeType
  <2>3. worker' \in [Workers -> WorkerType]
    BY <1>1, <1>2 DEF PipeType, WorkerType
  <2> QED
    BY <1>1, <1>2, <1>4, <1>5, <2>1, <2>2, <2>3 DEF PipeType
<1>7. \A x \in Items : Queued(w, x) <=> x = h \/ Queued(w, x)'
  <2>1. \A n \in 1 .. Len(queue[w]) : n = 1 \/ n - 1 \in 1 .. Len(queue'[w])
    BY <1>2, <1>4
  <2>2. \A n \in 1 .. Len(queue[w]) : n = 1 \/ queue'[w][n - 1] = queue[w][n]
    BY <1>2, <1>4
  <2>3. \A n \in 1 .. Len(queue'[w]) : n + 1 \in 1 .. Len(queue[w]) /\ queue'[w][n] = queue[w][n + 1]
    BY <1>2, <1>4
  <2>4. ASSUME NEW x \in Items, Queued(w, x) PROVE x = h \/ Queued(w, x)'
    <3>1. PICK n \in 1 .. Len(queue[w]) : queue[w][n] = x
      BY <2>4 DEF Queued
    <3> QED
      BY <1>2, <2>1, <2>2, <3>1 DEF Queued
  <2>5. ASSUME NEW x \in Items, Queued(w, x)' PROVE Queued(w, x)
    <3>1. PICK n \in 1 .. Len(queue'[w]) : queue'[w][n] = x
      BY <2>5 DEF Queued
    <3> QED
      BY <2>3, <3>1 DEF Queued
  <2> QED
    BY <1>3, <2>4, <2>5
<1>8. \A v \in Workers, x \in Items : Buffered(v, x)' <=> Buffered(v, x)
  BY <1>1 DEF Buffered
<1>9. \A x \in Items : Located(w, x)' <=> Located(w, x)
  BY <1>1, <1>5, <1>7, <1>8 DEF Located, Held
<1>10. \A v \in Workers, x \in Items : v # w => (Located(v, x)' <=> Located(v, x))
  BY <1>4, <1>8 DEF Located, Held, Queued
<1> QED
  BY <1>1, <1>2, <1>3, <1>4, <1>5, <1>6, <1>7, <1>8, <1>9, <1>10 DEF h

\* A worker takes the oldest item of its channel into its hands,
LEMMA ReceivePipe ==
  ASSUME PipeType, PipeInv, NEW w \in Workers, Receive(w)
  PROVE  PipeInv'
<1> DEFINE h == Head(queue[w])
<1>1. /\ h \in Items /\ Queued(w, h) /\ queue[w] # <<>>
      /\ worker[w].pc = "receive" /\ worker'[w].pc = "write" /\ worker'[w].item = h
      /\ \A v \in Workers : v # w => worker'[v] = worker[v] /\ queue'[v] = queue[v]
      /\ queue'[w] = Tail(queue[w])
      /\ PipeType'
      /\ \A x \in Items : Queued(w, x) <=> x = h \/ Queued(w, x)'
      /\ \A v \in Workers, x \in Items :
           /\ Buffered(v, x)' <=> Buffered(v, x)
           /\ Located(v, x)' <=> Located(v, x)
  BY ReceiveEffect
<1>2. UNCHANGED <<added, items>>
  BY DEF Receive, bufVars
<1>3. /\ Len(queue'[w]) = Len(queue[w]) - 1 /\ Len(queue[w]) \in Nat
      /\ \A n \in 1 .. Len(queue'[w]) :
           queue'[w][n] = queue[w][n + 1] /\ n + 1 \in 1 .. Len(queue[w])
      /\ h = queue[w][1] /\ 1 \in 1 .. Len(queue[w])
  <2>1. queue[w] \in Seq(Items) /\ queue[w] # <<>>
    BY <1>1 DEF PipeType
  <2>2. /\ Len(Tail(queue[w])) = Len(queue[w]) - 1
        /\ Len(queue[w]) \in Nat /\ Len(queue[w]) >= 1
        /\ \A n \in 1 .. Len(queue[w]) - 1 : Tail(queue[w])[n] = queue[w][n + 1]
        /\ h = queue[w][1]
    BY <2>1, TailFacts
  <2> QED
    BY <1>1, <2>2
<1> HIDE DEF h
<1>4. \A v \in Workers : \A m, n \in 1 .. Len(queue'[v]) :
        m < n => Earlier(added', queue'[v][m], queue'[v][n])
  <2>1. ASSUME NEW m \in 1 .. Len(queue'[w]), NEW n \in 1 .. Len(queue'[w]), m < n
        PROVE  Earlier(added, queue'[w][m], queue'[w][n])
    <3>1. m + 1 < n + 1
      BY <2>1
    <3> QED
      BY <1>3, <3>1 DEF PipeInv
  <2> QED
    BY <1>1, <1>2, <2>1 DEF PipeInv
<1>5. ASSUME NEW y \in Items, Queued(w, y)' PROVE Earlier(added, h, y)
  <2>1. PICK n \in 1 .. Len(queue'[w]) : queue'[w][n] = y
    BY <1>5 DEF Queued
  <2>2. n + 1 \in 1 .. Len(queue[w]) /\ queue[w][n + 1] = y /\ 1 < n + 1
    BY <1>3, <2>1
  <2> QED
    BY <1>3, <2>2 DEF PipeInv
<1>6. \A v \in Workers, x, y \in Items :
        Held(v, x)' /\ Queued(v, y)' => Earlier(added', x, y)
  <2>1. \A x, y \in Items : Held(w, x)' /\ Queued(w, y)' => Earlier(added', x, y)
    BY <1>1, <1>2, <1>5 DEF Held
  <2>2. \A v \in Workers, x, y \in Items : v # w /\ Held(v, x)' /\ Queued(v, y)' =>
          Earlier(added', x, y)
    BY <1>1, <1>2 DEF PipeInv, Held, Queued
  <2> QED
    BY <2>1, <2>2
<1>7. \A v \in Workers, x, y \in Items :
        Buffered(v, x)' /\ (Held(v, y)' \/ Queued(v, y)') => Earlier(added', x, y)
  <2>1. \A x, y \in Items : Buffered(w, x)' /\ (Held(w, y)' \/ Queued(w, y)') =>
          Earlier(added', x, y)
    BY <1>1, <1>2 DEF PipeInv, Held
  <2>2. \A v \in Workers, x, y \in Items :
          v # w /\ Buffered(v, x)' /\ (Held(v, y)' \/ Queued(v, y)') => Earlier(added', x, y)
    BY <1>1, <1>2 DEF PipeInv, Held, Queued
  <2> QED
    BY <2>1, <2>2
<1> QED
  BY <1>1, <1>2, <1>4, <1>6, <1>7 DEF PipeInv

\* The item in hand is written and joins the items of the buffer.
LEMMA WriteItemEffect ==
  ASSUME PipeType, NEW w \in Workers, WriteItem(w)
  PROVE  LET i == worker[w].item
         IN  /\ i \in Items /\ Held(w, i) /\ worker'[w].pc \in {"flush", "receive"}
             /\ \A v \in Workers : v # w => worker'[v] = worker[v] /\ items'[v] = items[v]
             /\ items'[w] = Append(items[w], i)
             /\ UNCHANGED <<added, queue, rejected>>
             /\ PipeType'
             /\ \A x \in Items : Buffered(w, x)' <=> Buffered(w, x) \/ x = i
             /\ \A v \in Workers, x \in Items :
                  /\ Queued(v, x)' <=> Queued(v, x)
                  /\ Held(v, x)' <=> Held(v, x) /\ v # w
                  /\ Located(v, x)' <=> Located(v, x)
<1> DEFINE i == worker[w].item
<1>1. /\ worker[w].pc = "write" /\ i \in Items /\ items[w] \in Seq(Items)
      /\ items' = [items EXCEPT ![w] = Append(@, i)]
      /\ UNCHANGED <<added, queue, rejected>>
  BY DEF PipeType, WriteItem, queueVars
<1>2. PICK pc \in {"flush", "receive"} :
        worker' = [worker EXCEPT ![w] = [pc |-> pc, item |-> NoItem]]
  BY DEF WriteItem, WorkerAt
<1>3. worker' \in [Workers -> WorkerType]
  BY <1>2 DEF PipeType, WorkerType
<1>4. worker'[w].pc = pc /\ \A v \in Workers : v # w => worker'[v] = worker[v]
  BY <1>2 DEF PipeType
<1> HIDE DEF i
<1>5. items'[w] = Append(items[w], i) /\ \A v \in Workers : v # w => items'[v] = items[v]
  BY <1>1 DEF PipeType
<1>6. /\ items'[w] \in Seq(Items)
      /\ Len(items'[w]) = Len(items[w]) + 1 /\ Len(items[w]) \in Nat
      /\ \A n \in 1 .. Len(items[w]) : items'[w][n] = items[w][n]
      /\ items'[w][Len(items[w]) + 1] = i
  BY <1>1, <1>5, AppendFacts
<1>7. PipeType'
  <2>1. items' \in [Workers -> Seq(Items)]
    BY <1>1, <1>5, <1>6 DEF PipeType
  <2> QED
    BY <1>1, <1>3, <1>4, <2>1 DEF PipeType
<1>8. \A x \in Items : Buffered(w, x)' <=> Buffered(w, x) \/ x = i
  <2>1. \A n : n \in 1 .. Len(items'[w]) <=> n \in 1 .. Len(items[w]) \/ n = Len(items[w]) + 1
    BY <1>6
  <2> QED
    BY <1>6, <2>1 DEF Buffered
<1>9. \A v \in Workers, x \in Items : v # w => (Buffered(v, x)' <=> Buffered(v, x))
  BY <1>5 DEF Buffered
<1>10. \A v \in Workers, x \in Items : Queued(v, x)' <=> Queued(v, x)
  BY <1>1 DEF Queued
<1>11. \A v \in Workers, x \in Items : Held(v, x)' <=> Held(v, x) /\ v # w
  BY <1>1, <1>4 DEF Held
<1>12. \A x \in Items : Held(w, x) <=> x = i
  BY <1>1 DEF Held, i
<1>13. \A x \in Items : Located(w, x)' <=> Located(w, x)
  BY <1>8, <1>10, <1>11, <1>12 DEF Located
<1>14. \A v \in Workers, x \in Items : v # w => (Located(v, x)' <=> Located(v, x))
  BY <1>9, <1>10, <1>11 DEF Located
<1> QED
  BY <1>1, <1>4, <1>5, <1>7, <1>8, <1>10, <1>11, <1>12, <1>13, <1>14 DEF i

\* and puts it behind the items of its buffer,
LEMMA WriteItemPipe ==
  ASSUME PipeType, PipeInv, NEW w \in Workers, WriteItem(w)
  PROVE  PipeInv'
<1> DEFINE i == worker[w].item
<1>1. /\ i \in Items /\ Held(w, i)
      /\ \A v \in Workers : v # w => items'[v] = items[v]
      /\ items'[w] = Append(items[w], i)
      /\ UNCHANGED <<added, queue>>
      /\ \A x \in Items : Buffered(w, x)' <=> Buffered(w, x) \/ x = i
      /\ \A v \in Workers, x \in Items :
           /\ Queued(v, x)' <=> Queued(v, x)
           /\ Held(v, x)' <=> Held(v, x) /\ v # w
           /\ Located(v, x)' <=> Located(v, x)
  BY WriteItemEffect
<1> HIDE DEF i
<1>2. items[w] \in Seq(Items)
  BY DEF PipeType
<1>3. /\ Len(items'[w]) = Len(items[w]) + 1 /\ Len(items[w]) \in Nat
      /\ \A n \in 1 .. Len(items[w]) : items'[w][n] = items[w][n]
      /\ items'[w][Len(items[w]) + 1] = i
  BY <1>1, <1>2, AppendFacts
<1>4. ASSUME NEW m \in 1 .. Len(items'[w]), NEW n \in 1 .. Len(items'[w]), m < n
      PROVE  Earlier(added, items'[w][m], items'[w][n])
  <2>1. m \in 1 .. Len(items[w])
    BY <1>3, <1>4
  <2>2. CASE n \in 1 .. Len(items[w])
    BY <1>3, <1>4, <2>1, <2>2 DEF PipeInv
  <2>3. CASE n = Len(items[w]) + 1
    <3>1. items[w][m] \in Items /\ Buffered(w, items[w][m])
      BY <1>2, <2>1 DEF Buffered
    <3> QED
      BY <1>1, <1>3, <2>1, <2>3, <3>1 DEF PipeInv
  <2> QED
    BY <1>3, <2>2, <2>3
<1>5. \A v \in Workers : \A m, n \in 1 .. Len(items'[v]) :
        m < n => Earlier(added', items'[v][m], items'[v][n])
  BY <1>1, <1>4 DEF PipeInv
<1>6. \A v \in Workers, x \in Items : v # w => (Buffered(v, x)' <=> Buffered(v, x))
  BY <1>1 DEF Buffered
<1>7. \A v \in Workers, x, y \in Items :
        Buffered(v, x)' /\ (Held(v, y)' \/ Queued(v, y)') => Earlier(added', x, y)
  BY <1>1, <1>6 DEF PipeInv
<1>8. \A v \in Workers, x, y \in Items :
        Held(v, x)' /\ Queued(v, y)' => Earlier(added', x, y)
  BY <1>1 DEF PipeInv
<1> QED
  BY <1>1, <1>5, <1>7, <1>8 DEF PipeInv

\* Items that leave a stage without entering another disturb no order.
LEMMA FewerPipe ==
  ASSUME PipeType, PipeInv, UNCHANGED <<added, queue>>,
         \A w \in Workers : items'[w] = items[w] \/ items'[w] = <<>>,
         \A w \in Workers, i \in Items : Held(w, i)' => Held(w, i)
  PROVE  /\ PipeInv'
         /\ \A w \in Workers, i \in Items : Located(w, i)' => Located(w, i)
<1>1. \A w \in Workers, i \in Items : Buffered(w, i)' => Buffered(w, i)
  BY DEF Buffered
<1>2. \A w \in Workers, i \in Items : Queued(w, i)' <=> Queued(w, i)
  BY DEF Queued
<1>3. \A w \in Workers, i \in Items : Located(w, i)' => Located(w, i)
  BY <1>1, <1>2 DEF Located
<1>4. \A w \in Workers : \A m, n \in 1 .. Len(items'[w]) :
        m < n => Earlier(added', items'[w][m], items'[w][n])
  BY DEF PipeInv
<1> QED
  BY <1>1, <1>2, <1>3, <1>4 DEF PipeInv

\* The items of S leave worker w and are reported.
LEMMA LeftReport ==
  ASSUME PipeType, PipeInv, ReportInv, UNCHANGED added,
         NEW w \in Workers, NEW S \in SUBSET Items, \A i \in S : Located(w, i),
         \A v \in Workers, i \in Items : Located(v, i)' <=> Located(v, i) /\ ~(v = w /\ i \in S),
         \A i \in Items : reports'[i] = reports[i] + (IF i \in S THEN 1 ELSE 0),
         reports' \in [Items -> Nat]
  PROVE  ReportInv'
<1>1. Range(added) \subseteq Items
  BY AddedItems
<1>2. \A i \in Items : i \in S => reports'[i] = 1
  BY DEF ReportInv
<1>3. \A i \in Items : i \notin S => reports'[i] = reports[i]
  BY DEF ReportInv
<1>4. \A i \in S : i \in Range(added) /\ \A v \in Workers : Located(v, i) => v = w
  BY DEF PipeInv
<1> QED
  BY <1>1, <1>2, <1>3, <1>4 DEF ReportInv

\* An item that cannot be written leaves at once.
LEMMA WriteFailsEffect ==
  ASSUME PipeType, PipeInv, ReportInv, NEW w \in Workers, WriteFails(w)
  PROVE  /\ PipeType' /\ PipeInv' /\ ReportInv'
         /\ \A v \in Workers, x \in Items : Located(v, x)' => Located(v, x)
         /\ \A v \in Workers, x \in Items : Buffered(v, x)' <=> Buffered(v, x)
         /\ worker'[w].pc = "receive"
         /\ \A v \in Workers : v # w => worker'[v] = worker[v]
<1> DEFINE i == worker[w].item
<1>1. /\ worker[w].pc = "write" /\ i \in Items
      /\ worker' = [worker EXCEPT ![w] = [pc |-> "receive", item |-> NoItem]]
      /\ reports' = [reports EXCEPT ![i] = @ + 1]
      /\ UNCHANGED <<added, queue, rejected, items>>
  BY DEF PipeType, WriteFails, WorkerAt, Report, queueVars
<1>2. worker' \in [Workers -> WorkerType]
  BY <1>1 DEF PipeType, WorkerType
<1>3. worker'[w].pc = "receive" /\ \A v \in Workers : v # w => worker'[v] = worker[v]
  BY <1>1 DEF PipeType
<1> HIDE DEF i
<1>4. PipeType'
  BY <1>1, <1>2, <1>3 DEF PipeType
<1>5. \A v \in Workers, x \in Items : Held(v, x)' <=> Held(v, x) /\ v # w
  BY <1>3 DEF Held
<1>6. PipeInv' /\ \A v \in Workers, x \in Items : Located(v, x)' => Located(v, x)
  BY <1>1, <1>5, FewerPipe
<1>7. \A x \in Items : Held(w, x) <=> x = i
  BY <1>1 DEF Held, i
<1>8. \A v \in Workers, x \in Items :
        (Queued(v, x)' <=> Queued(v, x)) /\ (Buffered(v, x)' <=> Buffered(v, x))
  BY <1>1 DEF Queued, Buffered
<1>9. ~Queued(w, i) /\ ~Buffered(w, i)
  BY <1>1, <1>7, BeforeStrict DEF PipeInv
<1>10. \A v \in Workers, x \in Items :
         Located(v, x)' <=> Located(v, x) /\ ~(v = w /\ x \in {i})
  BY <1>5, <1>7, <1>8, <1>9 DEF Located
<1>11. /\ reports' \in [Items -> Nat]
       /\ \A x \in Items : reports'[x] = reports[x] + (IF x \in {i} THEN 1 ELSE 0)
  BY <1>1 DEF ReportInv
<1>12. {i} \in SUBSET Items /\ \A x \in {i} : Located(w, x)
  BY <1>1, <1>7 DEF Located
<1>13. ReportInv'
  BY <1>1, <1>10, <1>11, <1>12, LeftReport
<1> QED
  BY <1>3, <1>4, <1>6, <1>8, <1>13

-----------------------------------------------------------------------------
(* Buffers *)

\* The server reads an operation more than before: one that is what it seems to
\* be only if it is that of item i, or one that is not.
Grows(s, t, i) == \E op \in OpType : t = Append(s, op) /\ (op.genuine => op.item = i)
Spoils(s, t) == \E op \in OpType : t = Append(s, op) /\ ~op.genuine

\* A line that answers an open action: a source, or something taken for one.
LEMMA SourceLine ==
  ASSUME NEW b \in BufType, ~b.bad, b.open # NoItem, NEW line,
         line.kind \in {"meta", "body", "junk"}
  PROVE  LET c == WriteLine(b, line)
         IN  /\ c \in BufType /\ ~c.bad /\ c.open = NoItem /\ c.lines = b.lines + 1
             /\ \E op \in OpType :
                  /\ c.ops = Append(b.ops, op) /\ op.item = b.open
                  /\ op.genuine => line = Line("body", b.open)
<1> DEFINE genuine == line = Line("body", b.open)
           readable == line.kind # "junk"
           op == [item |-> b.open, genuine |-> genuine, readable |-> readable]
           c == WriteLine(b, line)
<1>1. genuine \in BOOLEAN /\ readable \in BOOLEAN
  OBVIOUS
<1>2. c = [b EXCEPT !.open = NoItem, !.ops = Append(b.ops, op), !.lines = b.lines + 1]
  BY DEF WriteLine, ServerLine, BufType
<1>3. b.open \in Items /\ b.ops \in Seq(OpType) /\ b.lines + 1 \in Nat
  BY DEF BufType
<1>4. op.genuine => line = Line("body", b.open)
  OBVIOUS
<1> HIDE DEF genuine, readable
<1>5. op \in OpType /\ op.item = b.open
  BY <1>1, <1>3 DEF OpType
<1> HIDE DEF op, c
<1>6. Append(b.ops, op) \in Seq(OpType)
  BY <1>3, <1>5, AppendFacts
<1>7. c \in BufType /\ c.bad = b.bad /\ c.open = NoItem /\ c.lines = b.lines + 1
      /\ c.ops = Append(b.ops, op)
  BY <1>2, <1>3, <1>6 DEF BufType
<1> QED
  BY <1>4, <1>5, <1>7 DEF c

\* A line that the server rejects, or that follows one it has rejected.
LEMMA BadLine ==
  ASSUME NEW b \in BufType, NEW line, b.bad \/ (b.open = NoItem /\ line.kind # "meta")
  PROVE  LET c == WriteLine(b, line)
         IN  c \in BufType /\ c.bad /\ c.ops = b.ops /\ c.lines = b.lines + 1
<1>1. b.lines + 1 \in Nat
  BY DEF BufType
<1>2. CASE b.bad
  <2>1. WriteLine(b, line) = [b EXCEPT !.lines = b.lines + 1]
    BY <1>2 DEF WriteLine, ServerLine
  <2>2. [b EXCEPT !.lines = b.lines + 1].bad = b.bad
    BY DEF BufType
  <2> QED
    BY <1>1, <1>2, <2>1, <2>2 DEF BufType
<1>3. CASE ~b.bad
  <2>1. WriteLine(b, line) = [b EXCEPT !.bad = TRUE, !.lines = b.lines + 1]
    BY <1>3 DEF WriteLine, ServerLine, BufType
  <2> QED
    BY <1>1, <2>1 DEF BufType
<1> QED
  BY <1>2, <1>3

\* A metadata line where one is expected.
LEMMA ActionLine ==
  ASSUME NEW b \in BufType, ~b.bad, b.open = NoItem, NEW i \in Items
  PROVE  LET c == WriteLine(b, Line("meta", i))
         IN  /\ c \in BufType /\ ~c.bad /\ c.lines = b.lines + 1
             /\ i \in HasBody => c.open = i /\ c.ops = b.ops
             /\ i \notin HasBody => c.open = NoItem /\ Grows(b.ops, c.ops, i)
<1> DEFINE line == Line("meta", i)
           op == [item |-> i, genuine |-> TRUE, readable |-> TRUE]
<1>1. line.kind = "meta" /\ line.item = i /\ b.lines + 1 \in Nat
  BY DEF Line, BufType
<1>2. CASE i \in HasBody
  <2>1. WriteLine(b, line) = [b EXCEPT !.open = i, !.lines = b.lines + 1]
    BY <1>1, <1>2 DEF WriteLine, ServerLine, BufType
  <2>2. /\ WriteLine(b, line) \in BufType /\ WriteLine(b, line).bad = b.bad
        /\ WriteLine(b, line).open = i /\ WriteLine(b, line).ops = b.ops
        /\ WriteLine(b, line).lines = b.lines + 1
    BY <1>1, <2>1 DEF BufType
  <2> QED
    BY <1>2, <2>2
<1>3. CASE i \notin HasBody
  <2>1. WriteLine(b, line) = [b EXCEPT !.ops = Append(b.ops, op), !.lines = b.lines + 1]
    BY <1>1, <1>3 DEF WriteLine, ServerLine, BufType
  <2>2. op \in OpType /\ op.item = i /\ b.ops \in Seq(OpType)
    BY DEF OpType, BufType
  <2> HIDE DEF op
  <2>3. Append(b.ops, op) \in Seq(OpType)
    BY <2>2, AppendFacts
  <2>4. /\ WriteLine(b, line) \in BufType /\ WriteLine(b, line).bad = b.bad
        /\ WriteLine(b, line).open = b.open /\ WriteLine(b, line).lines = b.lines + 1
        /\ WriteLine(b, line).ops = Append(b.ops, op)
    BY <1>1, <2>1, <2>3 DEF BufType
  <2> QED
    BY <1>3, <2>2, <2>4 DEF Grows
<1> QED
  BY <1>2, <1>3

\* Metadata, whatever came before it.
LEMMA MetaLine ==
  ASSUME NEW b \in BufType, NEW i \in Items
  PROVE  LET c == WriteLine(b, Line("meta", i))
         IN  /\ c \in BufType /\ c.lines = b.lines + 1 /\ (c.bad <=> b.bad)
             /\ b.bad => c.ops = b.ops
             /\ ~b.bad /\ b.open # NoItem => c.open = NoItem /\ Spoils(b.ops, c.ops)
             /\ ~b.bad /\ b.open = NoItem /\ i \in HasBody => c.open = i /\ c.ops = b.ops
             /\ ~b.bad /\ b.open = NoItem /\ i \notin HasBody => Grows(b.ops, c.ops, i)
<1> DEFINE line == Line("meta", i)
           c == WriteLine(b, line)
<1>1. line.kind = "meta" /\ \A j : line # Line("body", j)
  BY DEF Line
<1> HIDE DEF line
<1>2. CASE b.bad
  BY <1>2, BadLine DEF line
<1>3. CASE ~b.bad /\ b.open # NoItem
  <2>1. /\ c \in BufType /\ ~c.bad /\ c.open = NoItem /\ c.lines = b.lines + 1
        /\ \E op \in OpType :
             /\ c.ops = Append(b.ops, op) /\ op.item = b.open
             /\ op.genuine => line = Line("body", b.open)
    BY <1>1, <1>3, SourceLine
  <2>2. Spoils(b.ops, c.ops)
    BY <1>1, <2>1 DEF Spoils
  <2> QED
    BY <1>3, <2>1, <2>2 DEF line
<1>4. CASE ~b.bad /\ b.open = NoItem
  BY <1>4, ActionLine DEF line
<1> QED
  BY <1>2, <1>3, <1>4

\* A line that is no metadata: the source of item i, or what was read of it.
LEMMA OtherLine ==
  ASSUME NEW b \in BufType, NEW i \in Items, NEW line \in {Line("body", i), Line("junk", NoItem)}
  PROVE  LET c == WriteLine(b, line)
         IN  /\ c \in BufType /\ c.lines = b.lines + 1
             /\ ~c.bad => ~b.bad /\ b.open # NoItem /\ c.open = NoItem
             /\ ~b.bad /\ b.open # NoItem => Grows(b.ops, c.ops, i)
             /\ ~b.bad /\ b.open # NoItem /\ line.kind = "junk" => Spoils(b.ops, c.ops)
             /\ b.bad \/ b.open = NoItem => c.bad /\ c.ops = b.ops
<1> DEFINE c == WriteLine(b, line)
<1>1. line.kind \in {"body", "junk"} /\ \A j : line = Line("body", j) => j = i
  BY DEF Line
<1>2. CASE b.bad \/ b.open = NoItem
  BY <1>1, <1>2, BadLine
<1>3. CASE ~b.bad /\ b.open # NoItem
  <2>1. /\ c \in BufType /\ ~c.bad /\ c.open = NoItem /\ c.lines = b.lines + 1
        /\ \E op \in OpType :
             /\ c.ops = Append(b.ops, op) /\ op.item = b.open
             /\ op.genuine => line = Line("body", b.open)
    BY <1>1, <1>3, SourceLine
  <2>2. Grows(b.ops, c.ops, i)
    BY <1>1, <2>1 DEF Grows
  <2>3. line.kind = "junk" => Spoils(b.ops, c.ops)
    <3>1. \A j : Line("body", j).kind = "body"
      BY DEF Line
    <3> QED
      BY <2>1, <3>1 DEF Spoils
  <2> QED
    BY <1>3, <2>1, <2>2, <2>3
<1> QED
  BY <1>2, <1>3

\* What writeMeta and writeBody leave in the buffer: an operation for the item,
\* unless an unterminated line swallows its metadata.
LEMMA FullBuffer ==
  ASSUME NEW b \in BufType, NEW i \in Items, NEW t \in BOOLEAN,
         ~b.bad /\ t => b.open = NoItem, t => b.lines > 0,
         NEW meta, meta = IF t THEN b ELSE WriteLine(b, Line("meta", i)),
         NEW c, c = IF i \in HasBody THEN WriteLine(meta, Line("body", i)) ELSE meta
  PROVE  /\ c \in BufType /\ c.lines > 0
         /\ c.ops = b.ops \/ Grows(b.ops, c.ops, i) \/ Spoils(b.ops, c.ops)
         /\ ~c.bad => ~b.bad /\ (t \/ Grows(b.ops, c.ops, i) \/ Spoils(b.ops, c.ops))
<1>1. b.lines \in Nat /\ i # NoItem
  BY BulkAssumption DEF BufType
<1>2. CASE t
  <2>1. meta = b
    BY <1>2
  <2>2. CASE i \in HasBody
    BY <1>1, <1>2, <2>1, <2>2, OtherLine
  <2>3. CASE i \notin HasBody
    BY <1>2, <2>1, <2>3
  <2> QED
    BY <2>2, <2>3
<1>3. CASE ~t
  <2>1. meta = WriteLine(b, Line("meta", i))
    BY <1>3
  <2>2. /\ meta \in BufType /\ meta.lines = b.lines + 1 /\ (meta.bad <=> b.bad)
        /\ b.bad => meta.ops = b.ops
        /\ ~b.bad /\ b.open # NoItem => meta.open = NoItem /\ Spoils(b.ops, meta.ops)
        /\ ~b.bad /\ b.open = NoItem /\ i \in HasBody => meta.open = i /\ meta.ops = b.ops
        /\ ~b.bad /\ b.open = NoItem /\ i \notin HasBody => Grows(b.ops, meta.ops, i)
    BY <2>1, MetaLine
  <2>3. CASE i \in HasBody
    <3>1. /\ c \in BufType /\ c.lines = meta.lines + 1
          /\ ~c.bad => ~meta.bad /\ meta.open # NoItem
          /\ ~meta.bad /\ meta.open # NoItem => Grows(meta.ops, c.ops, i)
          /\ meta.bad \/ meta.open = NoItem => c.bad /\ c.ops = meta.ops
      BY <2>2, <2>3, OtherLine
    <3>2. c.lines > 0
      BY <1>1, <2>2, <3>1
    <3>3. c.ops = b.ops \/ Grows(b.ops, c.ops, i) \/ Spoils(b.ops, c.ops)
      BY <1>1, <2>2, <2>3, <3>1
    <3>4. ~c.bad => ~b.bad /\ Grows(b.ops, c.ops, i)
      BY <1>1, <2>2, <2>3, <3>1
    <3> QED
      BY <3>1, <3>2, <3>3, <3>4
  <2>4. CASE i \notin HasBody
    <3>1. c = meta
      BY <2>4
    <3> QED
      BY <1>1, <2>2, <2>4, <3>1
  <2> QED
    BY <2>3, <2>4
<1> QED
  BY <1>2, <1>3

\* What is left of an item whose body fails after its metadata was written.
LEMMA OrphanBuffer ==
  ASSUME NEW b \in BufType, NEW i \in HasBody, NEW t \in BOOLEAN,
         ~b.bad /\ t => b.open = NoItem, t => b.lines > 0,
         NEW meta, meta = IF t THEN b ELSE WriteLine(b, Line("meta", i)),
         NEW c, c = WriteLine(meta, Line("junk", NoItem))
  PROVE  /\ meta \in BufType /\ meta.lines > 0 /\ (~meta.bad => ~b.bad)
         /\ meta.ops = b.ops \/ Spoils(b.ops, meta.ops)
         /\ c \in BufType /\ c.lines > 0
         /\ c.ops = b.ops \/ Spoils(b.ops, c.ops)
         /\ ~c.bad => ~b.bad /\ Spoils(b.ops, c.ops) /\ c.open = NoItem
<1>1. b.lines \in Nat /\ i # NoItem /\ i \in Items
  BY BulkAssumption DEF BufType
<1>2. Line("junk", NoItem).kind = "junk"
  BY DEF Line
<1>3. CASE t
  <2>1. meta = b
    BY <1>3
  <2> QED
    BY <1>1, <1>3, <2>1, OtherLine
<1>4. CASE ~t
  <2>1. meta = WriteLine(b, Line("meta", i))
    BY <1>4
  <2>2. /\ meta \in BufType /\ meta.lines = b.lines + 1 /\ (meta.bad <=> b.bad)
        /\ b.bad => meta.ops = b.ops
        /\ ~b.bad /\ b.open # NoItem => meta.open = NoItem /\ Spoils(b.ops, meta.ops)
        /\ ~b.bad /\ b.open = NoItem => meta.open = i /\ meta.ops = b.ops
    BY <1>1, <2>1, MetaLine
  <2>3. /\ c \in BufType /\ c.lines = meta.lines + 1
        /\ ~c.bad => ~meta.bad /\ meta.open # NoItem /\ c.open = NoItem
        /\ ~meta.bad /\ meta.open # NoItem => Spoils(meta.ops, c.ops)
        /\ meta.bad \/ meta.open = NoItem => c.bad /\ c.ops = meta.ops
    BY <1>1, <1>2, <2>2, OtherLine
  <2>4. c.lines > 0 /\ meta.lines > 0
    BY <1>1, <2>2, <2>3
  <2>5. meta.ops = b.ops \/ Spoils(b.ops, meta.ops)
    BY <2>2
  <2>6. c.ops = b.ops \/ Spoils(b.ops, c.ops)
    BY <1>1, <2>2, <2>3
  <2>7. ~c.bad => ~b.bad /\ Spoils(b.ops, c.ops) /\ c.open = NoItem
    BY <1>1, <2>2, <2>3
  <2> QED
    BY <2>2, <2>3, <2>4, <2>5, <2>6, <2>7
<1> QED
  BY <1>3, <1>4

\* The operations stay those of items of the buffer, in their order.
LEMMA GrowOps ==
  ASSUME NEW s, NEW ops \in Seq(OpType), NEW S, NEW T, S \subseteq T, OpsOf(s, ops, S),
         NEW new, NEW i,
         \/ new = ops
         \/ Spoils(ops, new)
         \/ Grows(ops, new, i) /\ i \in T /\ \A x \in S : Earlier(s, x, i)
  PROVE  /\ OpsOf(s, new, T)
         /\ new # ops => Len(new) = Len(ops) + 1
         /\ Spoils(ops, new) \/ Grows(ops, new, i) => Len(new) = Len(ops) + 1
<1>1. CASE new = ops
  <2>1. OpsOf(s, new, T)
    BY <1>1 DEF OpsOf
  <2>2. Spoils(ops, new) \/ Grows(ops, new, i) => Len(new) = Len(ops) + 1
    BY AppendFacts DEF Spoils, Grows
  <2> QED
    BY <1>1, <2>1, <2>2
<1>2. CASE new # ops
  <2>1. PICK op \in OpType :
          /\ new = Append(ops, op)
          /\ op.genuine => op.item = i /\ i \in T /\ \A x \in S : Earlier(s, x, i)
    BY <1>2 DEF Spoils, Grows
  <2>2. /\ Len(new) = Len(ops) + 1 /\ Len(ops) \in Nat
        /\ \A n \in 1 .. Len(ops) : new[n] = ops[n]
        /\ new[Len(ops) + 1] = op
    BY <2>1, AppendFacts
  <2>3. \A n \in 1 .. Len(new) : n \in 1 .. Len(ops) \/ n = Len(ops) + 1
    BY <2>2
  <2>4. \A m, n \in 1 .. Len(new) : m < n => m \in 1 .. Len(ops)
    BY <2>2
  <2>5. \A n \in 1 .. Len(new) : new[n].genuine => new[n].item \in T
    BY <2>1, <2>2, <2>3 DEF OpsOf
  <2>6. ASSUME NEW m \in 1 .. Len(new), NEW n \in 1 .. Len(new), m < n,
               new[m].genuine, new[n].genuine
        PROVE  Earlier(s, new[m].item, new[n].item)
    <3>1. m \in 1 .. Len(ops) /\ new[m] = ops[m] /\ new[m].item \in S
      BY <2>2, <2>4, <2>6 DEF OpsOf
    <3>2. CASE n \in 1 .. Len(ops)
      BY <2>2, <2>6, <3>1, <3>2 DEF OpsOf
    <3>3. CASE n = Len(ops) + 1
      BY <2>1, <2>2, <2>6, <3>1, <3>3
    <3> QED
      BY <2>3, <3>2, <3>3
  <2> QED
    BY <2>2, <2>5, <2>6 DEF OpsOf
<1> QED
  BY <1>1, <1>2

\* The invariant from what a step does to the buffer of one worker.
LEMMA BufferStep ==
  ASSUME BufferType, BufInv, UNCHANGED added, NEW w \in Workers, NEW c \in BufType, NEW t \in BOOLEAN,
         buf' = [buf EXCEPT ![w] = c], torn' = [torn EXCEPT ![w] = t],
         \A v \in Workers : v # w => items'[v] = items[v],
         OpsOf(added, c.ops, Kept(w)'),
         ~c.bad => Len(items'[w]) <= Len(c.ops),
         ~c.bad /\ t => Len(items'[w]) < Len(c.ops) /\ c.open = NoItem,
         items'[w] # <<>> \/ t => c.lines > 0
  PROVE  BufferType' /\ BufInv'
<1>1. buf' \in [Workers -> BufType] /\ torn' \in [Workers -> BOOLEAN]
  BY DEF BufferType
<1>2. /\ buf'[w] = c /\ torn'[w] = t
      /\ \A v \in Workers : v # w => buf'[v] = buf[v] /\ torn'[v] = torn[v]
  BY DEF BufferType
<1>3. \A v \in Workers : v # w => Kept(v)' = Kept(v)
  BY DEF Kept, Buffered
<1>5. ASSUME NEW v \in Workers, v # w
      PROVE  /\ OpsOf(added', buf'[v].ops, Kept(v)')
             /\ ~buf'[v].bad => Len(items'[v]) <= Len(buf'[v].ops)
             /\ ~buf'[v].bad /\ torn'[v] =>
                  Len(items'[v]) < Len(buf'[v].ops) /\ buf'[v].open = NoItem
             /\ items'[v] # <<>> \/ torn'[v] => buf'[v].lines > 0
  BY <1>2, <1>3, <1>5 DEF BufInv
<1>6. /\ OpsOf(added', buf'[w].ops, Kept(w)')
      /\ ~buf'[w].bad => Len(items'[w]) <= Len(buf'[w].ops)
      /\ ~buf'[w].bad /\ torn'[w] =>
           Len(items'[w]) < Len(buf'[w].ops) /\ buf'[w].open = NoItem
      /\ items'[w] # <<>> \/ torn'[w] => buf'[w].lines > 0
  BY <1>2
<1>7. BufInv'
  BY <1>5, <1>6 DEF BufInv
<1> QED
  BY <1>1, <1>7 DEF BufferType

\* where the lines it writes cover the item.
LEMMA WriteItemBuf ==
  ASSUME PipeType, PipeInv, BufferType, BufInv, NEW w \in Workers, WriteItem(w)
  PROVE  BufferType' /\ BufInv'
<1> DEFINE i == worker[w].item
           b == buf[w]
           t == torn[w]
           meta == Written(w, Line("meta", i))
           c == IF i \in HasBody THEN WriteLine(meta, Line("body", i)) ELSE meta
<1>1. /\ i \in Items /\ Held(w, i)
      /\ \A v \in Workers : v # w => items'[v] = items[v]
      /\ items'[w] = Append(items[w], i) /\ UNCHANGED added
      /\ \A x \in Items : Buffered(w, x)' <=> Buffered(w, x) \/ x = i
  BY WriteItemEffect
<1>2. buf' = [buf EXCEPT ![w] = c] /\ torn' = [torn EXCEPT ![w] = FALSE]
  BY DEF WriteItem
<1>3. /\ b \in BufType /\ t \in BOOLEAN /\ (~b.bad /\ t => b.open = NoItem)
      /\ t => b.lines > 0
      /\ OpsOf(added, b.ops, Kept(w))
      /\ ~b.bad => Len(items[w]) <= Len(b.ops)
      /\ ~b.bad /\ t => Len(items[w]) < Len(b.ops)
  BY DEF BufferType, BufInv
<1>4. meta = IF t THEN b ELSE WriteLine(b, Line("meta", i))
  BY DEF Written
<1>5. Kept(w)' = Kept(w) \cup {i} /\ \A x \in Kept(w) : Earlier(added, x, i)
  BY <1>1 DEF Kept, PipeInv
<1>6. items[w] \in Seq(Items) /\ b.ops \in Seq(OpType)
  BY <1>3 DEF PipeType, BufType
<1>7. Len(items'[w]) = Len(items[w]) + 1 /\ Len(items[w]) \in Nat /\ Len(b.ops) \in Nat
  BY <1>1, <1>6, AppendFacts
<1> HIDE DEF i, b, t, meta
<1>8. /\ c \in BufType /\ c.lines > 0
      /\ c.ops = b.ops \/ Grows(b.ops, c.ops, i) \/ Spoils(b.ops, c.ops)
      /\ ~c.bad => ~b.bad /\ (t \/ Grows(b.ops, c.ops, i) \/ Spoils(b.ops, c.ops))
  BY <1>1, <1>3, <1>4, FullBuffer
<1> HIDE DEF c
<1>9. /\ OpsOf(added, c.ops, Kept(w)')
      /\ c.ops # b.ops => Len(c.ops) = Len(b.ops) + 1
      /\ Spoils(b.ops, c.ops) \/ Grows(b.ops, c.ops, i) => Len(c.ops) = Len(b.ops) + 1
  <2>1. Kept(w) \subseteq Kept(w)' /\ i \in Kept(w)'
    BY <1>5
  <2>2. \/ c.ops = b.ops
        \/ Spoils(b.ops, c.ops)
        \/ Grows(b.ops, c.ops, i) /\ i \in Kept(w)' /\ \A x \in Kept(w) : Earlier(added, x, i)
    BY <1>5, <1>8, <2>1
  <2> QED
    BY <1>3, <1>6, <2>1, <2>2, GrowOps
<1>10. ~c.bad => Len(items'[w]) <= Len(c.ops)
  <2> SUFFICES ASSUME ~c.bad PROVE Len(items[w]) + 1 <= Len(c.ops)
    BY <1>7
  <2>1. ~b.bad /\ (t \/ Len(c.ops) = Len(b.ops) + 1)
    BY <1>8, <1>9
  <2>2. Len(c.ops) = Len(b.ops) \/ Len(c.ops) = Len(b.ops) + 1
    BY <1>9
  <2>3. Len(items[w]) <= Len(b.ops) /\ (t => Len(items[w]) < Len(b.ops))
    BY <1>3, <2>1
  <2> QED
    BY <1>7, <2>1, <2>2, <2>3
<1> QED
  BY <1>1, <1>2, <1>8, <1>9, <1>10, BufferStep

\* An item that cannot be written may tear the buffer, and is reported.
LEMMA WriteFailsBuf ==
  ASSUME PipeType, PipeInv, ReportInv, BufferType, BufInv, NEW w \in Workers, WriteFails(w)
  PROVE  BufferType' /\ BufInv'
<1> DEFINE i == worker[w].item
           b == buf[w]
           t == torn[w]
           meta == Written(w, Line("meta", i))
           c == WriteLine(meta, Line("junk", NoItem))
<1>1. UNCHANGED <<added, items>>
  BY DEF WriteFails, queueVars
<1>2. \/ UNCHANGED <<buf, torn>>
      \/ /\ i \in HasBody
         /\ \/ buf' = [buf EXCEPT ![w] = meta] /\ torn' = [torn EXCEPT ![w] = FALSE]
            \/ buf' = [buf EXCEPT ![w] = c] /\ torn' = [torn EXCEPT ![w] = TRUE]
  BY DEF WriteFails
<1>3. /\ b \in BufType /\ t \in BOOLEAN /\ (~b.bad /\ t => b.open = NoItem)
      /\ t => b.lines > 0
      /\ OpsOf(added, b.ops, Kept(w))
      /\ ~b.bad => Len(items[w]) <= Len(b.ops)
      /\ ~b.bad /\ t => Len(items[w]) < Len(b.ops)
  BY DEF BufferType, BufInv
<1>4. meta = IF t THEN b ELSE WriteLine(b, Line("meta", i))
  BY DEF Written
<1>5. \A v \in Workers : Kept(v)' = Kept(v)
  BY <1>1 DEF Kept, Buffered
<1>6. b.ops \in Seq(OpType) /\ Len(b.ops) \in Nat /\ Len(items[w]) \in Nat
  BY <1>3 DEF PipeType, BufType
<1>7. \A ops : ops = b.ops \/ Spoils(b.ops, ops) =>
        /\ OpsOf(added, ops, Kept(w)') /\ Len(b.ops) <= Len(ops)
        /\ Spoils(b.ops, ops) => Len(ops) = Len(b.ops) + 1
  <2> HIDE DEF b
  <2> SUFFICES ASSUME NEW ops, ops = b.ops \/ Spoils(b.ops, ops)
               PROVE  /\ OpsOf(added, ops, Kept(w)') /\ Len(b.ops) <= Len(ops)
                      /\ Spoils(b.ops, ops) => Len(ops) = Len(b.ops) + 1
    OBVIOUS
  <2>1. /\ OpsOf(added, ops, Kept(w)) /\ (ops # b.ops => Len(ops) = Len(b.ops) + 1)
        /\ Spoils(b.ops, ops) => Len(ops) = Len(b.ops) + 1
    BY <1>3, <1>6, GrowOps
  <2> QED
    BY <1>5, <1>6, <2>1
<1> HIDE DEF i, b, t, meta, c
<1>8. CASE UNCHANGED <<buf, torn>>
  BY <1>1, <1>5, <1>8 DEF BufInv, BufferType
<1>9. CASE i \in HasBody /\ ~UNCHANGED <<buf, torn>>
  <2>1. /\ meta \in BufType /\ meta.lines > 0 /\ (~meta.bad => ~b.bad)
        /\ meta.ops = b.ops \/ Spoils(b.ops, meta.ops)
        /\ c \in BufType /\ c.lines > 0
        /\ c.ops = b.ops \/ Spoils(b.ops, c.ops)
        /\ ~c.bad => ~b.bad /\ Spoils(b.ops, c.ops) /\ c.open = NoItem
    BY <1>3, <1>4, <1>9, OrphanBuffer DEF c
  <2>2. CASE buf' = [buf EXCEPT ![w] = meta] /\ torn' = [torn EXCEPT ![w] = FALSE]
    <3>1. OpsOf(added, meta.ops, Kept(w)') /\ Len(b.ops) <= Len(meta.ops) /\ Len(meta.ops) \in Nat
      BY <1>7, <2>1 DEF BufType
    <3>2. ~meta.bad => Len(items'[w]) <= Len(meta.ops)
      BY <1>1, <1>3, <1>6, <2>1, <3>1
    <3> QED
      BY <1>1, <2>1, <2>2, <3>1, <3>2, BufferStep
  <2>3. CASE buf' = [buf EXCEPT ![w] = c] /\ torn' = [torn EXCEPT ![w] = TRUE]
    <3>1. /\ OpsOf(added, c.ops, Kept(w)')
          /\ Spoils(b.ops, c.ops) => Len(c.ops) = Len(b.ops) + 1
      BY <1>7, <2>1
    <3>2. ~c.bad => Len(items'[w]) <= Len(c.ops) /\ Len(items'[w]) < Len(c.ops)
      BY <1>1, <1>3, <1>6, <2>1, <3>1
    <3> QED
      BY <1>1, <2>1, <2>3, <3>1, <3>2, BufferStep
  <2> QED
    BY <1>2, <1>9, <2>2, <2>3
<1> QED
  BY <1>2, <1>8, <1>9

-----------------------------------------------------------------------------
(* Flush *)

\* The goroutine that holds the mutex goes on; no item changes hands but those
\* of the buffer, which leave.
LEMMA FlushStages ==
  ASSUME PipeType, PipeInv, MutexInv, NEW w \in Workers, Flush(w)
  PROVE  /\ PipeType' /\ PipeInv' /\ UNCHANGED added
         /\ items'[w] = <<>> /\ \A v \in Workers : v # w => items'[v] = items[v]
         /\ \A v \in Workers, x \in Items :
              Located(v, x)' <=> Located(v, x) /\ ~(v = w /\ x \in Kept(w))
         /\ \A x \in Items : Located(w, x)' => Held(w, x) \/ Queued(w, x)
         /\ \A x \in Kept(w) : Located(w, x)
         /\ \A v \in Workers :
              /\ worker'[v].pc = "exited" <=> worker[v].pc = "exited"
              /\ worker'[v].pc = "flush" <=> worker[v].pc = "flush" /\ v # w
         /\ Kept(w)' = {}
<1>1. /\ items' = [items EXCEPT ![w] = <<>>] /\ UNCHANGED <<added, rejected, queue>>
      /\ worker' = IF mu[w] = "worker"
                   THEN [worker EXCEPT ![w].pc = "receive"] ELSE worker
  BY DEF Flush, Cleared, Resume, queueVars
<1>2. worker \in [Workers -> WorkerType] /\ (mu[w] = "worker" <=> worker[w].pc = "flush")
  BY DEF PipeType, MutexInv
<1>3. /\ worker' \in [Workers -> WorkerType]
      /\ \A v \in Workers : v # w => worker'[v] = worker[v]
      /\ worker[w].pc # "flush" => worker'[w] = worker[w]
      /\ worker[w].pc = "flush" => worker'[w].pc = "receive"
  BY <1>1, <1>2 DEF WorkerType
<1>4. items' \in [Workers -> Seq(Items)]
  BY <1>1 DEF PipeType
<1>5. items'[w] = <<>> /\ \A v \in Workers : v # w => items'[v] = items[v]
  BY <1>1 DEF PipeType
<1>6. PipeType'
  BY <1>1, <1>3, <1>4 DEF PipeType
<1>7. \A v \in Workers, x \in Items : Held(v, x)' <=> Held(v, x)
  BY <1>3 DEF Held
<1>8. \A v \in Workers, x \in Items : Queued(v, x)' <=> Queued(v, x)
  BY <1>1 DEF Queued
<1>9. /\ \A x \in Items : ~Buffered(w, x)'
      /\ \A v \in Workers, x \in Items : v # w => (Buffered(v, x)' <=> Buffered(v, x))
  BY <1>5 DEF Buffered
<1>10. PipeInv'
  BY <1>1, <1>5, <1>7, FewerPipe
<1>11. \A x \in Kept(w) : x \in Items /\ Buffered(w, x) /\ ~Held(w, x) /\ ~Queued(w, x)
  BY BeforeStrict DEF Kept, PipeInv
<1>12. \A v \in Workers, x \in Items :
         Located(v, x)' <=> Located(v, x) /\ ~(v = w /\ x \in Kept(w))
  BY <1>7, <1>8, <1>9, <1>11 DEF Located, Kept
<1>13. \A x \in Items : Located(w, x)' => Held(w, x) \/ Queued(w, x)
  BY <1>7, <1>8, <1>9 DEF Located
<1>14. \A v \in Workers :
         /\ worker'[v].pc = "exited" <=> worker[v].pc = "exited"
         /\ worker'[v].pc = "flush" <=> worker[v].pc = "flush" /\ v # w
  BY <1>3
<1>15. Kept(w)' = {}
  BY <1>9 DEF Kept
<1> QED
  BY <1>1, <1>5, <1>6, <1>10, <1>11, <1>12, <1>13, <1>14, <1>15 DEF Located

\* What the server executes are items of the buffer, in their order.
LEMMA ExecutedFacts ==
  ASSUME NEW s, NEW ops \in Seq(OpType), NEW S, OpsOf(s, ops, S), S \subseteq Items,
         NEW good \in Outcomes(ops), NEW done \in Executed(ops, good)
  PROVE  /\ done \in Seq(Items)
         /\ \A n \in 1 .. Len(done) : done[n] \in S
         /\ \A m, n \in 1 .. Len(done) : m < n => Earlier(s, done[m], done[n])
<1> DEFINE G == {n \in good : ops[n].genuine}
<1>1. G \subseteq 1 .. Len(ops) /\ Len(ops) \in Nat
  <2>1. good \in SUBSET (1 .. Len(ops))
    BY DEF Outcomes
  <2>2. Len(ops) \in Nat
    OBVIOUS
  <2> QED
    BY <2>1, <2>2
<1>2. Cardinality(G) \in Nat
  <2>1. IsFiniteSet(1 .. Len(ops))
    BY <1>1, FS_Interval
  <2> HIDE DEF G
  <2>2. IsFiniteSet(G)
    BY <1>1, <2>1, FS_Subset
  <2> QED
    BY <2>2, FS_CardinalityType
<1> DEFINE k == Cardinality(G)
<1>3. PICK e \in [1 .. k -> G] :
        /\ \A m, n \in 1 .. k : m < n => e[m] < e[n]
        /\ done = [n \in 1 .. k |-> ops[e[n]].item]
  <2>1. PICK e \in InOrder(G) : done = [n \in DOMAIN e |-> ops[e[n]].item]
    BY DEF Executed
  <2>2. /\ e \in [1 .. k -> G] /\ DOMAIN e = 1 .. k
        /\ \A m, n \in DOMAIN e : m < n => e[m] < e[n]
    BY <2>1 DEF InOrder
  <2> QED
    BY <2>1, <2>2
<1>4. \A n \in 1 .. k : e[n] \in 1 .. Len(ops) /\ ops[e[n]].genuine
  BY <1>1, <1>3
<1> HIDE DEF G, k
<1>5. \A n \in 1 .. k : ops[e[n]].item \in S
  BY <1>4 DEF OpsOf
<1>6. k \in Nat
  BY <1>2 DEF k
<1>7. done \in Seq(Items) /\ Len(done) = k
  BY <1>3, <1>5, <1>6
<1>8. \A m, n \in 1 .. k : m < n => Earlier(s, done[m], done[n])
  BY <1>3, <1>4 DEF OpsOf
<1> QED
  BY <1>3, <1>5, <1>7, <1>8

\* What a flush executes keeps the order of the items of its buffer.
LEMMA FlushExec ==
  ASSUME PipeType, PipeInv, MutexInv, BufferType, BufInv, ExecInv, NEW w \in Workers, Flush(w)
  PROVE  ExecInv'
<1>1. PICK good \in Outcomes(buf[w].ops) : \E done \in Executed(buf[w].ops, good) :
        executed' = executed \/ executed' = executed \o done
  BY DEF Flush
<1>2. PICK done \in Executed(buf[w].ops, good) :
        executed' = executed \/ executed' = executed \o done
  BY <1>1
<1>3. buf[w].ops \in Seq(OpType) /\ OpsOf(added, buf[w].ops, Kept(w)) /\ Kept(w) \subseteq Items
  BY DEF BufferType, BufType, BufInv, Kept
<1>4. /\ done \in Seq(Items)
      /\ \A n \in 1 .. Len(done) : done[n] \in Kept(w)
      /\ \A m, n \in 1 .. Len(done) : m < n => Earlier(added, done[m], done[n])
  BY <1>3, ExecutedFacts
<1>5. /\ UNCHANGED added
      /\ \A v \in Workers, x \in Items :
           Located(v, x)' <=> Located(v, x) /\ ~(v = w /\ x \in Kept(w))
      /\ \A x \in Items : Located(w, x)' => Held(w, x) \/ Queued(w, x)
      /\ \A x \in Kept(w) : Located(w, x)
  BY FlushStages
<1>6. CASE executed' = executed
  BY <1>5, <1>6, FewerExec
<1>7. CASE executed' = executed \o done
  <2>1. /\ executed' \in Seq(Items) /\ Len(executed') = Len(executed) + Len(done)
        /\ Len(executed) \in Nat /\ Len(done) \in Nat
        /\ \A n \in 1 .. Len(executed) : executed'[n] = executed[n]
        /\ \A n \in 1 .. Len(done) : executed'[Len(executed) + n] = done[n]
        /\ \A n \in 1 .. Len(executed) + Len(done) :
             n \in 1 .. Len(executed) \/ \E k \in 1 .. Len(done) : n = Len(executed) + k
    BY <1>4, <1>7, ConcatFacts DEF ExecInv
  <2>2. \A x \in Kept(w) : x \in Range(added) /\ w \in QueueIndex(x)
    BY <1>3, <1>5 DEF PipeInv
  <2>3. ASSUME NEW n \in 1 .. Len(executed')
        PROVE  executed'[n] \in Range(added')
    <3>1. CASE n \in 1 .. Len(executed)
      BY <1>5, <2>1, <3>1 DEF ExecInv
    <3>2. CASE \E k \in 1 .. Len(done) : n = Len(executed) + k
      BY <1>4, <1>5, <2>1, <2>2, <3>2
    <3> QED
      BY <2>1, <3>1, <3>2
  <2>4. ASSUME NEW x \in Kept(w), NEW v \in Workers, NEW j \in Items, Located(v, j)',
               SameDocument(x, j)
        PROVE  Earlier(added, x, j)
    <3>1. v \in QueueIndex(j) /\ w \in QueueIndex(x) /\ x \in Items
      BY <1>3, <1>5, <2>2, <2>4 DEF PipeInv
    <3>2. v = w
      BY <2>4, <3>1, OneQueue
    <3>3. Buffered(w, x) /\ (Held(w, j) \/ Queued(w, j))
      BY <1>5, <2>4, <3>2 DEF Kept
    <3> QED
      BY <3>1, <3>3 DEF PipeInv
  <2>5. ASSUME NEW n \in 1 .. Len(executed'), NEW v \in Workers, NEW j \in Items,
               Located(v, j)', SameDocument(executed'[n], j)
        PROVE  Earlier(added', executed'[n], j)
    <3>1. CASE n \in 1 .. Len(executed)
      BY <1>5, <2>1, <2>5, <3>1 DEF ExecInv
    <3>2. CASE \E k \in 1 .. Len(done) : n = Len(executed) + k
      BY <1>4, <1>5, <2>1, <2>4, <2>5, <3>2
    <3> QED
      BY <2>1, <3>1, <3>2
  <2>6. ASSUME NEW m \in 1 .. Len(executed'), NEW n \in 1 .. Len(executed'), m < n,
               SameDocument(executed'[m], executed'[n])
        PROVE  Earlier(added', executed'[m], executed'[n])
    <3>1. CASE n \in 1 .. Len(executed)
      <4>1. m \in 1 .. Len(executed)
        BY <2>1, <2>6, <3>1
      <4> QED
        BY <1>5, <2>1, <2>6, <3>1, <4>1 DEF ExecInv, OrderInv
    <3>2. CASE m \in 1 .. Len(executed) /\ \E k \in 1 .. Len(done) : n = Len(executed) + k
      <4>1. executed'[n] \in Kept(w) /\ executed'[m] = executed[m]
        BY <1>4, <2>1, <3>2
      <4>2. executed'[n] \in Items /\ Located(w, executed'[n])
        BY <1>3, <1>5, <4>1
      <4> QED
        BY <1>5, <2>6, <3>2, <4>1, <4>2 DEF ExecInv
    <3>3. CASE /\ \E k \in 1 .. Len(done) : m = Len(executed) + k
               /\ \E k \in 1 .. Len(done) : n = Len(executed) + k
      <4>1. PICK a \in 1 .. Len(done) : m = Len(executed) + a
        BY <3>3
      <4>2. PICK b \in 1 .. Len(done) : n = Len(executed) + b
        BY <3>3
      <4>3. a < b
        BY <2>1, <2>6, <4>1, <4>2
      <4> QED
        BY <1>4, <1>5, <2>1, <4>1, <4>2, <4>3
    <3> QED
      BY <2>1, <3>1, <3>2, <3>3
  <2>7. OrderInv'
    BY <2>6 DEF OrderInv
  <2>8. \A n \in 1 .. Len(executed'), v \in Workers, j \in Items :
          Located(v, j)' /\ SameDocument(executed'[n], j) => Earlier(added', executed'[n], j)
    BY <2>5
  <2>9. \A n \in 1 .. Len(executed') : executed'[n] \in Range(added')
    BY <2>3
  <2> QED
    BY <2>1, <2>7, <2>8, <2>9 DEF ExecInv
<1> QED
  BY <1>2, <1>6, <1>7

\* The items of the buffer are reported, each once: an accepted request has an
\* operation for every item, and an error is reported for all of them.
LEMMA FlushReport ==
  ASSUME PipeType, PipeInv, MutexInv, BufferType, BufInv, ReportInv, NEW w \in Workers, Flush(w)
  PROVE  ReportInv'
<1> DEFINE sent == items[w]
           ops == buf[w].ops
           told(i) == {n \in 1 .. Len(sent) : n <= Len(ops) /\ sent[n] = i}
<1>1. \/ /\ ~buf[w].bad
         /\ reports' = [i \in Items |-> reports[i] + (IF told(i) = {} THEN 0 ELSE 1)]
      \/ reports' = [i \in Items |-> reports[i] + (IF i \in Range(sent) THEN 1 ELSE 0)]
  BY DEF Flush, Accepted
<1>2. /\ sent \in Seq(Items) /\ ops \in Seq(OpType)
      /\ ~buf[w].bad => Len(sent) <= Len(ops)
  BY DEF PipeType, BufferType, BufType, BufInv
<1>3. Len(sent) \in Nat /\ Len(ops) \in Nat
  BY <1>2
<1>4. \A i \in Items : i \in Range(sent) <=> i \in Kept(w)
  BY <1>2, RangeOfSeq DEF Kept, Buffered
<1>5. ~buf[w].bad => \A i \in Items : told(i) # {} <=> i \in Kept(w)
  <2> SUFFICES ASSUME ~buf[w].bad, NEW i \in Items
               PROVE  told(i) # {} <=> i \in Kept(w)
    OBVIOUS
  <2>1. \A n \in 1 .. Len(sent) : n <= Len(ops)
    BY <1>2, <1>3
  <2>2. told(i) # {} <=> \E n \in 1 .. Len(sent) : sent[n] = i
    BY <2>1
  <2> QED
    BY <2>2 DEF Kept, Buffered
<1> HIDE DEF told, sent, ops
<1>6. reports' = [i \in Items |-> reports[i] + (IF i \in Kept(w) THEN 1 ELSE 0)]
  BY <1>1, <1>4, <1>5
<1>7. /\ reports' \in [Items -> Nat]
      /\ \A i \in Items : reports'[i] = reports[i] + (IF i \in Kept(w) THEN 1 ELSE 0)
  BY <1>6 DEF ReportInv
<1>8. /\ UNCHANGED added
      /\ \A v \in Workers, x \in Items :
           Located(v, x)' <=> Located(v, x) /\ ~(v = w /\ x \in Kept(w))
      /\ \A x \in Kept(w) : Located(w, x)
  BY FlushStages
<1>9. Kept(w) \in SUBSET Items
  BY DEF Kept
<1> QED
  BY <1>7, <1>8, <1>9, LeftReport

\* A flush leaves an empty buffer behind.
LEMMA FlushBuf ==
  ASSUME PipeType, PipeInv, MutexInv, BufferType, BufInv, NEW w \in Workers, Flush(w)
  PROVE  BufferType' /\ BufInv'
<1>1. buf' = [buf EXCEPT ![w] = EmptyBuf] /\ torn' = [torn EXCEPT ![w] = FALSE]
  BY DEF Flush
<1>2. /\ UNCHANGED added /\ items'[w] = <<>> /\ \A v \in Workers : v # w => items'[v] = items[v]
      /\ Kept(w)' = {}
  BY FlushStages
<1>3. /\ EmptyBuf \in BufType /\ EmptyBuf.ops = <<>> /\ EmptyBuf.open = NoItem
      /\ ~EmptyBuf.bad
  BY DEF EmptyBuf, BufType
<1>4. OpsOf(added, EmptyBuf.ops, Kept(w)')
  BY <1>3 DEF OpsOf
<1>5. Len(items'[w]) <= Len(EmptyBuf.ops)
  BY <1>2, <1>3
<1> QED
  BY <1>1, <1>2, <1>3, <1>4, <1>5, BufferStep

-----------------------------------------------------------------------------
(* Mutexes *)

\* Steps that neither begin nor end a flush.
LEMMA MutexSame ==
  ASSUME MutexInv, UNCHANGED mu, flusher' \in FlusherType, closer' \in CloserType,
         flusher' = flusher \/ (flusher.pc # "flush" /\ flusher'.pc # "flush"),
         closer' = closer \/ (closer.pc # "flush" /\ closer'.pc # "flush"),
         \A v \in Workers : worker'[v].pc = "flush" <=> worker[v].pc = "flush"
  PROVE  MutexInv'
<1>1. \A v \in Workers : mu'[v] = "flusher" <=> flusher'.pc = "flush" /\ flusher'.at = v
  BY DEF MutexInv
<1>2. \A v \in Workers : mu'[v] = "closer" <=> closer'.pc = "flush" /\ closer'.at = v
  BY DEF MutexInv
<1>3. \A v \in Workers : mu'[v] = "worker" <=> worker'[v].pc = "flush"
  BY DEF MutexInv
<1> QED
  BY <1>1, <1>2, <1>3 DEF MutexInv

\* A worker takes its own mutex, which is free, to flush by size.
LEMMA WriteItemMutex ==
  ASSUME PipeType, MutexInv, NEW w \in Workers, WriteItem(w)
  PROVE  MutexInv'
<1>1. /\ worker[w].pc = "write" /\ mu[w] = "free" /\ UNCHANGED <<flusher, closer>>
      /\ \/ mu' = [mu EXCEPT ![w] = "worker"] /\ WorkerAt(w, "flush", NoItem)
         \/ mu' = mu /\ WorkerAt(w, "receive", NoItem)
  BY DEF WriteItem
<1>2. CASE mu' = [mu EXCEPT ![w] = "worker"] /\ WorkerAt(w, "flush", NoItem)
  <2>1. worker'[w].pc = "flush" /\ \A v \in Workers : v # w => worker'[v] = worker[v]
    BY <1>2 DEF WorkerAt, PipeType
  <2>2. /\ mu' \in [Workers -> {"free", "worker", "flusher", "closer"}]
        /\ mu'[w] = "worker" /\ \A v \in Workers : v # w => mu'[v] = mu[v]
    BY <1>2 DEF MutexInv
  <2> QED
    BY <1>1, <2>1, <2>2 DEF MutexInv
<1>3. CASE mu' = mu /\ WorkerAt(w, "receive", NoItem)
  <2>1. worker'[w].pc = "receive" /\ \A v \in Workers : v # w => worker'[v] = worker[v]
    BY <1>3 DEF WorkerAt, PipeType
  <2>2. flusher' \in FlusherType /\ closer' \in CloserType
    BY <1>1 DEF MutexInv
  <2> QED
    BY <1>1, <1>3, <2>1, <2>2, MutexSame
<1> QED
  BY <1>1, <1>2, <1>3

\* A flush ends by releasing the mutex and letting its holder go on.
LEMMA FlushMutex ==
  ASSUME PipeType, PipeInv, MutexInv, NEW w \in Workers, Flush(w)
  PROVE  /\ MutexInv'
         /\ flusher.pc = "done" => flusher' = flusher
         /\ \/ closer' = closer
            \/ /\ closer.pc = "flush" /\ closer.at = w
               /\ closer'.pc = "drain" /\ closer'.at = w + 1
<1>1. /\ mu[w] # "free" /\ mu' = [mu EXCEPT ![w] = "free"] /\ Resume(w)
  BY DEF Flush, Unlock
<1>2. /\ mu' \in [Workers -> {"free", "worker", "flusher", "closer"}]
      /\ mu'[w] = "free" /\ \A v \in Workers : v # w => mu'[v] = mu[v]
  BY <1>1 DEF MutexInv
<1>3. \A v \in Workers : mu'[v] = "worker" <=> worker'[v].pc = "flush"
  <2>1. \A v \in Workers : worker'[v].pc = "flush" <=> worker[v].pc = "flush" /\ v # w
    BY FlushStages
  <2> QED
    BY <1>2, <2>1 DEF MutexInv
<1>4. /\ flusher \in FlusherType /\ flusher.at \in Nat
      /\ closer \in CloserType /\ closer.at \in Nat
  BY DEF MutexInv, FlusherType, CloserType
<1>5. /\ flusher' \in FlusherType /\ (flusher.pc = "done" => flusher' = flusher)
      /\ \A v \in Workers : mu'[v] = "flusher" <=> flusher'.pc = "flush" /\ flusher'.at = v
  <2>1. CASE mu[w] = "flusher"
    <3>1. flusher' = [pc |-> "scan", at |-> flusher.at + 1]
      BY <1>1, <2>1 DEF Resume
    <3>2. flusher' \in FlusherType /\ flusher'.pc = "scan"
      BY <1>4, <3>1 DEF FlusherType
    <3>3. flusher.pc = "flush" /\ flusher.at = w
      BY <2>1 DEF MutexInv
    <3> QED
      BY <1>2, <3>2, <3>3 DEF MutexInv
  <2>2. CASE mu[w] # "flusher"
    <3>1. flusher' = flusher
      BY <1>1, <2>2 DEF Resume
    <3> QED
      BY <1>2, <1>4, <2>2, <3>1 DEF MutexInv
  <2> QED
    BY <2>1, <2>2
<1>6. /\ closer' \in CloserType
      /\ \A v \in Workers : mu'[v] = "closer" <=> closer'.pc = "flush" /\ closer'.at = v
      /\ \/ closer' = closer
         \/ /\ closer.pc = "flush" /\ closer.at = w
            /\ closer'.pc = "drain" /\ closer'.at = w + 1
  <2>1. CASE mu[w] = "closer"
    <3>1. closer' = [pc |-> "drain", at |-> closer.at + 1]
      BY <1>1, <2>1 DEF Resume
    <3>2. closer' \in CloserType /\ closer'.pc = "drain" /\ closer'.at = closer.at + 1
      BY <1>4, <3>1 DEF CloserType
    <3>3. closer.pc = "flush" /\ closer.at = w
      BY <2>1 DEF MutexInv
    <3> QED
      BY <1>2, <3>2, <3>3 DEF MutexInv
  <2>2. CASE mu[w] # "closer"
    <3>1. closer' = closer
      BY <1>1, <2>2 DEF Resume
    <3> QED
      BY <1>2, <1>4, <2>2, <3>1 DEF MutexInv
  <2> QED
    BY <2>1, <2>2
<1> QED
  BY <1>2, <1>3, <1>5, <1>6 DEF MutexInv

\* The flusher skips an empty buffer or takes the mutex of one that is not.
LEMMA FlusherMutex ==
  ASSUME MutexInv, FlusherStep, UNCHANGED worker
  PROVE  MutexInv' /\ (flusher.pc = "done" => flusher' = flusher)
<1>1. flusher.at \in Nat /\ UNCHANGED closer /\ closer' \in CloserType
  BY DEF FlusherStep, FlusherTick, FlusherScan, FlusherExit, MutexInv, FlusherType
<1>2. CASE FlusherTick
  <2>1. flusher' \in FlusherType /\ flusher'.pc = "scan" /\ flusher.pc = "wait" /\ UNCHANGED mu
    BY <1>2 DEF FlusherTick, FlusherType
  <2> QED
    BY <1>1, <2>1, MutexSame
<1>3. CASE FlusherExit
  <2>1. flusher' \in FlusherType /\ flusher'.pc = "done" /\ flusher.pc = "wait" /\ UNCHANGED mu
    BY <1>3 DEF FlusherExit, FlusherType
  <2> QED
    BY <1>1, <2>1, MutexSame
<1>4. CASE FlusherScan
  <2>1. flusher.pc = "scan" /\ flusher \in FlusherType
    BY <1>4 DEF FlusherScan, MutexInv
  <2>2. CASE flusher' = [pc |-> "wait", at |-> 0] /\ UNCHANGED mu
    <3>1. flusher' \in FlusherType /\ flusher'.pc = "wait"
      BY <2>2 DEF FlusherType
    <3> QED
      BY <1>1, <2>1, <2>2, <3>1, MutexSame
  <2>3. CASE flusher' = [flusher EXCEPT !.at = @ + 1] /\ UNCHANGED mu
    <3>1. flusher' \in FlusherType /\ flusher'.pc = "scan"
      BY <1>1, <2>1, <2>3 DEF FlusherType
    <3> QED
      BY <1>1, <2>1, <2>3, <3>1, MutexSame
  <2>4. CASE /\ flusher.at \in Workers /\ mu[flusher.at] = "free"
             /\ mu' = [mu EXCEPT ![flusher.at] = "flusher"]
             /\ flusher' = [flusher EXCEPT !.pc = "flush"]
    <3>1. flusher' \in FlusherType /\ flusher'.pc = "flush" /\ flusher'.at = flusher.at
      BY <1>1, <2>1, <2>4 DEF FlusherType
    <3>2. /\ mu' \in [Workers -> {"free", "worker", "flusher", "closer"}]
          /\ mu'[flusher.at] = "flusher"
          /\ \A v \in Workers : v # flusher.at => mu'[v] = mu[v]
      BY <2>4 DEF MutexInv
    <3> QED
      BY <1>1, <2>1, <2>4, <3>1, <3>2 DEF MutexInv
  <2> QED
    BY <1>4, <2>1, <2>2, <2>3, <2>4 DEF FlusherScan
<1> QED
  BY <1>2, <1>3, <1>4 DEF FlusherStep

\* So does Close once the workers are gone.
LEMMA CloserMutex ==
  ASSUME MutexInv, CloserStep \/ Close, UNCHANGED <<worker, flusher>>
  PROVE  MutexInv'
<1>1. closer.at \in Nat /\ flusher' \in FlusherType
  BY DEF MutexInv, CloserType
<1>2. CASE Close \/ CloseJoin \/ CloseWait
  <2>1. PICK pc \in {"join", "wait", "aborted", "drain"}, at \in {0, 1} :
          closer' = [pc |-> pc, at |-> at]
    BY <1>2 DEF Close, CloseJoin, CloseWait, CloserAt
  <2>2. closer' \in CloserType /\ closer'.pc # "flush"
    BY <2>1 DEF CloserType
  <2>3. closer.pc # "flush" /\ UNCHANGED mu
    BY <1>2 DEF Close, CloseJoin, CloseWait, Open
  <2> QED
    BY <1>1, <2>2, <2>3, MutexSame
<1>3. CASE CloseDrain
  <2>1. closer.pc = "drain" /\ closer \in CloserType
    BY <1>3 DEF CloseDrain, MutexInv
  <2>2. CASE closer' = [pc |-> "closed", at |-> 0] /\ UNCHANGED mu
    <3>1. closer' \in CloserType /\ closer'.pc = "closed"
      BY <2>2 DEF CloserType
    <3> QED
      BY <1>1, <2>1, <2>2, <3>1, MutexSame
  <2>3. CASE closer' = [pc |-> "drain", at |-> closer.at + 1] /\ UNCHANGED mu
    <3>1. closer' \in CloserType /\ closer'.pc = "drain"
      BY <1>1, <2>1, <2>3 DEF CloserType
    <3> QED
      BY <1>1, <2>1, <2>3, <3>1, MutexSame
  <2>4. CASE /\ closer.at \in Workers /\ mu[closer.at] = "free"
             /\ mu' = [mu EXCEPT ![closer.at] = "closer"]
             /\ closer' = [pc |-> "flush", at |-> closer.at]
    <3>1. closer' \in CloserType /\ closer'.pc = "flush" /\ closer'.at = closer.at
      BY <1>1, <2>4 DEF CloserType
    <3>2. /\ mu' \in [Workers -> {"free", "worker", "flusher", "closer"}]
          /\ mu'[closer.at] = "closer"
          /\ \A v \in Workers : v # closer.at => mu'[v] = mu[v]
      BY <2>4 DEF MutexInv
    <3> QED
      BY <1>1, <2>1, <2>4, <3>1, <3>2 DEF MutexInv
  <2> QED
    BY <1>3, <2>1, <2>2, <2>3, <2>4 DEF CloseDrain, CloserAt
<1> QED
  BY <1>2, <1>3 DEF CloserStep

-----------------------------------------------------------------------------
(* Close *)

\* Steps of anyone but Close that leave the channels and the buffered items.
LEMMA CloseSame ==
  ASSUME CloseInv, UNCHANGED <<ctxDone, closer, queue, items>>,
         flusher.pc = "done" => flusher'.pc = "done",
         \A v \in Workers : worker'[v].pc = "exited" <=> worker[v].pc = "exited"
  PROVE  CloseInv'
  BY DEF CloseInv, Open, AllExited

\* A worker that is still there keeps Close waiting.
LEMMA CloseWaits ==
  ASSUME CloseInv, NEW w \in Workers, worker[w].pc # "exited",
         UNCHANGED <<ctxDone, closer, flusher>>, worker'[w].pc # "exited",
         \A v \in Workers : v # w => worker'[v] = worker[v] /\ queue'[v] = queue[v]
  PROVE  CloseInv'
<1>1. closer.pc \notin {"drain", "flush", "closed"}
  BY DEF CloseInv, AllExited
<1> QED
  BY <1>1 DEF CloseInv, Open

\* The channels take items while the indexer is open.
LEMMA AddClose ==
  ASSUME CloseInv, NEW i \in Items, Add(i)
  PROVE  CloseInv'
<1>1. closer.pc = "open" /\ UNCHANGED <<ctxDone, closer, worker>>
  BY DEF Add, Open
<1>2. ctxDone \/ \A v \in Workers : worker[v].pc # "exited"
  BY <1>1 DEF CloseInv, Open
<1> QED
  BY <1>1, <1>2 DEF CloseInv

\* A worker leaves when its channel is closed and empty, or the context is done.
LEMMA WorkerExitClose ==
  ASSUME PipeType, CloseInv, NEW w \in Workers, WorkerExit(w)
  PROVE  CloseInv'
<1>1. /\ worker[w].pc = "receive" /\ (ctxDone \/ (~Open /\ queue[w] = <<>>))
      /\ worker' = [worker EXCEPT ![w] = [pc |-> "exited", item |-> NoItem]]
      /\ UNCHANGED <<ctxDone, closer, flusher, queue, items>>
  BY DEF WorkerExit, MayExit, WorkerAt, queueVars, bufVars
<1>2. worker'[w].pc = "exited" /\ \A v \in Workers : v # w => worker'[v] = worker[v]
  BY <1>1 DEF PipeType
<1>3. closer.pc \notin {"drain", "flush", "closed"}
  BY <1>1 DEF CloseInv, AllExited
<1> QED
  BY <1>1, <1>2, <1>3 DEF CloseInv, Open

\* Close finds a buffer empty after its flush and goes on to the next.
LEMMA FlushClose ==
  ASSUME PipeType, PipeInv, MutexInv, CloseInv, NEW w \in Workers, Flush(w)
  PROVE  CloseInv'
<1>1. /\ items'[w] = <<>> /\ \A v \in Workers : v # w => items'[v] = items[v]
      /\ \A v \in Workers : worker'[v].pc = "exited" <=> worker[v].pc = "exited"
  BY FlushStages
<1>2. UNCHANGED <<ctxDone, queue>>
  BY DEF Flush, queueVars
<1>3. /\ flusher.pc = "done" => flusher' = flusher
      /\ \/ closer' = closer
         \/ /\ closer.pc = "flush" /\ closer.at = w
            /\ closer'.pc = "drain" /\ closer'.at = w + 1
  BY FlushMutex
<1>4. CASE closer' = closer
  BY <1>1, <1>2, <1>3, <1>4 DEF CloseInv, Open, AllExited
<1>5. CASE /\ closer.pc = "flush" /\ closer.at = w
           /\ closer'.pc = "drain" /\ closer'.at = w + 1
  <2>1. \A v \in Workers : v < w + 1 => v < w \/ v = w
    BY DEF Workers
  <2>2. \A v \in Workers : v < closer'.at => items'[v] = <<>>
    BY <1>1, <1>5, <2>1 DEF CloseInv
  <2> QED
    BY <1>1, <1>2, <1>3, <1>5, <2>2 DEF CloseInv, Open, AllExited
<1> QED
  BY <1>3, <1>4, <1>5

\* Close goes from the flusher to the workers to the buffers, none of which
\* gets an item any more; a buffer without lines has no items.
LEMMA CloserClose ==
  ASSUME PipeType, MutexInv, BufInv, CloseInv, CloserStep \/ Close
  PROVE  CloseInv'
<1>1. /\ UNCHANGED <<ctxDone, queue, items, worker, flusher>>
      /\ closer.pc # "open" \/ closer'.pc # "open"
  BY DEF CloserStep, Close, CloseJoin, CloseWait, CloseDrain, queueVars, bufVars, CloserAt
<1>2. CASE Close
  <2>1. closer'.pc = "join"
    BY <1>2 DEF Close, CloserAt
  <2> QED
    BY <1>1, <2>1 DEF CloseInv, Open
<1>3. CASE CloseJoin
  <2>1. closer'.pc \in {"wait", "aborted"} /\ flusher.pc = "done" /\ closer.pc = "join"
    BY <1>3 DEF CloseJoin, CloserAt
  <2> QED
    BY <1>1, <2>1 DEF CloseInv, Open
<1>4. CASE CloseWait
  <2>1. /\ closer'.pc = "drain" /\ closer'.at = 1
        /\ closer.pc = "wait" /\ AllExited
    BY <1>4 DEF CloseWait, CloserAt
  <2>2. \A v \in Workers : ~(v < 1)
    BY DEF Workers
  <2> QED
    BY <1>1, <2>1, <2>2 DEF CloseInv, Open, AllExited
<1>5. CASE CloseDrain
  <2>1. /\ closer.pc = "drain" /\ closer.at \in Nat /\ NumWorkers \in Nat
        /\ \A v \in Workers : v < closer.at => items[v] = <<>>
    BY <1>5, BulkAssumption DEF CloseDrain, CloseInv, MutexInv, CloserType
  <2>2. CASE closer.at > NumWorkers /\ closer' = [pc |-> "closed", at |-> 0]
    <3>1. \A v \in Workers : v < closer.at
      BY <2>1, <2>2 DEF Workers
    <3>2. \A v \in Workers : items[v] = <<>>
      BY <2>1, <3>1
    <3>3. closer'.pc = "closed"
      BY <2>2
    <3> QED
      BY <1>1, <2>1, <3>2, <3>3 DEF CloseInv, Open, AllExited
  <2>3. CASE /\ closer.at \in Workers /\ buf[closer.at].lines = 0
             /\ closer' = [pc |-> "drain", at |-> closer.at + 1]
    <3>1. items[closer.at] = <<>>
      BY <2>3 DEF BufInv
    <3>2. \A v \in Workers : v < closer.at + 1 => v < closer.at \/ v = closer.at
      BY <2>1 DEF Workers
    <3>3. closer'.pc = "drain" /\ closer'.at = closer.at + 1
      BY <2>3
    <3>4. \A v \in Workers : v < closer'.at => items'[v] = <<>>
      BY <1>1, <2>1, <3>1, <3>2, <3>3
    <3> QED
      BY <1>1, <2>1, <3>3, <3>4 DEF CloseInv, Open, AllExited
  <2>4. CASE closer' = [pc |-> "flush", at |-> closer.at]
    <3>1. closer'.pc = "flush" /\ closer'.at = closer.at
      BY <2>4
    <3> QED
      BY <1>1, <2>1, <3>1 DEF CloseInv, Open, AllExited
  <2> QED
    BY <1>5, <2>2, <2>3, <2>4 DEF CloseDrain, CloserAt
<1> QED
  BY <1>2, <1>3, <1>4, <1>5 DEF CloserStep

-----------------------------------------------------------------------------
(* The invariant is inductive *)

\* The inductive invariant holds when NewBulkIndexer returns.
LEMMA InitInv == Init => Inv
<1> SUFFICES ASSUME Init PROVE Inv
  OBVIOUS
<1>1. PipeType
  <2>1. <<>> \in Seq(Items) /\ Len(<<>>) = 0
    OBVIOUS
  <2>2. [pc |-> "receive", item |-> NoItem] \in WorkerType
    BY DEF WorkerType
  <2>3. NumWorkers \in Nat
    BY BulkAssumption
  <2> QED
    BY <2>1, <2>2, <2>3 DEF Init, PipeType
<1>2. EmptyBuf \in BufType /\ EmptyBuf.ops = <<>> /\ EmptyBuf.open = NoItem /\ ~EmptyBuf.bad
  BY DEF EmptyBuf, BufType
<1>3. BufferType /\ ctxDone \in BOOLEAN
  BY <1>2 DEF Init, BufferType
<1>4. MutexInv
  <2>1. flusher \in FlusherType /\ flusher.pc = "wait"
    BY DEF Init, FlusherType
  <2>2. closer \in CloserType /\ closer.pc = "open"
    BY DEF Init, CloserType
  <2> QED
    BY <2>1, <2>2 DEF Init, MutexInv
<1>5. \A w \in Workers, i \in Items : ~Located(w, i) /\ ~Queued(w, i) /\ ~Held(w, i) /\ ~Buffered(w, i)
  BY DEF Init, Located, Queued, Held, Buffered
<1>6. PipeInv
  BY <1>5 DEF Init, PipeInv
<1>7. ReportInv
  <2>1. Range(added) = {}
    BY DEF Init, Range
  <2> QED
    BY <1>5, <2>1 DEF Init, ReportInv
<1>8. BufInv
  <2>1. ASSUME NEW w \in Workers
        PROVE  /\ buf[w].ops = <<>> /\ items[w] = <<>> /\ ~torn[w]
    BY <1>2 DEF Init
  <2>2. \A w \in Workers : OpsOf(added, buf[w].ops, Kept(w))
    BY <2>1 DEF OpsOf
  <2>3. \A w \in Workers : Len(items[w]) <= Len(buf[w].ops)
    BY <2>1
  <2> QED
    BY <2>1, <2>2, <2>3 DEF BufInv
<1>9. ExecInv
  BY <1>5 DEF Init, ExecInv, OrderInv
<1>10. CloseInv
  BY DEF Init, CloseInv
<1> QED
  BY <1>1, <1>3, <1>4, <1>6, <1>7, <1>8, <1>9, <1>10 DEF Inv

\* Steps that move no item.
LEMMA StillInv ==
  ASSUME Inv, Still, UNCHANGED <<reports, executed, buf, torn>>, ctxDone' \in BOOLEAN,
         MutexInv', CloseInv'
  PROVE  Inv'
<1>1. PipeType' /\ PipeInv' /\ ReportInv' /\ ExecInv' /\ BufInv'
  BY StillEffect, StillPipe, StillReport, StillExec, StillBuf DEF Inv
<1>2. BufferType'
  BY DEF Inv, BufferType
<1> QED
  BY <1>1, <1>2 DEF Inv

\* Add keeps the invariant.
LEMMA AddInv == ASSUME Inv, NEW i \in Items, Add(i) PROVE Inv'
<1>1. PipeType' /\ PipeInv' /\ ReportInv' /\ ExecInv' /\ BufInv'
  BY AddPipe, AddReport, AddExec, AddBuf DEF Inv
<1>2. UNCHANGED <<buf, torn, mu, flusher, closer, worker, ctxDone>>
  BY DEF Add, bufVars
<1>3. BufferType' /\ MutexInv' /\ CloseInv' /\ ctxDone' \in BOOLEAN
  <2>1. BufferType' /\ ctxDone' \in BOOLEAN
    BY <1>2 DEF Inv, BufferType
  <2>2. MutexInv'
    BY <1>2 DEF Inv, MutexInv
  <2> QED
    BY <2>1, <2>2, AddClose DEF Inv
<1> QED
  BY <1>1, <1>3 DEF Inv

\* Steps of the callers, the ticker and the context.
LEMMA OtherInv ==
  ASSUME Inv, (\E i \in Items : AddCancelled(i)) \/ CtxCancel \/ TickerFires
  PROVE  Inv'
<1>1. /\ UNCHANGED <<added, queue, items, worker, mu, flusher, closer, reports, executed, buf, torn>>
      /\ rejected \subseteq rejected' /\ rejected' \subseteq Items
      /\ ctxDone' = ctxDone \/ ctxDone' = TRUE
  BY DEF AddCancelled, CtxCancel, TickerFires, queueVars, bufVars, outVars, Inv, PipeType
<1>2. Still
  BY <1>1 DEF Inv, PipeType, Still
<1>3. MutexInv' /\ ctxDone' \in BOOLEAN
  BY <1>1 DEF Inv, MutexInv
<1>4. CloseInv'
  BY <1>1 DEF Inv, CloseInv, Open, AllExited
<1> QED
  BY <1>1, <1>2, <1>3, <1>4, StillInv

\* A worker that receives keeps it.
LEMMA ReceiveInv == ASSUME Inv, NEW w \in Workers, Receive(w) PROVE Inv'
<1>1. /\ worker[w].pc = "receive" /\ worker'[w].pc = "write" /\ PipeType'
      /\ \A v \in Workers : v # w => worker'[v] = worker[v] /\ queue'[v] = queue[v]
      /\ \A v \in Workers, x \in Items :
           (Buffered(v, x)' <=> Buffered(v, x)) /\ (Located(v, x)' <=> Located(v, x))
  BY ReceiveEffect DEF Inv
<1>2. UNCHANGED <<added, items, buf, torn, mu, flusher, closer, reports, executed, ctxDone>>
  BY DEF Receive, bufVars, outVars
<1>3. PipeInv' /\ ReportInv' /\ ExecInv'
  BY <1>1, <1>2, ReceivePipe, MovedReport, FewerExec DEF Inv
<1>4. BufferType' /\ BufInv'
  <2>1. \A v \in Workers : Kept(v)' = Kept(v)
    BY <1>2 DEF Kept, Buffered
  <2> QED
    BY <1>2, <2>1 DEF Inv, BufferType, BufInv
<1>5. MutexInv'
  <2>1. flusher' \in FlusherType /\ closer' \in CloserType
    BY <1>2 DEF Inv, MutexInv
  <2> QED
    BY <1>1, <1>2, <2>1, MutexSame DEF Inv
<1>6. CloseInv'
  BY <1>1, <1>2, CloseWaits DEF Inv
<1> QED
  BY <1>1, <1>2, <1>3, <1>4, <1>5, <1>6 DEF Inv

\* A worker that returns keeps it: its channel is closed and empty, or the
\* construction context is cancelled.
LEMMA WorkerExitInv == ASSUME Inv, NEW w \in Workers, WorkerExit(w) PROVE Inv'
<1>1. /\ worker[w].pc = "receive"
      /\ worker' = [worker EXCEPT ![w] = [pc |-> "exited", item |-> NoItem]]
      /\ UNCHANGED <<added, rejected, queue, items, mu, flusher, closer, reports, executed, buf, torn, ctxDone>>
  BY DEF WorkerExit, WorkerAt, queueVars, bufVars, outVars
<1>2. /\ worker' \in [Workers -> WorkerType] /\ worker'[w].pc = "exited"
      /\ \A v \in Workers : v # w => worker'[v] = worker[v]
  BY <1>1 DEF Inv, PipeType, WorkerType
<1>3. Still
  BY <1>1, <1>2 DEF Inv, PipeType, Still
<1>4. MutexInv'
  <2>1. flusher' \in FlusherType /\ closer' \in CloserType
    BY <1>1 DEF Inv, MutexInv
  <2> QED
    BY <1>1, <1>2, <2>1, MutexSame DEF Inv
<1>5. CloseInv'
  BY WorkerExitClose DEF Inv
<1>6. ctxDone' \in BOOLEAN
  BY <1>1 DEF Inv
<1> QED
  BY <1>1, <1>3, <1>4, <1>5, <1>6, StillInv

\* Writing an item keeps it.
LEMMA WriteItemInv == ASSUME Inv, NEW w \in Workers, WriteItem(w) PROVE Inv'
<1>1. /\ worker'[w].pc \in {"flush", "receive"} /\ PipeType' /\ UNCHANGED <<added, queue>>
      /\ \A v \in Workers : v # w => worker'[v] = worker[v]
      /\ \A v \in Workers, x \in Items : Located(v, x)' <=> Located(v, x)
  BY WriteItemEffect DEF Inv
<1>2. UNCHANGED <<reports, executed, flusher, closer, ctxDone>> /\ worker[w].pc = "write"
  BY DEF WriteItem, outVars
<1>3. PipeInv' /\ ReportInv' /\ ExecInv'
  BY <1>1, <1>2, WriteItemPipe, MovedReport, FewerExec DEF Inv
<1>4. BufferType' /\ BufInv' /\ MutexInv'
  BY WriteItemBuf, WriteItemMutex DEF Inv
<1>5. CloseInv'
  BY <1>1, <1>2, CloseWaits DEF Inv
<1> QED
  BY <1>1, <1>2, <1>3, <1>4, <1>5 DEF Inv

\* Failing to write an item keeps it.
LEMMA WriteFailsInv == ASSUME Inv, NEW w \in Workers, WriteFails(w) PROVE Inv'
<1>1. /\ PipeType' /\ PipeInv' /\ ReportInv' /\ worker'[w].pc = "receive"
      /\ \A v \in Workers : v # w => worker'[v] = worker[v]
      /\ \A v \in Workers, x \in Items : Located(v, x)' => Located(v, x)
  BY WriteFailsEffect DEF Inv
<1>2. /\ UNCHANGED <<added, queue, executed, mu, flusher, closer, ctxDone, items>>
      /\ worker[w].pc = "write"
  BY DEF WriteFails, queueVars
<1>3. ExecInv'
  BY <1>1, <1>2, FewerExec DEF Inv
<1>4. BufferType' /\ BufInv'
  BY WriteFailsBuf DEF Inv
<1>5. MutexInv'
  <2>1. flusher' \in FlusherType /\ closer' \in CloserType
    BY <1>2 DEF Inv, MutexInv
  <2> QED
    BY <1>1, <1>2, <2>1, MutexSame DEF Inv
<1>6. CloseInv'
  BY <1>1, <1>2, CloseWaits DEF Inv
<1> QED
  BY <1>1, <1>2, <1>3, <1>4, <1>5, <1>6 DEF Inv

\* A flush, by the worker, the flusher or the closer, keeps it.
LEMMA FlushInv == ASSUME Inv, NEW w \in Workers, Flush(w) PROVE Inv'
<1>1. PipeType' /\ PipeInv' /\ ExecInv' /\ ReportInv'
  BY FlushStages, FlushExec, FlushReport DEF Inv
<1>2. BufferType' /\ BufInv' /\ MutexInv' /\ CloseInv'
  BY FlushBuf, FlushMutex, FlushClose DEF Inv
<1>3. ctxDone' \in BOOLEAN
  BY DEF Flush, Inv
<1> QED
  BY <1>1, <1>2, <1>3 DEF Inv

\* The steps of the flusher goroutine keep it.
LEMMA FlusherInv == ASSUME Inv, FlusherStep PROVE Inv'
<1>1. UNCHANGED <<added, rejected, queue, items, worker, closer, reports, executed, buf, torn, ctxDone>>
  BY DEF FlusherStep, FlusherTick, FlusherScan, FlusherExit, queueVars, bufVars, outVars
<1>2. Still
  BY <1>1 DEF Inv, PipeType, Still
<1>3. MutexInv' /\ (flusher.pc = "done" => flusher' = flusher)
  BY <1>1, FlusherMutex DEF Inv
<1>4. CloseInv'
  BY <1>1, <1>3, CloseSame DEF Inv
<1>5. ctxDone' \in BOOLEAN
  BY <1>1 DEF Inv
<1> QED
  BY <1>1, <1>2, <1>3, <1>4, <1>5, StillInv

\* The steps of Close keep it.
LEMMA CloserInv == ASSUME Inv, CloserStep \/ Close PROVE Inv'
<1>1. UNCHANGED <<added, rejected, queue, items, worker, flusher, reports, executed, buf, torn, ctxDone>>
  BY DEF CloserStep, Close, CloseJoin, CloseWait, CloseDrain, queueVars, bufVars, outVars
<1>2. Still
  BY <1>1 DEF Inv, PipeType, Still
<1>3. MutexInv' /\ CloseInv'
  BY <1>1, CloserMutex, CloserClose DEF Inv
<1>4. ctxDone' \in BOOLEAN
  BY <1>1 DEF Inv
<1> QED
  BY <1>1, <1>2, <1>3, <1>4, StillInv

\* It only speaks of the variables.
LEMMA StutterInv == ASSUME Inv, UNCHANGED vars PROVE Inv'
<1>1. /\ UNCHANGED <<added, rejected, queue, items, worker, flusher, closer, mu>>
      /\ UNCHANGED <<reports, executed, buf, torn, ctxDone>>
  BY DEF vars, queueVars, bufVars, outVars
<1>2. Still
  BY <1>1 DEF Inv, PipeType, Still
<1>3. MutexInv' /\ ctxDone' \in BOOLEAN
  BY <1>1 DEF Inv, MutexInv
<1>4. CloseInv'
  BY <1>1, CloseSame DEF Inv
<1> QED
  BY <1>1, <1>2, <1>3, <1>4, StillInv

\* Every step of the indexer keeps the invariant.
LEMMA NextInv == Inv /\ [Next]_vars => Inv'
<1> SUFFICES ASSUME Inv, [Next]_vars PROVE Inv'
  OBVIOUS
<1>1. ASSUME NEW i \in Items, Add(i) PROVE Inv'
  BY <1>1, AddInv
<1>2. ASSUME NEW w \in Workers, WorkerStep(w) \/ Flush(w) PROVE Inv'
  BY <1>2, ReceiveInv, WorkerExitInv, WriteItemInv, WriteFailsInv, FlushInv DEF WorkerStep
<1>3. CASE FlusherStep
  BY <1>3, FlusherInv
<1>4. CASE CloserStep \/ Close
  BY <1>4, CloserInv
<1>5. CASE (\E i \in Items : AddCancelled(i)) \/ CtxCancel \/ TickerFires
  BY <1>5, OtherInv
<1>6. CASE UNCHANGED vars
  BY <1>6, StutterInv
<1> QED
  BY <1>1, <1>2, <1>3, <1>4, <1>5, <1>6 DEF Next

\* The invariant holds throughout.
LEMMA AlwaysInv == Spec => []Inv
  BY InitInv, NextInv, PTL DEF Spec

-----------------------------------------------------------------------------
(* Theorems *)

\* The variables keep their types, a channel never holds more than NumWorkers
\* items, and whoever holds a worker's mutex across a flush is flushing that
\* worker's buffer: two flushes of a buffer never overlap.
THEOREM TypeCorrect == Spec => []TypeOK
<1>1. Inv => TypeOK
  <2> SUFFICES ASSUME Inv PROVE TypeOK
    OBVIOUS
  <2>1. \A w : flusher = [pc |-> "flush", at |-> w] <=> flusher.pc = "flush" /\ flusher.at = w
    BY DEF Inv, MutexInv, FlusherType
  <2>2. \A w : closer = [pc |-> "flush", at |-> w] <=> closer.pc = "flush" /\ closer.at = w
    BY DEF Inv, MutexInv, CloserType
  <2>3. \A w \in Workers :
          /\ mu[w] = "worker" <=> worker[w].pc = "flush"
          /\ mu[w] = "flusher" <=> flusher = [pc |-> "flush", at |-> w]
          /\ mu[w] = "closer" <=> closer = [pc |-> "flush", at |-> w]
    BY <2>1, <2>2 DEF Inv, MutexInv
  <2>4. \A w \in Workers : worker[w].pc \in {"receive", "write", "flush", "exited"}
    BY DEF Inv, PipeType, WorkerType
  <2>5. /\ added \in Seq(Items) /\ rejected \subseteq Items /\ ctxDone \in BOOLEAN
        /\ \A w \in Workers : queue[w] \in Seq(Items) /\ Len(queue[w]) <= NumWorkers
    BY DEF Inv, PipeType
  <2> QED
    BY <2>3, <2>4, <2>5 DEF TypeOK
<1> QED
  BY <1>1, AlwaysInv, PTL

\* The callbacks of an item are called at most once, whichever of the size of
\* the buffer, the ticker and Close makes it leave, and whatever fails.
THEOREM ReportOnce == Spec => []ReportedOnce
<1>1. Inv => ReportedOnce
  <2> SUFFICES ASSUME Inv, NEW i \in Items PROVE reports[i] <= 1
    BY DEF ReportedOnce
  <2>1. reports[i] \in {0, 1}
    BY DEF Inv, ReportInv
  <2> QED
    BY <2>1
<1> QED
  BY <1>1, AlwaysInv, PTL

\* Actions on one document reach the server in the order in which Add took
\* them, for any number of workers, any items and any flush threshold.
THEOREM OrderPerDocument == Spec => []DocumentOrder
<1>1. Inv => DocumentOrder
  BY DEF Inv, ExecInv, OrderInv, SameDocument, Earlier, DocumentOrder
<1> QED
  BY <1>1, AlwaysInv, PTL

\* When Close has returned nil and the construction context is not cancelled,
\* every item that Add took has been reported exactly once.
THEOREM CloseReportsAll == Spec => []CloseDrains
<1>1. Inv => CloseDrains
  <2> SUFFICES ASSUME Inv, closer.pc = "closed", ~ctxDone, NEW i \in Range(added)
               PROVE  reports[i] = 1
    BY DEF CloseDrains
  <2>1. \A w \in Workers : worker[w].pc = "exited" /\ queue[w] = <<>> /\ items[w] = <<>>
    BY DEF Inv, CloseInv, AllExited
  <2>2. \A w \in Workers : ~Located(w, i)
    BY <2>1 DEF Located, Queued, Held, Buffered
  <2> QED
    BY <2>2 DEF Inv, ReportInv
<1> QED
  BY <1>1, AlwaysInv, PTL

=============================================================================
