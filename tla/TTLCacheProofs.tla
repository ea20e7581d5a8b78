--------------------------- MODULE TTLCacheProofs ---------------------------
(***************************************************************************)
(* Proofs about TTLCache for any number of clients, keys, values and       *)
(* workers: the inductive invariant Inv, the properties it implies, and    *)
(* the refinement of SharedValues.                                         *)
(***************************************************************************)
EXTENDS TTLCache, FiniteSetTheorems, TLAPS

CallType ==
  [pc : {"idle", "build", "loaded", "insert", "locked", "discard", "holding",
         "released", "owning", "closing"},
   key : Keys \cup {NoKey}, entry : Values \cup {NoValue}, own : Values \cup {NoValue}]
WorkerType ==
  [pc : {"none", "waiting", "sweep", "claim", "close", "delete"},
   done : BOOLEAN, left : SUBSET Keys, key : Keys \cup {NoKey}]
Owners == {"insert", "locked", "discard", "owning", "closing"}
Pointers == {"loaded", "discard", "holding", "released"}

\* Everything but the bound on refCount, which follows from RefCountExact.
Typed ==
  /\ cache \in [Keys -> Values \cup {NoValue}] /\ mapKeys \subseteq Keys
  /\ mu \in Getters \cup Workers \cup {NoOne} /\ cancel \in Workers \cup {NoOne}
  /\ refCount \in [Values -> Int]
  /\ busy \subseteq Values /\ built \subseteq Values
  /\ closes \in [Values -> Nat]
  /\ get \in [Getters -> CallType] /\ wk \in [Workers -> WorkerType]

\* A value a call has built and not published is its own, open and unknown to
\* everybody else.
OwnInv ==
  \A g \in Getters :
    /\ get[g].pc \in Owners =>
         /\ get[g].own \in built
         /\ refCount[get[g].own] = 0 /\ closes[get[g].own] = 0
         /\ \A k \in Keys : cache[k] # get[g].own
         /\ \A h \in Getters :
              /\ h # g => get[h].own # get[g].own
              /\ get[h].pc \in Pointers => get[h].entry # get[g].own
    /\ get[g].pc \notin Owners => get[g].own = NoValue
    /\ get[g].pc \in {"insert", "locked", "loaded"} => get[g].key \in Keys

\* An entry a call has loaded, perhaps long ago, is open unless it is claimed.
EntryInv ==
  \A g \in Getters : get[g].pc \in Pointers =>
    /\ get[g].entry \in built
    /\ refCount[get[g].entry] >= 0 => closes[get[g].entry] = 0

\* A stored entry is open and unclaimed, except the one being evicted.
CacheInv ==
  /\ \A k \in Keys : cache[k] # NoValue =>
       /\ cache[k] \in built
       /\ \/ refCount[cache[k]] >= 0 /\ closes[cache[k]] = 0
          \/ /\ mu \in Workers
             /\ wk[mu].pc \in {"close", "delete"} /\ wk[mu].key = k
  /\ \A j, k \in Keys : cache[j] # NoValue /\ cache[j] = cache[k] => j = k
  /\ mapKeys = {k \in Keys : cache[k] # NoValue}

\* Cache.mu has one holder, and the eviction of an entry proceeds under it.
LockInv ==
  /\ \A g \in Getters : get[g].pc = "locked" <=> mu = g
  /\ \A w \in Workers :
       /\ wk[w].pc \in {"sweep", "claim", "close", "delete"} <=> mu = w
       /\ wk[w].pc \in {"claim", "close", "delete"} =>
            wk[w].key \in Keys /\ cache[wk[w].key] \in Values
       /\ wk[w].pc = "claim" => refCount[cache[wk[w].key]] >= 0
       /\ wk[w].pc = "close" =>
            refCount[cache[wk[w].key]] = -1 /\ closes[cache[wk[w].key]] = 0
       /\ wk[w].pc = "delete" =>
            refCount[cache[wk[w].key]] = -1 /\ closes[cache[wk[w].key]] = 1

\* A registered worker runs, and one is registered while there are entries.
WorkerInv ==
  /\ cancel # NoOne => wk[cancel].pc # "none" /\ ~wk[cancel].done
  /\ Evicts /\ mapKeys # {} => cancel # NoOne

UnbuiltInv == \A v \in Values \ built : refCount[v] = 0 /\ closes[v] = 0

\* A consequence of RefCountExact that needs no cardinalities.
HolderCounted ==
  \A g \in Getters : get[g].pc \in {"discard", "holding"} => refCount[get[g].entry] > 0

SafeInv == Typed /\ OwnInv /\ EntryInv /\ CacheInv /\ LockInv /\ UnbuiltInv
Inv == SafeInv /\ RefCountExact /\ WorkerInv /\ NothingLeaks

-----------------------------------------------------------------------------
(* What the record updates do *)

\* Moving a call on changes its pc and nothing else.
LEMMA StepEffect ==
  ASSUME Typed, NEW g \in Getters, NEW pc,
         pc \in {"idle", "build", "loaded", "insert", "locked", "discard",
                 "holding", "released", "owning", "closing"},
         Step(g, pc)
  PROVE  /\ get' \in [Getters -> CallType]
         /\ get'[g].pc = pc
         /\ get'[g].key = get[g].key /\ get'[g].entry = get[g].entry
         /\ get'[g].own = get[g].own
         /\ \A h \in Getters : h # g => get'[h] = get[h]
  BY DEF Typed, CallType, Step

\* A call that finds its key stored takes the stored entry.
LEMMA InsertHitEffect ==
  ASSUME Typed, NEW g \in Getters, InsertHit(g), cache[get[g].key] \in Values
  PROVE  /\ get' \in [Getters -> CallType]
         /\ get'[g].pc = "discard" /\ get'[g].entry = cache[get[g].key]
         /\ get'[g].own = get[g].own /\ get'[g].key = get[g].key
         /\ \A h \in Getters : h # g => get'[h] = get[h]
<1>1. get' = [get EXCEPT ![g].pc = "discard", ![g].entry = cache[get[g].key]]
  BY DEF InsertHit
<1> QED
  BY <1>1 DEF Typed, CallType

\* Moving a worker on leaves its context and the other workers alone.
LEMMA WorkerAtEffect ==
  ASSUME Typed, NEW w \in Workers, NEW pc, NEW left \in SUBSET Keys,
         NEW k \in Keys \cup {NoKey},
         pc \in {"none", "waiting", "sweep", "claim", "close", "delete"},
         WorkerAt(w, pc, left, k)
  PROVE  /\ wk' \in [Workers -> WorkerType]
         /\ wk'[w].pc = pc /\ wk'[w].left = left /\ wk'[w].key = k
         /\ wk'[w].done = wk[w].done
         /\ \A x \in Workers : x # w => wk'[x] = wk[x]
  BY DEF Typed, WorkerType, WorkerAt

\* A sweep starts with the keys of the map.
LEMMA SweepEffect ==
  ASSUME Typed, NEW w \in Workers, Sweep(w)
  PROVE  wk'[w].pc = "sweep" /\ \A x \in Workers : x # w => wk'[x] = wk[x]
<1>1. WorkerAt(w, "sweep", mapKeys, NoKey) /\ mapKeys \in SUBSET Keys
  BY DEF Sweep, Typed
<1> QED
  BY <1>1, WorkerAtEffect

\* Steps that move a call on and touch no value its builders own.
LEMMA OwnFrame ==
  ASSUME OwnInv, UNCHANGED <<cache, built, closes>>,
         \A h \in Getters :
           /\ get'[h].own = get[h].own /\ get'[h].key = get[h].key
           /\ get'[h].pc \in Owners <=> get[h].pc \in Owners
           /\ get'[h].pc \in Pointers =>
                get[h].pc \in Pointers /\ get'[h].entry = get[h].entry
           /\ get'[h].pc \in {"insert", "locked", "loaded"} =>
                get[h].pc \in {"insert", "locked", "loaded"}
           /\ get[h].pc \in Owners => refCount'[get[h].own] = refCount[get[h].own]
  PROVE  OwnInv'
  BY DEF OwnInv

\* The end of a sweep moves one worker and may cancel one.
LEMMA SweepEndEffect ==
  ASSUME Typed, NEW w \in Workers, SweepEnd(w)
  PROVE  /\ wk' \in [Workers -> WorkerType]
         /\ wk[w].pc = "sweep" /\ wk'[w].pc = "waiting"
         /\ \A x \in Workers : x # w => wk'[x].pc = wk[x].pc /\ wk'[x].key = wk[x].key
         /\ \A x \in Workers : (StopsWorker /\ x = cancel) \/ wk'[x].done = wk[x].done
<1>1. wk[w].pc = "sweep"
  BY DEF SweepEnd
<1>2. CASE StopsWorker
  <2>1. wk' = [x \in Workers |->
                 [wk[x] EXCEPT !.pc = IF x = w THEN "waiting" ELSE @,
                               !.done = @ \/ x = cancel]]
    BY <1>2 DEF SweepEnd
  <2>2. \A x \in Workers :
          /\ wk'[x] \in WorkerType
          /\ wk'[x].pc = (IF x = w THEN "waiting" ELSE wk[x].pc)
          /\ wk'[x].key = wk[x].key
          /\ wk'[x].done = (wk[x].done \/ x = cancel)
    BY <2>1 DEF Typed, WorkerType
  <2>3. \A x \in Workers : wk[x].done \in BOOLEAN
    BY DEF Typed, WorkerType
  <2>4. wk' \in [Workers -> WorkerType]
    BY <2>1, <2>2
  <2>5. ASSUME NEW x \in Workers, x # cancel PROVE wk'[x].done = wk[x].done
    BY <2>2, <2>3, <2>5, Zenon
  <2> QED
    BY <1>1, <1>2, <2>2, <2>4, <2>5
<1>3. CASE ~StopsWorker
  <2>1. WorkerAt(w, "waiting", {}, NoKey)
    BY <1>3 DEF SweepEnd
  <2> QED
    BY <1>1, <2>1, WorkerAtEffect
<1> QED
  BY <1>2, <1>3

\* A client that holds a value is counted.
LEMMA HoldersCounted == ASSUME Typed, EntryInv, RefCountExact PROVE HolderCounted
<1> SUFFICES ASSUME NEW g \in Getters, get[g].pc \in {"discard", "holding"}
             PROVE  refCount[get[g].entry] > 0
  BY DEF HolderCounted
<1> DEFINE v == get[g].entry
<1>1. v \in Values /\ g \in Holders(v)
  BY DEF EntryInv, Typed, Pointers, Holders
<1>2. IsFiniteSet(Holders(v))
  BY GettersAssumption, FS_Subset DEF Holders
<1>3. Cardinality(Holders(v)) # 0 /\ Cardinality(Holders(v)) \in Nat
  BY <1>1, <1>2, FS_EmptySet, FS_CardinalityType
<1> QED
  BY <1>1, <1>3 DEF RefCountExact

-----------------------------------------------------------------------------
(* The invariant is inductive: one lemma per part, one case per action *)

\* Every step keeps the types.
LEMMA TypedStep == ASSUME SafeInv, [Next]_vars PROVE Typed'
<1> USE NamesAssumption DEF SafeInv, Typed, OwnInv, EntryInv, LockInv, Owners,
   Pointers, CallType, WorkerType
<1>1. ASSUME NEW g \in Getters, NEW k \in Keys \cup {NoKey}, Lookup(g, k) PROVE Typed'
  BY <1>1 DEF Lookup, Call
<1>2. ASSUME NEW g \in Getters, IncIfLive(g) PROVE Typed'
  <2>1. get[g].entry \in Values /\ get[g].key \in Keys /\ get[g].own = NoValue
    BY <1>2 DEF IncIfLive
  <2>2. CASE Live(refCount[get[g].entry])
    <3>1. Step(g, "holding")
      BY <1>2, <2>2 DEF IncIfLive
    <3>2. /\ get[g].pc = "loaded" /\ refCount[get[g].entry] >= 0
          /\ refCount' = [refCount EXCEPT ![get[g].entry] = @ + 1]
          /\ UNCHANGED <<cache, mapKeys, mu, cancel, busy, built, closes, wk>>
      BY <1>2, <2>2 DEF IncIfLive, Live
    <3>3. /\ get'[g].pc = "holding" /\ get'[g].key = get[g].key
          /\ get'[g].entry = get[g].entry /\ get'[g].own = get[g].own
          /\ get' \in [Getters -> CallType]
          /\ \A h \in Getters : h # g => get'[h] = get[h]
      BY <3>1, StepEffect
    <3> QED
      BY <2>1, <3>1, <3>2, <3>3, <2>2
  <2>3. CASE ~Live(refCount[get[g].entry])
    <3>1. Step(g, "build")
      BY <1>2, <2>3 DEF IncIfLive
    <3>2. /\ get[g].pc = "loaded"
          /\ UNCHANGED <<cache, mapKeys, mu, cancel, refCount, busy, built, closes, wk>>
      BY <1>2, <2>3 DEF IncIfLive
    <3>3. /\ get'[g].pc = "build" /\ get'[g].key = get[g].key
          /\ get'[g].entry = get[g].entry /\ get'[g].own = get[g].own
          /\ get' \in [Getters -> CallType]
          /\ \A h \in Getters : h # g => get'[h] = get[h]
      BY <3>1, StepEffect
    <3> QED
      BY <2>1, <3>1, <3>2, <3>3, <2>3
  <2> QED
    BY <2>2, <2>3
<1>3. ASSUME NEW g \in Getters, New(g) PROVE Typed'
  BY <1>3 DEF New, Done, Call
<1>4. ASSUME NEW g \in Getters, Lock(g) PROVE Typed'
  BY <1>4 DEF Lock, Step
<1>5. ASSUME NEW g \in Getters, InsertHit(g) PROVE Typed'
  <2>1. cache[get[g].key] \in Values
    BY <1>5 DEF InsertHit, Present, Live
  <2>2. get' \in [Getters -> CallType]
    BY <1>5, <2>1, InsertHitEffect
  <2>3. refCount' \in [Values -> Int] /\ mu' = NoOne
    BY <1>5, <2>1 DEF InsertHit, Present, Live
  <2> QED
    BY <1>5, <2>2, <2>3 DEF InsertHit
<1>6. ASSUME NEW g \in Getters, InsertMiss(g) PROVE Typed'
  BY <1>6 DEF InsertMiss, Present, Live, EnsureWorker, NoWorkerNeeded
<1>7. ASSUME NEW g \in Getters, Discard(g) PROVE Typed'
  BY <1>7 DEF Discard
<1>8. ASSUME NEW g \in Getters, CloseOwn(g) PROVE Typed'
  BY <1>8 DEF CloseOwn, Done, Call
<1>9. ASSUME NEW g \in Getters, Use(g) PROVE Typed'
  BY <1>9 DEF Use
<1>10. ASSUME NEW g \in Getters, Release(g) PROVE Typed'
  BY <1>10 DEF Release, Step
<1>11. ASSUME NEW g \in Getters, ReleaseAgain(g) PROVE Typed'
  BY <1>11 DEF ReleaseAgain, OnceValue, Done, Call
<1>12. ASSUME NEW w \in Workers, Sweep(w) PROVE Typed'
  <2>1. WorkerAt(w, "sweep", mapKeys, NoKey)
        /\ mapKeys \in SUBSET Keys /\ NoKey \in Keys \cup {NoKey}
    BY <1>12 DEF Sweep
  <2>2. wk' \in [Workers -> WorkerType]
    BY <2>1, WorkerAtEffect
  <2> QED
    BY <1>12, <2>2 DEF Sweep
<1>13. ASSUME NEW w \in Workers, NEW k \in Keys, SweepVisit(w, k) PROVE Typed'
  BY <1>13 DEF SweepVisit, WorkerAt, Observed
<1>14. ASSUME NEW w \in Workers, SweepClaim(w) PROVE Typed'
  BY <1>14 DEF SweepClaim, WorkerAt
<1>15. ASSUME NEW w \in Workers, SweepClose(w) PROVE Typed'
  <2>1. WorkerAt(w, "delete", wk[w].left, wk[w].key)
        /\ wk[w].left \in SUBSET Keys /\ wk[w].key \in Keys \cup {NoKey}
    BY <1>15 DEF SweepClose
  <2>2. wk' \in [Workers -> WorkerType]
    BY <2>1, WorkerAtEffect
  <2> QED
    BY <1>15, <2>2 DEF SweepClose
<1>16. ASSUME NEW w \in Workers, SweepDelete(w) PROVE Typed'
  BY <1>16 DEF SweepDelete, WorkerAt
<1>17. ASSUME NEW w \in Workers, SweepEnd(w) PROVE Typed'
  <2>1. wk' \in [Workers -> WorkerType]
    BY <1>17, SweepEndEffect
  <2>2. cancel' \in {cancel, NoOne} /\ mu' = NoOne
    BY <1>17 DEF SweepEnd
  <2> QED
    BY <1>17, <2>1, <2>2 DEF SweepEnd
<1>18. ASSUME NEW w \in Workers, WorkerExit(w) PROVE Typed'
  <2>1. WorkerAt(w, "none", {}, NoKey) /\ {} \in SUBSET Keys /\ NoKey \in Keys \cup {NoKey}
    BY <1>18 DEF WorkerExit
  <2>2. wk' \in [Workers -> WorkerType]
    BY <2>1, WorkerAtEffect
  <2> QED
    BY <1>18, <2>2 DEF WorkerExit
<1>19. CASE UNCHANGED vars
  BY <1>19 DEF vars
<1> QED
  BY <1>1, <1>2, <1>3, <1>4, <1>5, <1>6, <1>7, <1>8, <1>9, <1>10, <1>11, <1>12, <1>13,
     <1>14, <1>15, <1>16, <1>17, <1>18, <1>19 DEF Next, LibraryStep, CallerStep,
     WorkerStep

\* Unpublished values stay private.
LEMMA OwnStep == ASSUME SafeInv, [Next]_vars PROVE OwnInv'
<1> USE NamesAssumption DEF SafeInv, Typed, OwnInv, EntryInv, CacheInv, LockInv,
   UnbuiltInv, Owners, Pointers, CallType, WorkerType
<1>1. ASSUME NEW g \in Getters, NEW k \in Keys \cup {NoKey}, Lookup(g, k) PROVE OwnInv'
  <2>1. PICK pc \in {"build", "loaded"}, j \in Keys \cup {NoKey}, e \in Values \cup {NoValue} :
           /\ get' = [get EXCEPT ![g] = [pc |-> pc, key |-> j, entry |-> e, own |-> NoValue]]
           /\ pc = "loaded" => j \in Keys /\ e = cache[j] /\ e # NoValue
    BY <1>1 DEF Lookup, Call
  <2>2. UNCHANGED <<cache, refCount, built, closes, mu, wk>>
    BY <1>1 DEF Lookup
  <2>3. get[g].pc = "idle"
    BY <1>1 DEF Lookup
  <2> QED
    BY <2>1, <2>2, <2>3
<1>2. ASSUME NEW g \in Getters, IncIfLive(g) PROVE OwnInv'
  <2>1. get[g].entry \in Values /\ get[g].key \in Keys /\ get[g].own = NoValue
    BY <1>2 DEF IncIfLive
  <2>2. CASE Live(refCount[get[g].entry])
    <3>1. Step(g, "holding")
      BY <1>2, <2>2 DEF IncIfLive
    <3>2. /\ get[g].pc = "loaded" /\ refCount[get[g].entry] >= 0
          /\ refCount' = [refCount EXCEPT ![get[g].entry] = @ + 1]
          /\ UNCHANGED <<cache, mapKeys, mu, cancel, busy, built, closes, wk>>
      BY <1>2, <2>2 DEF IncIfLive, Live
    <3>3. /\ get'[g].pc = "holding" /\ get'[g].key = get[g].key
          /\ get'[g].entry = get[g].entry /\ get'[g].own = get[g].own
          /\ get' \in [Getters -> CallType]
          /\ \A h \in Getters : h # g => get'[h] = get[h]
      BY <3>1, StepEffect
    <3>4. \A h \in Getters : get[h].pc \in Owners => get[h].own # get[g].entry
      BY <3>2 DEF OwnInv, Pointers
    <3>5. \A h \in Getters : get[h].pc \in Owners => get[h].own \in Values
      BY DEF OwnInv, Typed
    <3>6. \A h \in Getters :
            get[h].pc \in Owners => refCount'[get[h].own] = refCount[get[h].own]
      BY <2>1, <3>2, <3>4, <3>5 DEF Typed
    <3> QED
      BY <3>2, <3>3, <3>6, OwnFrame DEF Owners, Pointers
  <2>3. CASE ~Live(refCount[get[g].entry])
    <3>1. Step(g, "build")
      BY <1>2, <2>3 DEF IncIfLive
    <3>2. /\ get[g].pc = "loaded"
          /\ UNCHANGED <<cache, mapKeys, mu, cancel, refCount, busy, built, closes, wk>>
      BY <1>2, <2>3 DEF IncIfLive
    <3>3. /\ get'[g].pc = "build" /\ get'[g].key = get[g].key
          /\ get'[g].entry = get[g].entry /\ get'[g].own = get[g].own
          /\ get' \in [Getters -> CallType]
          /\ \A h \in Getters : h # g => get'[h] = get[h]
      BY <3>1, StepEffect
    <3> QED
      BY <3>2, <3>3, OwnFrame DEF Owners, Pointers
  <2> QED
    BY <2>2, <2>3
<1>3. ASSUME NEW g \in Getters, New(g) PROVE OwnInv'
  <2>1. CASE Done(g) /\ UNCHANGED built
    BY <1>3, <2>1 DEF New, Done, Call
  <2>2. ASSUME NEW v \in Values \ built, built' = built \cup {v},
               get' = [get EXCEPT ![g] =
                 Call(IF get[g].key = NoKey THEN "owning" ELSE "insert",
                      get[g].key, NoValue, v)]
        PROVE  OwnInv'
    <3>1. refCount[v] = 0 /\ closes[v] = 0 /\ (\A k \in Keys : cache[k] # v)
      BY <2>2
    <3>2. \A h \in Getters : get[h].own # v /\ (get[h].pc \in Pointers => get[h].entry # v)
      BY <2>2
    <3>3. UNCHANGED <<cache, refCount, closes>>
      BY <1>3 DEF New
    <3> QED
      BY <1>3, <2>2, <3>1, <3>2, <3>3 DEF New, Call
  <2> QED
    BY <1>3, <2>1, <2>2 DEF New
<1>4. ASSUME NEW g \in Getters, Lock(g) PROVE OwnInv'
  BY <1>4 DEF Lock, Step
<1>5. ASSUME NEW g \in Getters, InsertHit(g) PROVE OwnInv'
  BY <1>5 DEF InsertHit, Present, Live
<1>6. ASSUME NEW g \in Getters, InsertMiss(g) PROVE OwnInv'
  BY <1>6 DEF InsertMiss, Present, Live, EnsureWorker, NoWorkerNeeded
<1>7. ASSUME NEW g \in Getters, Discard(g) PROVE OwnInv'
  BY <1>7 DEF Discard
<1>8. ASSUME NEW g \in Getters, CloseOwn(g) PROVE OwnInv'
  BY <1>8 DEF CloseOwn, Done, Call
<1>9. ASSUME NEW g \in Getters, Use(g) PROVE OwnInv'
  BY <1>9 DEF Use
<1>10. ASSUME NEW g \in Getters, Release(g) PROVE OwnInv'
  BY <1>10 DEF Release, Step
<1>11. ASSUME NEW g \in Getters, ReleaseAgain(g) PROVE OwnInv'
  BY <1>11 DEF ReleaseAgain, OnceValue, Done, Call
<1>12. ASSUME NEW w \in Workers, Sweep(w) PROVE OwnInv'
  <2>1. UNCHANGED <<cache, refCount, built, closes, get>>
    BY <1>12 DEF Sweep
  <2> QED
    BY <2>1
<1>13. ASSUME NEW w \in Workers, NEW k \in Keys, SweepVisit(w, k) PROVE OwnInv'
  BY <1>13 DEF SweepVisit, WorkerAt, Observed
<1>14. ASSUME NEW w \in Workers, SweepClaim(w) PROVE OwnInv'
  BY <1>14 DEF SweepClaim, WorkerAt
<1>15. ASSUME NEW w \in Workers, SweepClose(w) PROVE OwnInv'
  BY <1>15 DEF SweepClose, WorkerAt
<1>16. ASSUME NEW w \in Workers, SweepDelete(w) PROVE OwnInv'
  BY <1>16 DEF SweepDelete, WorkerAt
<1>17. ASSUME NEW w \in Workers, SweepEnd(w) PROVE OwnInv'
  <2>1. UNCHANGED <<cache, refCount, built, closes, get>>
    BY <1>17 DEF SweepEnd
  <2> QED
    BY <2>1
<1>18. ASSUME NEW w \in Workers, WorkerExit(w) PROVE OwnInv'
  BY <1>18 DEF WorkerExit, WorkerAt
<1>19. CASE UNCHANGED vars
  BY <1>19 DEF vars
<1> QED
  BY <1>1, <1>2, <1>3, <1>4, <1>5, <1>6, <1>7, <1>8, <1>9, <1>10, <1>11, <1>12, <1>13,
     <1>14, <1>15, <1>16, <1>17, <1>18, <1>19 DEF Next, LibraryStep, CallerStep,
     WorkerStep

\* Loaded entries stay open or claimed.
LEMMA EntryStep == ASSUME SafeInv, [Next]_vars PROVE EntryInv'
<1> USE NamesAssumption DEF SafeInv, Typed, OwnInv, EntryInv, CacheInv, LockInv,
   UnbuiltInv, Owners, Pointers, CallType, WorkerType
<1>1. ASSUME NEW g \in Getters, NEW k \in Keys \cup {NoKey}, Lookup(g, k) PROVE EntryInv'
  <2>1. PICK pc \in {"build", "loaded"}, j \in Keys \cup {NoKey}, e \in Values \cup {NoValue} :
           /\ get' = [get EXCEPT ![g] = [pc |-> pc, key |-> j, entry |-> e, own |-> NoValue]]
           /\ pc = "loaded" => j \in Keys /\ e = cache[j] /\ e # NoValue
    BY <1>1 DEF Lookup, Call
  <2>2. UNCHANGED <<cache, refCount, built, closes, mu, wk>>
    BY <1>1 DEF Lookup
  <2>3. get[g].pc = "idle"
    BY <1>1 DEF Lookup
  <2> QED
    BY <2>1, <2>2, <2>3
<1>2. ASSUME NEW g \in Getters, IncIfLive(g) PROVE EntryInv'
  <2>1. get[g].entry \in Values /\ get[g].key \in Keys /\ get[g].own = NoValue
    BY <1>2 DEF IncIfLive
  <2>2. CASE Live(refCount[get[g].entry])
    <3>1. Step(g, "holding")
      BY <1>2, <2>2 DEF IncIfLive
    <3>2. /\ get[g].pc = "loaded" /\ refCount[get[g].entry] >= 0
          /\ refCount' = [refCount EXCEPT ![get[g].entry] = @ + 1]
          /\ UNCHANGED <<cache, mapKeys, mu, cancel, busy, built, closes, wk>>
      BY <1>2, <2>2 DEF IncIfLive, Live
    <3>3. /\ get'[g].pc = "holding" /\ get'[g].key = get[g].key
          /\ get'[g].entry = get[g].entry /\ get'[g].own = get[g].own
          /\ get' \in [Getters -> CallType]
          /\ \A h \in Getters : h # g => get'[h] = get[h]
      BY <3>1, StepEffect
    <3> QED
      BY <2>1, <3>1, <3>2, <3>3, <2>2
  <2>3. CASE ~Live(refCount[get[g].entry])
    <3>1. Step(g, "build")
      BY <1>2, <2>3 DEF IncIfLive
    <3>2. /\ get[g].pc = "loaded"
          /\ UNCHANGED <<cache, mapKeys, mu, cancel, refCount, busy, built, closes, wk>>
      BY <1>2, <2>3 DEF IncIfLive
    <3>3. /\ get'[g].pc = "build" /\ get'[g].key = get[g].key
          /\ get'[g].entry = get[g].entry /\ get'[g].own = get[g].own
          /\ get' \in [Getters -> CallType]
          /\ \A h \in Getters : h # g => get'[h] = get[h]
      BY <3>1, StepEffect
    <3> QED
      BY <2>1, <3>1, <3>2, <3>3, <2>3
  <2> QED
    BY <2>2, <2>3
<1>3. ASSUME NEW g \in Getters, New(g) PROVE EntryInv'
  BY <1>3 DEF New, Done, Call
<1>4. ASSUME NEW g \in Getters, Lock(g) PROVE EntryInv'
  BY <1>4 DEF Lock, Step
<1>5. ASSUME NEW g \in Getters, InsertHit(g) PROVE EntryInv'
  BY <1>5 DEF InsertHit, Present, Live
<1>6. ASSUME NEW g \in Getters, InsertMiss(g) PROVE EntryInv'
  BY <1>6 DEF InsertMiss, Present, Live, EnsureWorker, NoWorkerNeeded
<1>7. ASSUME NEW g \in Getters, Discard(g) PROVE EntryInv'
  BY <1>7 DEF Discard
<1>8. ASSUME NEW g \in Getters, CloseOwn(g) PROVE EntryInv'
  BY <1>8 DEF CloseOwn, Done, Call
<1>9. ASSUME NEW g \in Getters, Use(g) PROVE EntryInv'
  BY <1>9 DEF Use
<1>10. ASSUME NEW g \in Getters, Release(g) PROVE EntryInv'
  BY <1>10 DEF Release, Step
<1>11. ASSUME NEW g \in Getters, ReleaseAgain(g) PROVE EntryInv'
  BY <1>11 DEF ReleaseAgain, OnceValue, Done, Call
<1>12. ASSUME NEW w \in Workers, Sweep(w) PROVE EntryInv'
  BY <1>12 DEF Sweep, WorkerAt
<1>13. ASSUME NEW w \in Workers, NEW k \in Keys, SweepVisit(w, k) PROVE EntryInv'
  BY <1>13 DEF SweepVisit, WorkerAt, Observed
<1>14. ASSUME NEW w \in Workers, SweepClaim(w) PROVE EntryInv'
  BY <1>14 DEF SweepClaim, WorkerAt
<1>15. ASSUME NEW w \in Workers, SweepClose(w) PROVE EntryInv'
  BY <1>15 DEF SweepClose, WorkerAt
<1>16. ASSUME NEW w \in Workers, SweepDelete(w) PROVE EntryInv'
  BY <1>16 DEF SweepDelete, WorkerAt
<1>17. ASSUME NEW w \in Workers, SweepEnd(w) PROVE EntryInv'
  BY <1>17 DEF SweepEnd, StopsWorker, WorkerAt
<1>18. ASSUME NEW w \in Workers, WorkerExit(w) PROVE EntryInv'
  BY <1>18 DEF WorkerExit, WorkerAt
<1>19. CASE UNCHANGED vars
  BY <1>19 DEF vars
<1> QED
  BY <1>1, <1>2, <1>3, <1>4, <1>5, <1>6, <1>7, <1>8, <1>9, <1>10, <1>11, <1>12, <1>13,
     <1>14, <1>15, <1>16, <1>17, <1>18, <1>19 DEF Next, LibraryStep, CallerStep,
     WorkerStep

\* Stored entries stay live, one key each.
LEMMA CacheStep == ASSUME SafeInv, HolderCounted, [Next]_vars PROVE CacheInv'
<1> USE NamesAssumption DEF SafeInv, Typed, OwnInv, EntryInv, CacheInv, LockInv,
   UnbuiltInv, Owners, Pointers, CallType, WorkerType
<1>1. ASSUME NEW g \in Getters, NEW k \in Keys \cup {NoKey}, Lookup(g, k) PROVE CacheInv'
  BY <1>1 DEF Lookup, Call
<1>2. ASSUME NEW g \in Getters, IncIfLive(g) PROVE CacheInv'
  BY <1>2 DEF IncIfLive, Step, Live
<1>3. ASSUME NEW g \in Getters, New(g) PROVE CacheInv'
  BY <1>3 DEF New, Done, Call
<1>4. ASSUME NEW g \in Getters, Lock(g) PROVE CacheInv'
  BY <1>4 DEF Lock, Step
<1>5. ASSUME NEW g \in Getters, InsertHit(g) PROVE CacheInv'
  BY <1>5 DEF InsertHit, Present, Live
<1>6. ASSUME NEW g \in Getters, InsertMiss(g) PROVE CacheInv'
  BY <1>6 DEF InsertMiss, Present, Live, EnsureWorker, NoWorkerNeeded
<1>7. ASSUME NEW g \in Getters, Discard(g) PROVE CacheInv'
  BY <1>7 DEF Discard
<1>8. ASSUME NEW g \in Getters, CloseOwn(g) PROVE CacheInv'
  BY <1>8 DEF CloseOwn, Done, Call
<1>9. ASSUME NEW g \in Getters, Use(g) PROVE CacheInv'
  BY <1>9 DEF Use
<1>10. ASSUME NEW g \in Getters, Release(g) PROVE CacheInv'
  <2>1. CASE get[g].pc = "holding"
    <3>1. Step(g, "released") /\ get[g].entry \in Values /\ refCount[get[g].entry] > 0
      BY <1>10, <2>1 DEF Release, HolderCounted
    <3>2. /\ refCount' = [refCount EXCEPT ![get[g].entry] = @ - 1]
          /\ UNCHANGED <<cache, mapKeys, mu, cancel, busy, built, closes, wk>>
      BY <1>10, <2>1 DEF Release
    <3>3. /\ get'[g].pc = "released" /\ get'[g].key = get[g].key
          /\ get'[g].entry = get[g].entry /\ get'[g].own = get[g].own
          /\ get' \in [Getters -> CallType]
          /\ \A h \in Getters : h # g => get'[h] = get[h]
      BY <3>1, StepEffect
    <3> QED
      BY <2>1, <3>1, <3>2, <3>3
  <2>2. CASE get[g].pc = "owning"
    BY <1>10, <2>2 DEF Release, Step
  <2> QED
    BY <1>10, <2>1, <2>2 DEF Release
<1>11. ASSUME NEW g \in Getters, ReleaseAgain(g) PROVE CacheInv'
  BY <1>11 DEF ReleaseAgain, OnceValue, Done, Call
<1>12. ASSUME NEW w \in Workers, Sweep(w) PROVE CacheInv'
  BY <1>12 DEF Sweep, WorkerAt
<1>13. ASSUME NEW w \in Workers, NEW k \in Keys, SweepVisit(w, k) PROVE CacheInv'
  BY <1>13 DEF SweepVisit, WorkerAt, Observed
<1>14. ASSUME NEW w \in Workers, SweepClaim(w) PROVE CacheInv'
  BY <1>14 DEF SweepClaim, WorkerAt
<1>15. ASSUME NEW w \in Workers, SweepClose(w) PROVE CacheInv'
  BY <1>15 DEF SweepClose, WorkerAt
<1>16. ASSUME NEW w \in Workers, SweepDelete(w) PROVE CacheInv'
  BY <1>16 DEF SweepDelete, WorkerAt
<1>17. ASSUME NEW w \in Workers, SweepEnd(w) PROVE CacheInv'
  BY <1>17 DEF SweepEnd, StopsWorker, WorkerAt
<1>18. ASSUME NEW w \in Workers, WorkerExit(w) PROVE CacheInv'
  BY <1>18 DEF WorkerExit, WorkerAt
<1>19. CASE UNCHANGED vars
  BY <1>19 DEF vars
<1> QED
  BY <1>1, <1>2, <1>3, <1>4, <1>5, <1>6, <1>7, <1>8, <1>9, <1>10, <1>11, <1>12, <1>13,
     <1>14, <1>15, <1>16, <1>17, <1>18, <1>19 DEF Next, LibraryStep, CallerStep,
     WorkerStep

\* The mutex and the stages of an eviction.
LEMMA LockStep == ASSUME SafeInv, HolderCounted, [Next]_vars PROVE LockInv'
<1> USE NamesAssumption DEF SafeInv, Typed, OwnInv, EntryInv, CacheInv, LockInv,
   UnbuiltInv, Owners, Pointers, CallType, WorkerType
<1>1. ASSUME NEW g \in Getters, NEW k \in Keys \cup {NoKey}, Lookup(g, k) PROVE LockInv'
  BY <1>1 DEF Lookup, Call
<1>2. ASSUME NEW g \in Getters, IncIfLive(g) PROVE LockInv'
  <2>1. get[g].entry \in Values /\ get[g].key \in Keys /\ get[g].own = NoValue
    BY <1>2 DEF IncIfLive
  <2>2. CASE Live(refCount[get[g].entry])
    <3>1. Step(g, "holding")
      BY <1>2, <2>2 DEF IncIfLive
    <3>2. /\ get[g].pc = "loaded" /\ refCount[get[g].entry] >= 0
          /\ refCount' = [refCount EXCEPT ![get[g].entry] = @ + 1]
          /\ UNCHANGED <<cache, mapKeys, mu, cancel, busy, built, closes, wk>>
      BY <1>2, <2>2 DEF IncIfLive, Live
    <3>3. /\ get'[g].pc = "holding" /\ get'[g].key = get[g].key
          /\ get'[g].entry = get[g].entry /\ get'[g].own = get[g].own
          /\ get' \in [Getters -> CallType]
          /\ \A h \in Getters : h # g => get'[h] = get[h]
      BY <3>1, StepEffect
    <3> QED
      BY <2>1, <3>1, <3>2, <3>3, <2>2
  <2>3. CASE ~Live(refCount[get[g].entry])
    <3>1. Step(g, "build")
      BY <1>2, <2>3 DEF IncIfLive
    <3>2. /\ get[g].pc = "loaded"
          /\ UNCHANGED <<cache, mapKeys, mu, cancel, refCount, busy, built, closes, wk>>
      BY <1>2, <2>3 DEF IncIfLive
    <3>3. /\ get'[g].pc = "build" /\ get'[g].key = get[g].key
          /\ get'[g].entry = get[g].entry /\ get'[g].own = get[g].own
          /\ get' \in [Getters -> CallType]
          /\ \A h \in Getters : h # g => get'[h] = get[h]
      BY <3>1, StepEffect
    <3> QED
      BY <2>1, <3>1, <3>2, <3>3, <2>3
  <2> QED
    BY <2>2, <2>3
<1>3. ASSUME NEW g \in Getters, New(g) PROVE LockInv'
  BY <1>3 DEF New, Done, Call
<1>4. ASSUME NEW g \in Getters, Lock(g) PROVE LockInv'
  BY <1>4 DEF Lock, Step
<1>5. ASSUME NEW g \in Getters, InsertHit(g) PROVE LockInv'
  BY <1>5 DEF InsertHit, Present, Live
<1>6. ASSUME NEW g \in Getters, InsertMiss(g) PROVE LockInv'
  BY <1>6 DEF InsertMiss, Present, Live, EnsureWorker, NoWorkerNeeded
<1>7. ASSUME NEW g \in Getters, Discard(g) PROVE LockInv'
  BY <1>7 DEF Discard
<1>8. ASSUME NEW g \in Getters, CloseOwn(g) PROVE LockInv'
  BY <1>8 DEF CloseOwn, Done, Call
<1>9. ASSUME NEW g \in Getters, Use(g) PROVE LockInv'
  BY <1>9 DEF Use
<1>10. ASSUME NEW g \in Getters, Release(g) PROVE LockInv'
  <2>1. CASE get[g].pc = "holding"
    <3>1. Step(g, "released") /\ get[g].entry \in Values /\ refCount[get[g].entry] > 0
      BY <1>10, <2>1 DEF Release, HolderCounted
    <3>2. /\ refCount' = [refCount EXCEPT ![get[g].entry] = @ - 1]
          /\ UNCHANGED <<cache, mapKeys, mu, cancel, busy, built, closes, wk>>
      BY <1>10, <2>1 DEF Release
    <3>3. /\ get'[g].pc = "released" /\ get'[g].key = get[g].key
          /\ get'[g].entry = get[g].entry /\ get'[g].own = get[g].own
          /\ get' \in [Getters -> CallType]
          /\ \A h \in Getters : h # g => get'[h] = get[h]
      BY <3>1, StepEffect
    <3> QED
      BY <2>1, <3>1, <3>2, <3>3
  <2>2. CASE get[g].pc = "owning"
    BY <1>10, <2>2 DEF Release, Step
  <2> QED
    BY <1>10, <2>1, <2>2 DEF Release
<1>11. ASSUME NEW g \in Getters, ReleaseAgain(g) PROVE LockInv'
  BY <1>11 DEF ReleaseAgain, OnceValue, Done, Call
<1>12. ASSUME NEW w \in Workers, Sweep(w) PROVE LockInv'
  <2>1. /\ mu = NoOne /\ mu' = w /\ wk[w].pc = "waiting"
        /\ WorkerAt(w, "sweep", mapKeys, NoKey) /\ mapKeys \in SUBSET Keys
        /\ UNCHANGED <<cache, refCount, closes, get>>
    BY <1>12 DEF Sweep
  <2>2. wk'[w].pc = "sweep" /\ \A x \in Workers : x # w => wk'[x] = wk[x]
    BY <1>12, SweepEffect
  <2> QED
    BY <2>1, <2>2
<1>13. ASSUME NEW w \in Workers, NEW k \in Keys, SweepVisit(w, k) PROVE LockInv'
  BY <1>13 DEF SweepVisit, WorkerAt, Observed
<1>14. ASSUME NEW w \in Workers, SweepClaim(w) PROVE LockInv'
  BY <1>14 DEF SweepClaim, WorkerAt
<1>15. ASSUME NEW w \in Workers, SweepClose(w) PROVE LockInv'
  BY <1>15 DEF SweepClose, WorkerAt
<1>16. ASSUME NEW w \in Workers, SweepDelete(w) PROVE LockInv'
  BY <1>16 DEF SweepDelete, WorkerAt
<1>17. ASSUME NEW w \in Workers, SweepEnd(w) PROVE LockInv'
  <2>1. /\ mu = w /\ mu' = NoOne
        /\ UNCHANGED <<cache, refCount, closes, get>>
    BY <1>17 DEF SweepEnd
  <2>2. /\ wk[w].pc = "sweep" /\ wk'[w].pc = "waiting"
        /\ \A x \in Workers : x # w => wk'[x].pc = wk[x].pc /\ wk'[x].key = wk[x].key
    BY <1>17, SweepEndEffect
  <2> QED
    BY <2>1, <2>2
<1>18. ASSUME NEW w \in Workers, WorkerExit(w) PROVE LockInv'
  BY <1>18 DEF WorkerExit, WorkerAt
<1>19. CASE UNCHANGED vars
  BY <1>19 DEF vars
<1> QED
  BY <1>1, <1>2, <1>3, <1>4, <1>5, <1>6, <1>7, <1>8, <1>9, <1>10, <1>11, <1>12, <1>13,
     <1>14, <1>15, <1>16, <1>17, <1>18, <1>19 DEF Next, LibraryStep, CallerStep,
     WorkerStep

\* Values not built yet are untouched.
LEMMA UnbuiltStep == ASSUME SafeInv, [Next]_vars PROVE UnbuiltInv'
<1> USE NamesAssumption DEF SafeInv, Typed, OwnInv, EntryInv, CacheInv, LockInv,
   UnbuiltInv, Owners, Pointers, CallType, WorkerType
<1>1. ASSUME NEW g \in Getters, NEW k \in Keys \cup {NoKey}, Lookup(g, k) PROVE UnbuiltInv'
  BY <1>1 DEF Lookup, Call
<1>2. ASSUME NEW g \in Getters, IncIfLive(g) PROVE UnbuiltInv'
  BY <1>2 DEF IncIfLive, Step, Live
<1>3. ASSUME NEW g \in Getters, New(g) PROVE UnbuiltInv'
  BY <1>3 DEF New, Done, Call
<1>4. ASSUME NEW g \in Getters, Lock(g) PROVE UnbuiltInv'
  BY <1>4 DEF Lock, Step
<1>5. ASSUME NEW g \in Getters, InsertHit(g) PROVE UnbuiltInv'
  BY <1>5 DEF InsertHit, Present, Live
<1>6. ASSUME NEW g \in Getters, InsertMiss(g) PROVE UnbuiltInv'
  BY <1>6 DEF InsertMiss, Present, Live, EnsureWorker, NoWorkerNeeded
<1>7. ASSUME NEW g \in Getters, Discard(g) PROVE UnbuiltInv'
  BY <1>7 DEF Discard
<1>8. ASSUME NEW g \in Getters, CloseOwn(g) PROVE UnbuiltInv'
  BY <1>8 DEF CloseOwn, Done, Call
<1>9. ASSUME NEW g \in Getters, Use(g) PROVE UnbuiltInv'
  BY <1>9 DEF Use
<1>10. ASSUME NEW g \in Getters, Release(g) PROVE UnbuiltInv'
  BY <1>10 DEF Release, Step
<1>11. ASSUME NEW g \in Getters, ReleaseAgain(g) PROVE UnbuiltInv'
  BY <1>11 DEF ReleaseAgain, OnceValue, Done, Call
<1>12. ASSUME NEW w \in Workers, Sweep(w) PROVE UnbuiltInv'
  BY <1>12 DEF Sweep, WorkerAt
<1>13. ASSUME NEW w \in Workers, NEW k \in Keys, SweepVisit(w, k) PROVE UnbuiltInv'
  BY <1>13 DEF SweepVisit, WorkerAt, Observed
<1>14. ASSUME NEW w \in Workers, SweepClaim(w) PROVE UnbuiltInv'
  BY <1>14 DEF SweepClaim, WorkerAt
<1>15. ASSUME NEW w \in Workers, SweepClose(w) PROVE UnbuiltInv'
  BY <1>15 DEF SweepClose, WorkerAt
<1>16. ASSUME NEW w \in Workers, SweepDelete(w) PROVE UnbuiltInv'
  BY <1>16 DEF SweepDelete, WorkerAt
<1>17. ASSUME NEW w \in Workers, SweepEnd(w) PROVE UnbuiltInv'
  BY <1>17 DEF SweepEnd, StopsWorker, WorkerAt
<1>18. ASSUME NEW w \in Workers, WorkerExit(w) PROVE UnbuiltInv'
  BY <1>18 DEF WorkerExit, WorkerAt
<1>19. CASE UNCHANGED vars
  BY <1>19 DEF vars
<1> QED
  BY <1>1, <1>2, <1>3, <1>4, <1>5, <1>6, <1>7, <1>8, <1>9, <1>10, <1>11, <1>12, <1>13,
     <1>14, <1>15, <1>16, <1>17, <1>18, <1>19 DEF Next, LibraryStep, CallerStep,
     WorkerStep

-----------------------------------------------------------------------------
(* Reference counts *)

\* The holders of a value are finitely many.
LEMMA HoldersFinite ==
  ASSUME NEW v
  PROVE  IsFiniteSet(Holders(v)) /\ Cardinality(Holders(v)) \in Nat
         /\ Cardinality(Holders(v)) <= Cardinality(Getters)
<1>1. Holders(v) \subseteq Getters
  BY DEF Holders
<1> QED
  BY <1>1, GettersAssumption, FS_Subset, FS_CardinalityType

\* A step that moves no holder and no count.
LEMMA CountSame ==
  ASSUME RefCountExact, refCount' = refCount,
         \A g \in Getters :
           /\ get'[g].pc \in {"discard", "holding"} <=> get[g].pc \in {"discard", "holding"}
           /\ get[g].pc \in {"discard", "holding"} => get'[g].entry = get[g].entry
  PROVE  RefCountExact'
<1>1. \A v \in Values : Holders(v)' = Holders(v)
  BY DEF Holders
<1> QED
  BY <1>1 DEF RefCountExact

\* A client joins the holders of a live value.
LEMMA CountJoin ==
  ASSUME Typed, RefCountExact, NEW g \in Getters, NEW e \in Values,
         refCount[e] >= 0, refCount' = [refCount EXCEPT ![e] = @ + 1],
         get[g].pc \notin {"discard", "holding"},
         get'[g].pc \in {"discard", "holding"}, get'[g].entry = e,
         \A h \in Getters : h # g => get'[h] = get[h]
  PROVE  RefCountExact'
<1>1. \A v \in Values : v # e => Holders(v)' = Holders(v)
  BY DEF Holders
<1>2. Holders(e)' = Holders(e) \cup {g} /\ g \notin Holders(e)
  BY DEF Holders
<1>3. Cardinality(Holders(e)') = Cardinality(Holders(e)) + 1
  BY <1>2, HoldersFinite, FS_AddElement
<1>4. refCount'[e] = Cardinality(Holders(e)')
  BY <1>3, HoldersFinite DEF RefCountExact, Typed
<1>5. \A v \in Values : v # e => refCount'[v] = refCount[v]
  BY DEF Typed
<1> QED
  BY <1>1, <1>4, <1>5 DEF RefCountExact

\* A client leaves the holders of its value.
LEMMA CountLeave ==
  ASSUME Typed, RefCountExact, NEW g \in Getters, NEW e \in Values,
         refCount' = [refCount EXCEPT ![e] = @ - 1],
         get[g].pc \in {"discard", "holding"}, get[g].entry = e,
         get'[g].pc \notin {"discard", "holding"},
         \A h \in Getters : h # g => get'[h] = get[h]
  PROVE  RefCountExact'
<1>1. \A v \in Values : v # e => Holders(v)' = Holders(v)
  BY DEF Holders
<1>2. Holders(e)' = Holders(e) \ {g} /\ g \in Holders(e)
  BY DEF Holders
<1>3. Cardinality(Holders(e)') = Cardinality(Holders(e)) - 1
  BY <1>2, HoldersFinite, FS_RemoveElement
<1>4. refCount[e] = Cardinality(Holders(e))
  BY <1>2 DEF RefCountExact
<1>5. refCount'[e] = Cardinality(Holders(e)')
  BY <1>3, <1>4 DEF Typed
<1>6. \A v \in Values : v # e => refCount'[v] = refCount[v]
  BY DEF Typed
<1> QED
  BY <1>1, <1>5, <1>6 DEF RefCountExact

\* Every step keeps the counts exact.
LEMMA CountStep == ASSUME SafeInv, RefCountExact, [Next]_vars PROVE RefCountExact'
<1>0. Typed /\ OwnInv /\ EntryInv /\ CacheInv /\ LockInv
  BY DEF SafeInv
<1>1. ASSUME NEW g \in Getters, NEW k \in Keys \cup {NoKey}, Lookup(g, k) PROVE RefCountExact'
  BY <1>0, <1>1, CountSame DEF Lookup, Call, Typed, CallType
<1>2. ASSUME NEW g \in Getters, IncIfLive(g) PROVE RefCountExact'
  <2>1. get[g].pc = "loaded" /\ get[g].entry \in Values
    BY <1>0, <1>2 DEF IncIfLive, EntryInv, Pointers, Typed
  <2>2. CASE Live(refCount[get[g].entry])
    <3>1. Step(g, "holding") /\ refCount[get[g].entry] >= 0
          /\ refCount' = [refCount EXCEPT ![get[g].entry] = @ + 1]
      BY <1>2, <2>2 DEF IncIfLive, Live
    <3>2. get'[g].pc = "holding" /\ get'[g].entry = get[g].entry
          /\ \A h \in Getters : h # g => get'[h] = get[h]
      BY <1>0, <3>1, StepEffect
    <3> QED
      BY <1>0, <2>1, <3>1, <3>2, CountJoin
  <2>3. CASE ~Live(refCount[get[g].entry])
    <3>1. Step(g, "build") /\ refCount' = refCount
      BY <1>2, <2>3 DEF IncIfLive
    <3>2. get'[g].pc = "build" /\ \A h \in Getters : h # g => get'[h] = get[h]
      BY <1>0, <3>1, StepEffect
    <3> QED
      BY <2>1, <3>1, <3>2, CountSame
  <2> QED
    BY <2>2, <2>3
<1>3. ASSUME NEW g \in Getters, New(g) PROVE RefCountExact'
  BY <1>0, <1>3, CountSame DEF New, Done, Call, Typed, CallType
<1>4. ASSUME NEW g \in Getters, Lock(g) PROVE RefCountExact'
  BY <1>0, <1>4, CountSame DEF Lock, Step, Typed, CallType
<1>5. ASSUME NEW g \in Getters, InsertHit(g) PROVE RefCountExact'
  <2>1. /\ get[g].pc = "locked" /\ cache[get[g].key] \in Values
        /\ refCount[cache[get[g].key]] >= 0
        /\ refCount' = [refCount EXCEPT ![cache[get[g].key]] = @ + 1]
    BY <1>0, <1>5 DEF InsertHit, Present, Live, OwnInv, Typed
  <2>2. /\ get'[g].pc = "discard" /\ get'[g].entry = cache[get[g].key]
        /\ \A h \in Getters : h # g => get'[h] = get[h]
    BY <1>0, <1>5, <2>1, InsertHitEffect
  <2> QED
    BY <1>0, <2>1, <2>2, CountJoin
<1>6. ASSUME NEW g \in Getters, InsertMiss(g) PROVE RefCountExact'
  <2>1. /\ get[g].pc = "locked" /\ get[g].own \in Values /\ refCount[get[g].own] >= 0
        /\ refCount' = [refCount EXCEPT ![get[g].own] = @ + 1]
    BY <1>0, <1>6 DEF InsertMiss, OwnInv, Owners, Typed
  <2>2. /\ get'[g].pc = "holding" /\ get'[g].entry = get[g].own
        /\ \A h \in Getters : h # g => get'[h] = get[h]
    BY <1>0, <1>6 DEF InsertMiss, Typed, CallType
  <2> QED
    BY <1>0, <2>1, <2>2, CountJoin
<1>7. ASSUME NEW g \in Getters, Discard(g) PROVE RefCountExact'
  BY <1>0, <1>7, CountSame DEF Discard, Typed, CallType
<1>8. ASSUME NEW g \in Getters, CloseOwn(g) PROVE RefCountExact'
  BY <1>0, <1>8, CountSame DEF CloseOwn, Done, Call, Typed, CallType
<1>9. ASSUME NEW g \in Getters, Use(g) PROVE RefCountExact'
  BY <1>9, CountSame DEF Use
<1>10. ASSUME NEW g \in Getters, Release(g) PROVE RefCountExact'
  <2>1. CASE get[g].pc = "holding"
    <3>1. /\ Step(g, "released") /\ get[g].entry \in Values
          /\ refCount' = [refCount EXCEPT ![get[g].entry] = @ - 1]
      BY <1>0, <1>10, <2>1 DEF Release, EntryInv, Pointers, Typed
    <3>2. get'[g].pc = "released" /\ \A h \in Getters : h # g => get'[h] = get[h]
      BY <1>0, <3>1, StepEffect
    <3> QED
      BY <1>0, <2>1, <3>1, <3>2, CountLeave
  <2>2. CASE get[g].pc = "owning"
    <3>1. Step(g, "closing") /\ refCount' = refCount
      BY <1>10, <2>2 DEF Release
    <3>2. get'[g].pc = "closing" /\ \A h \in Getters : h # g => get'[h] = get[h]
      BY <1>0, <3>1, StepEffect
    <3> QED
      BY <2>2, <3>1, <3>2, CountSame
  <2> QED
    BY <1>10, <2>1, <2>2 DEF Release
<1>11. ASSUME NEW g \in Getters, ReleaseAgain(g) PROVE RefCountExact'
  <2>1. refCount' = refCount
    BY <1>0, <1>11 DEF ReleaseAgain, OnceValue, Typed
  <2> QED
    BY <1>0, <1>11, <2>1, CountSame DEF ReleaseAgain, Done, Call, Typed, CallType
<1>12. ASSUME NEW w \in Workers, SweepClaim(w) PROVE RefCountExact'
  <2> DEFINE v == cache[wk[w].key]
  <2>1. v \in Values /\ refCount[v] >= 0 /\ get' = get
    BY <1>0, <1>12 DEF SweepClaim, LockInv
  <2>2. CASE refCount[v] = 0
    <3>1. refCount' = [refCount EXCEPT ![v] = -1]
      BY <1>12, <2>2 DEF SweepClaim
    <3>2. Holders(v) = {}
      BY <2>1, <2>2, HoldersFinite, FS_EmptySet DEF RefCountExact
    <3>3. \A x \in Values : Holders(x)' = Holders(x)
      BY <2>1 DEF Holders
    <3> QED
      BY <1>0, <2>1, <3>1, <3>2, <3>3 DEF RefCountExact, Typed
  <2>3. CASE refCount[v] # 0
    BY <1>12, <2>1, <2>3, CountSame DEF SweepClaim
  <2> QED
    BY <2>2, <2>3
<1>13. ASSUME NEW w \in Workers, NEW k \in Keys, SweepVisit(w, k) PROVE RefCountExact'
  BY <1>13, CountSame DEF SweepVisit
<1>14. ASSUME NEW w \in Workers,
              Sweep(w) \/ SweepClose(w) \/ SweepDelete(w) \/ SweepEnd(w) \/ WorkerExit(w)
       PROVE  RefCountExact'
  BY <1>14, CountSame DEF Sweep, SweepClose, SweepDelete, SweepEnd, WorkerExit
<1>15. CASE UNCHANGED vars
  BY <1>15, CountSame DEF vars
<1> QED
  BY <1>1, <1>2, <1>3, <1>4, <1>5, <1>6, <1>7, <1>8, <1>9, <1>10, <1>11, <1>12,
     <1>13, <1>14, <1>15 DEF Next, LibraryStep, CallerStep, WorkerStep

-----------------------------------------------------------------------------
(* Workers and leaks *)

\* Entries always have a worker.
LEMMA WorkerStays == ASSUME SafeInv, WorkerInv, [Next]_vars PROVE WorkerInv'
<1>0. Typed /\ CacheInv /\ LockInv
  BY DEF SafeInv
<1>1. ASSUME NEW g \in Getters, InsertMiss(g) PROVE WorkerInv'
  <2>1. CASE NoWorkerNeeded
    BY <1>0, <1>1, <2>1 DEF InsertMiss, EnsureWorker, NoWorkerNeeded, WorkerInv
  <2>2. CASE ~NoWorkerNeeded
    <3>1. PICK w \in Workers :
            /\ wk' = [wk EXCEPT ![w] = [pc |-> "waiting", done |-> FALSE,
                                        left |-> {}, key |-> NoKey]]
            /\ cancel' = w
      BY <1>1, <2>2 DEF InsertMiss, EnsureWorker
    <3>2. wk'[w].pc = "waiting" /\ ~wk'[w].done
      BY <1>0, <3>1 DEF Typed
    <3> QED
      BY <3>1, <3>2, NamesAssumption DEF WorkerInv
  <2> QED
    BY <2>1, <2>2
<1>2. ASSUME NEW w \in Workers, SweepEnd(w) PROVE WorkerInv'
  <2>1. CASE StopsWorker
    BY <1>2, <2>1 DEF SweepEnd, StopsWorker, WorkerInv
  <2>2. CASE ~StopsWorker
    <3>1. cancel' = cancel /\ mapKeys' = mapKeys /\ WorkerAt(w, "waiting", {}, NoKey)
      BY <1>2, <2>2 DEF SweepEnd
    <3>2. /\ wk'[w].pc = "waiting" /\ wk'[w].done = wk[w].done
          /\ \A x \in Workers : x # w => wk'[x] = wk[x]
      BY <1>0, <3>1, WorkerAtEffect
    <3> QED
      BY <1>0, <3>1, <3>2 DEF WorkerInv, Typed
  <2> QED
    BY <2>1, <2>2
<1>3. ASSUME NEW w \in Workers, WorkerExit(w) PROVE WorkerInv'
  <2>1. /\ wk[w].done /\ cancel' = cancel /\ mapKeys' = mapKeys
        /\ WorkerAt(w, "none", {}, NoKey)
    BY <1>3 DEF WorkerExit
  <2>2. \A x \in Workers : x # w => wk'[x] = wk[x]
    BY <1>0, <2>1, WorkerAtEffect
  <2> QED
    BY <1>0, <2>1, <2>2 DEF WorkerInv, Typed
<1>4. ASSUME NEW w \in Workers, NEW pc, NEW left \in SUBSET Keys, NEW k \in Keys \cup {NoKey},
             WorkerAt(w, pc, left, k), pc \in {"waiting", "sweep", "claim", "close", "delete"},
             cancel' = cancel, mapKeys' \subseteq mapKeys
      PROVE  WorkerInv'
  <2>1. /\ wk'[w].pc = pc /\ wk'[w].done = wk[w].done
        /\ \A x \in Workers : x # w => wk'[x] = wk[x]
    BY <1>0, <1>4, WorkerAtEffect
  <2> QED
    BY <1>0, <1>4, <2>1 DEF WorkerInv, Typed
<1>5. ASSUME NEW w \in Workers,
             Sweep(w) \/ (\E k \in Keys : SweepVisit(w, k)) \/ SweepClaim(w)
               \/ SweepClose(w) \/ SweepDelete(w)
      PROVE  WorkerInv'
  <2>1. wk[w].left \in SUBSET Keys /\ wk[w].key \in Keys \cup {NoKey} /\ mapKeys \in SUBSET Keys
    BY <1>0 DEF Typed, WorkerType
  <2>2. CASE Sweep(w)
    BY <1>4, <2>1, <2>2 DEF Sweep
  <2>3. ASSUME NEW k \in Keys, SweepVisit(w, k) PROVE WorkerInv'
    <3>1. wk[w].left \ {k} \in SUBSET Keys
      BY <2>1
    <3>2. cancel' = cancel /\ mapKeys' \subseteq mapKeys
      BY <2>3 DEF SweepVisit
    <3>3. WorkerAt(w, "sweep", wk[w].left \ {k}, NoKey) \/ WorkerAt(w, "claim", wk[w].left \ {k}, k)
      BY <2>3 DEF SweepVisit
    <3> QED
      BY <1>4, <3>1, <3>2, <3>3
  <2>4. CASE SweepClaim(w)
    BY <1>4, <2>1, <2>4 DEF SweepClaim
  <2>5. CASE SweepClose(w)
    BY <1>4, <2>1, <2>5 DEF SweepClose
  <2>6. CASE SweepDelete(w)
    BY <1>4, <2>1, <2>6 DEF SweepDelete
  <2> QED
    BY <1>5, <2>2, <2>3, <2>4, <2>5, <2>6
<1>6. ASSUME UNCHANGED <<mapKeys, cancel, wk>> PROVE WorkerInv'
  BY <1>6 DEF WorkerInv
<1>7. ASSUME NEW g \in Getters, LibraryStep(g) \/ CallerStep(g) PROVE WorkerInv'
  BY <1>1, <1>6, <1>7 DEF LibraryStep, CallerStep, Lookup, IncIfLive, New, Lock, InsertHit,
     Discard, CloseOwn, Use, Release, ReleaseAgain
<1>8. CASE UNCHANGED vars
  BY <1>6, <1>8 DEF vars
<1> QED
  BY <1>2, <1>3, <1>5, <1>7, <1>8 DEF Next, WorkerStep

\* A step that keeps what calls own and what is stored leaks nothing.
LEMMA LeakFrame ==
  ASSUME NothingLeaks, built' = built, cache' = cache,
         \A v \in Values : closes'[v] = 0 => closes[v] = 0,
         built \subseteq Values,
         \A g \in Getters : get[g].own # NoValue =>
           get'[g].own = get[g].own \/ closes'[get[g].own] # 0
  PROVE  NothingLeaks'
<1> SUFFICES ASSUME NEW v \in built, closes'[v] = 0
             PROVE  (\E k \in Keys : cache[k] = v) \/ (\E g \in Getters : get'[g].own = v)
  BY DEF NothingLeaks
<1>1. (\E k \in Keys : cache[k] = v) \/ (\E g \in Getters : get[g].own = v)
  BY DEF NothingLeaks
<1> QED
  BY <1>1, NamesAssumption

\* No step leaks a value: a published value replaces nothing, and what leaves
\* the cache is closed.
LEMMA LeakStep == ASSUME SafeInv, NothingLeaks, [Next]_vars PROVE NothingLeaks'
<1>0. Typed /\ OwnInv /\ CacheInv /\ LockInv
  BY DEF SafeInv
<1>00. built \subseteq Values /\ \A g \in Getters : get[g].pc \notin Owners => get[g].own = NoValue
  BY <1>0 DEF Typed, OwnInv
<1>1. ASSUME NEW g \in Getters, NEW k \in Keys \cup {NoKey}, Lookup(g, k) PROVE NothingLeaks'
  BY <1>0, <1>00, <1>1, LeakFrame DEF Lookup, Call, Typed, Owners
<1>2. ASSUME NEW g \in Getters, NEW pc, Step(g, pc), UNCHANGED <<cache, built, closes>>
      PROVE  NothingLeaks'
  BY <1>0, <1>00, <1>2, LeakFrame DEF Step, Typed, CallType
<1>3. ASSUME NEW g \in Getters, New(g) PROVE NothingLeaks'
  <2>1. UNCHANGED <<cache, closes>> /\ get[g].own = NoValue
    BY <1>00, <1>3 DEF New, Owners
  <2>2. CASE Done(g) /\ UNCHANGED built
    BY <1>0, <1>00, <2>1, <2>2, LeakFrame DEF Done, Call, Typed
  <2>3. ASSUME NEW v \in Values \ built, built' = built \cup {v},
               get' = [get EXCEPT ![g] =
                 Call(IF get[g].key = NoKey THEN "owning" ELSE "insert",
                      get[g].key, NoValue, v)]
        PROVE  NothingLeaks'
    <3>1. get'[g].own = v /\ \A h \in Getters : h # g => get'[h] = get[h]
      BY <1>0, <2>3 DEF Call, Typed
    <3> QED
      BY <1>00, <2>1, <2>3, <3>1, NamesAssumption DEF NothingLeaks
  <2> QED
    BY <1>3, <2>2, <2>3 DEF New
<1>4. ASSUME NEW g \in Getters, InsertHit(g) PROVE NothingLeaks'
  <2>1. cache[get[g].key] \in Values
    BY <1>0, <1>4 DEF InsertHit, Present, OwnInv, Typed
  <2>2. /\ get'[g].own = get[g].own /\ \A h \in Getters : h # g => get'[h] = get[h]
    BY <1>0, <1>4, <2>1, InsertHitEffect
  <2>3. UNCHANGED <<cache, built, closes>>
    BY <1>4 DEF InsertHit
  <2> QED
    BY <1>00, <2>2, <2>3, LeakFrame
<1>5. ASSUME NEW g \in Getters, InsertMiss(g) PROVE NothingLeaks'
  <2>1. /\ get[g].pc = "locked" /\ mu = g /\ get[g].key \in Keys
        /\ ~(cache[get[g].key] # NoValue /\ refCount[cache[get[g].key]] >= 0)
    BY <1>0, <1>5 DEF InsertMiss, Present, Live, LockInv, OwnInv
  <2>2. cache[get[g].key] = NoValue
    BY <1>0, <2>1, NamesAssumption DEF CacheInv
  <2>3. /\ cache' = [cache EXCEPT ![get[g].key] = get[g].own]
        /\ UNCHANGED <<built, closes>>
    BY <1>5 DEF InsertMiss
  <2>4. \A h \in Getters : h # g => get'[h] = get[h]
    BY <1>0, <1>5 DEF InsertMiss, Typed
  <2>5. \A v \in Values : (\E k \in Keys : cache[k] = v) => (\E k \in Keys : cache'[k] = v)
    BY <1>0, <2>1, <2>2, <2>3, NamesAssumption DEF Typed
  <2>6. cache'[get[g].key] = get[g].own
    BY <1>0, <2>1, <2>3 DEF Typed
  <2> QED
    BY <1>00, <2>1, <2>3, <2>4, <2>5, <2>6 DEF NothingLeaks
<1>6. ASSUME NEW g \in Getters, get[g].pc \in {"discard", "closing"},
             Discard(g) \/ CloseOwn(g)
      PROVE  NothingLeaks'
  <2>1. /\ get[g].own \in Values /\ closes[get[g].own] = 0
        /\ closes' = [closes EXCEPT ![get[g].own] = @ + 1] /\ UNCHANGED <<cache, built>>
    BY <1>0, <1>6 DEF Discard, CloseOwn, OwnInv, Owners, Typed
  <2>2. closes'[get[g].own] = 1 /\ \A v \in Values : closes'[v] = 0 => closes[v] = 0
    BY <1>0, <2>1 DEF Typed
  <2>3. \A h \in Getters : h # g => get'[h] = get[h]
    BY <1>0, <1>6 DEF Discard, CloseOwn, Done, Typed
  <2> QED
    BY <1>00, <2>1, <2>2, <2>3, LeakFrame
<1>7. ASSUME NEW g \in Getters, ReleaseAgain(g) PROVE NothingLeaks'
  BY <1>0, <1>00, <1>7, LeakFrame DEF ReleaseAgain, Done, Call, Typed, Owners
<1>8. ASSUME NEW w \in Workers, SweepClose(w) PROVE NothingLeaks'
  <2>1. /\ cache[wk[w].key] \in Values
        /\ closes' = [closes EXCEPT ![cache[wk[w].key]] = @ + 1]
        /\ UNCHANGED <<cache, built, get>>
    BY <1>0, <1>8 DEF SweepClose, LockInv
  <2>2. \A v \in Values : closes'[v] = 0 => closes[v] = 0
    BY <1>0, <2>1 DEF Typed
  <2> QED
    BY <1>00, <2>1, <2>2, LeakFrame
<1>9. ASSUME NEW w \in Workers, SweepDelete(w) PROVE NothingLeaks'
  <2>1. /\ wk[w].key \in Keys /\ closes[cache[wk[w].key]] = 1
        /\ cache' = [cache EXCEPT ![wk[w].key] = NoValue]
        /\ UNCHANGED <<built, closes, get>>
    BY <1>0, <1>9 DEF SweepDelete, LockInv
  <2>2. \A k \in Keys : k # wk[w].key => cache'[k] = cache[k]
    BY <1>0, <2>1 DEF Typed
  <2> QED
    BY <1>00, <2>1, <2>2 DEF NothingLeaks
<1>10. ASSUME UNCHANGED <<cache, built, closes, get>> PROVE NothingLeaks'
  BY <1>10 DEF NothingLeaks
<1>11. ASSUME NEW g \in Getters, LibraryStep(g) \/ CallerStep(g) PROVE NothingLeaks'
  <2>1. CASE IncIfLive(g) \/ Lock(g) \/ Release(g)
    BY <1>2, <2>1 DEF IncIfLive, Lock, Release
  <2>2. CASE Use(g)
    BY <1>10, <2>2 DEF Use
  <2>3. CASE Discard(g) \/ CloseOwn(g)
    BY <1>6, <2>3 DEF Discard, CloseOwn
  <2> QED
    BY <1>1, <1>3, <1>4, <1>5, <1>7, <1>11, <2>1, <2>2, <2>3 DEF LibraryStep, CallerStep
<1>12. ASSUME NEW w \in Workers, WorkerStep(w) PROVE NothingLeaks'
  BY <1>8, <1>9, <1>10, <1>12 DEF WorkerStep, Sweep, SweepVisit, SweepClaim, SweepEnd,
     WorkerExit
<1>13. CASE UNCHANGED vars
  BY <1>10, <1>13 DEF vars
<1> QED
  BY <1>11, <1>12, <1>13 DEF Next

-----------------------------------------------------------------------------
(* The theorems *)

\* The invariant holds in every reachable state.
THEOREM CacheInvariance == Spec => []Inv
<1>1. Init => Inv
  <2> SUFFICES ASSUME Init PROVE Inv
    OBVIOUS
  <2> USE NamesAssumption
  <2>1. Typed
    BY DEF Init, Call, Typed, CallType, WorkerType
  <2>2. OwnInv /\ EntryInv /\ UnbuiltInv
    BY DEF Init, Call, OwnInv, EntryInv, UnbuiltInv, Owners, Pointers
  <2>3. CacheInv
    BY DEF Init, CacheInv
  <2>4. LockInv
    BY DEF Init, Call, LockInv
  <2>5. RefCountExact
    <3>1. \A v \in Values : Holders(v) = {}
      BY DEF Init, Call, Holders
    <3> QED
      BY <3>1, FS_EmptySet DEF Init, RefCountExact
  <2>6. WorkerInv /\ NothingLeaks
    BY DEF Init, WorkerInv, NothingLeaks
  <2> QED
    BY <2>1, <2>2, <2>3, <2>4, <2>5, <2>6 DEF Inv, SafeInv
<1>2. Inv /\ [Next]_vars => Inv'
  <2> SUFFICES ASSUME Inv, [Next]_vars PROVE Inv'
    OBVIOUS
  <2>1. SafeInv /\ RefCountExact /\ WorkerInv /\ NothingLeaks
    BY DEF Inv
  <2>2. HolderCounted
    BY <2>1, HoldersCounted DEF SafeInv
  <2>3. SafeInv'
    BY <2>1, <2>2, TypedStep, OwnStep, EntryStep, CacheStep, LockStep, UnbuiltStep DEF
       SafeInv
  <2> QED
    BY <2>1, <2>3, CountStep, WorkerStays, LeakStep DEF Inv
<1> QED
  BY <1>1, <1>2, PTL DEF Spec

\* Variables keep their types, and a reference count its range: a release never
\* meets a claimed entry (Value.refCount in ttlcache.go).
THEOREM CacheTypeCorrect == Spec => []TypeOK
<1>1. Inv => TypeOK
  <2> SUFFICES ASSUME Inv PROVE TypeOK
    OBVIOUS
  <2>1. Typed /\ RefCountExact
    BY DEF Inv, SafeInv
  <2>2. \A v \in Values : refCount[v] \in -1 .. Cardinality(Getters)
    <3> SUFFICES ASSUME NEW v \in Values PROVE refCount[v] \in -1 .. Cardinality(Getters)
      OBVIOUS
    <3>1. Cardinality(Getters) \in Nat
      BY GettersAssumption, FS_CardinalityType
    <3> QED
      BY <2>1, <3>1, HoldersFinite DEF RefCountExact
  <2> QED
    BY <2>1, <2>2 DEF TypeOK, Typed, CallType, WorkerType
<1> QED
  BY <1>1, CacheInvariance, PTL

\* The reference count is exactly the number of holders, or the entry is claimed
\* and nobody holds it (incIfLive against the claim of the sweep).
THEOREM CountsAreExact == Spec => []RefCountExact
<1>1. Inv => RefCountExact
  BY DEF Inv
<1> QED
  BY <1>1, CacheInvariance, PTL

\* Every value built and not closed is stored or in the hands of its builder
\* (the redundant build of GetOrCreate, the eviction of the sweep).
THEOREM NoValueLeaks == Spec => []NothingLeaks
<1>1. Inv => NothingLeaks
  BY DEF Inv
<1> QED
  BY <1>1, CacheInvariance, PTL

\* No live entry goes unserviced (ensureWorkerWithLock against the cancellation
\* at the end of sweep, possibly of another worker).
THEOREM EntriesAreSwept == Spec => []EveryEntrySwept
<1>1. Inv => EveryEntrySwept
  BY DEF Inv, SafeInv, CacheInv, WorkerInv, EveryEntrySwept
<1> QED
  BY <1>1, CacheInvariance, PTL

\* A step that changes neither what is held nor what is open is a stutter of
\* the abstract cache.
LEMMA HeldFrame ==
  ASSUME Typed, NEW g \in Getters,
         \A h \in Getters : h # g => get'[h] = get[h],
         Held'[g] = Held[g]
  PROVE  Held' = Held
  BY DEF Held

\* A step of one call changes only what that call holds.
LEMMA HeldChange ==
  ASSUME Typed, NEW g \in Getters, NEW v,
         \A h \in Getters : h # g => get'[h] = get[h],
         Held'[g] = v
  PROVE  Held' = [Held EXCEPT ![g] = v]
  BY DEF Held

\* Every step of the cache is a step of the abstract cache, or a stutter.
LEMMA StepRefines ==
  ASSUME Inv, [Next]_vars
  PROVE  [Abstract!Next]_<<built, closes, Held>>
<1> DEFINE Goal == Abstract!Next \/ UNCHANGED <<built, closes, Held>>
<1>0. Typed /\ OwnInv /\ EntryInv /\ CacheInv /\ LockInv /\ RefCountExact
  BY DEF Inv, SafeInv
<1>1. ASSUME UNCHANGED <<built, closes, get>> PROVE Goal
  BY <1>1 DEF Held
<1>2. ASSUME NEW g \in Getters, NEW k \in Keys \cup {NoKey}, Lookup(g, k) PROVE Goal
  BY <1>0, <1>2 DEF Lookup, Call, Held, Typed, CallType
<1>3. ASSUME NEW g \in Getters, IncIfLive(g) PROVE Goal
  <2>1. /\ get[g].pc = "loaded" /\ get[g].entry \in built /\ get[g].entry \in Values
        /\ refCount[get[g].entry] >= 0 => closes[get[g].entry] = 0
        /\ UNCHANGED <<built, closes>>
    BY <1>0, <1>3 DEF IncIfLive, EntryInv, Pointers, Typed
  <2>2. CASE Live(refCount[get[g].entry])
    <3>1. Step(g, "holding") /\ refCount[get[g].entry] >= 0
      BY <1>3, <2>2 DEF IncIfLive, Live
    <3>2. get'[g].pc = "holding" /\ get'[g].entry = get[g].entry
          /\ \A h \in Getters : h # g => get'[h] = get[h]
      BY <1>0, <3>1, StepEffect
    <3>3. Held[g] = NoValue /\ Held'[g] = get[g].entry
      BY <2>1, <3>2 DEF Held
    <3>4. Held' = [Held EXCEPT ![g] = get[g].entry]
      BY <1>0, <3>2, <3>3, HeldChange
    <3>5. Abstract!Acquire(g, get[g].entry)
      BY <2>1, <3>1, <3>3, <3>4 DEF Abstract!Acquire
    <3> QED
      BY <2>1, <3>5 DEF Abstract!Next
  <2>3. CASE ~Live(refCount[get[g].entry])
    <3>1. Step(g, "build")
      BY <1>3, <2>3 DEF IncIfLive
    <3>2. get'[g].pc = "build" /\ \A h \in Getters : h # g => get'[h] = get[h]
      BY <1>0, <3>1, StepEffect
    <3> QED
      BY <1>0, <2>1, <3>2, HeldFrame DEF Held
  <2> QED
    BY <2>2, <2>3
<1>4. ASSUME NEW g \in Getters, New(g) PROVE Goal
  <2>1. get[g].pc = "build" /\ closes' = closes /\ Held[g] = NoValue
    BY <1>4 DEF New, Held
  <2>2. CASE Done(g) /\ UNCHANGED built
    BY <1>0, <2>1, <2>2, HeldFrame DEF Done, Call, Held, Typed
  <2>3. ASSUME NEW v \in Values \ built, built' = built \cup {v},
               get' = [get EXCEPT ![g] =
                 Call(IF get[g].key = NoKey THEN "owning" ELSE "insert",
                      get[g].key, NoValue, v)]
        PROVE  Goal
    <3>1. \A h \in Getters : h # g => get'[h] = get[h]
      BY <1>0, <2>3 DEF Call, Typed
    <3>2. CASE get[g].key = NoKey
      <4>1. Held'[g] = v
        BY <1>0, <2>3, <3>2 DEF Call, Held, Typed
      <4>2. Held' = [Held EXCEPT ![g] = v]
        BY <1>0, <3>1, <4>1, HeldChange
      <4>3. Abstract!BuildOwn(g, v)
        BY <2>1, <2>3, <4>2 DEF Abstract!BuildOwn
      <4> QED
        BY <4>3 DEF Abstract!Next
    <3>3. CASE get[g].key # NoKey
      <4>1. Held'[g] = NoValue
        BY <1>0, <2>3, <3>3 DEF Call, Held, Typed
      <4>2. Held' = Held
        BY <1>0, <2>1, <3>1, <4>1, HeldFrame
      <4>3. Abstract!Build(v)
        BY <2>1, <2>3, <4>2 DEF Abstract!Build
      <4> QED
        BY <4>3 DEF Abstract!Next
    <3> QED
      BY <3>2, <3>3
  <2> QED
    BY <1>4, <2>2, <2>3 DEF New
<1>5. ASSUME NEW g \in Getters, Lock(g) PROVE Goal
  <2>1. Step(g, "locked") /\ get[g].pc = "insert" /\ UNCHANGED <<built, closes>>
    BY <1>5 DEF Lock
  <2>2. get'[g].pc = "locked" /\ \A h \in Getters : h # g => get'[h] = get[h]
    BY <1>0, <2>1, StepEffect
  <2> QED
    BY <1>0, <2>1, <2>2, HeldFrame DEF Held
<1>6. ASSUME NEW g \in Getters, InsertHit(g) PROVE Goal
  <2> DEFINE e == cache[get[g].key]
  <2>1. get[g].pc = "locked" /\ mu = g /\ get[g].key \in Keys /\ e # NoValue
    BY <1>0, <1>6 DEF InsertHit, Present, OwnInv, LockInv
  <2>2. e \in Values /\ e \in built /\ closes[e] = 0 /\ UNCHANGED <<built, closes>>
    BY <1>0, <1>6, <2>1, NamesAssumption DEF CacheInv, Typed, InsertHit
  <2>3. /\ get'[g].pc = "discard" /\ get'[g].entry = e
        /\ \A h \in Getters : h # g => get'[h] = get[h]
    BY <1>0, <1>6, <2>2, InsertHitEffect
  <2>4. Held[g] = NoValue /\ Held'[g] = e
    BY <2>1, <2>3 DEF Held
  <2>5. Held' = [Held EXCEPT ![g] = e]
    BY <1>0, <2>3, <2>4, HeldChange
  <2>6. Abstract!Acquire(g, e)
    BY <2>2, <2>4, <2>5 DEF Abstract!Acquire
  <2> QED
    BY <2>2, <2>6 DEF Abstract!Next
<1>7. ASSUME NEW g \in Getters, InsertMiss(g) PROVE Goal
  <2> DEFINE v == get[g].own
  <2>1. /\ get[g].pc = "locked" /\ v \in built /\ v \in Values /\ closes[v] = 0
        /\ UNCHANGED <<built, closes>>
    BY <1>0, <1>7 DEF InsertMiss, OwnInv, Owners, Typed
  <2>2. /\ get'[g].pc = "holding" /\ get'[g].entry = v
        /\ \A h \in Getters : h # g => get'[h] = get[h]
    BY <1>0, <1>7 DEF InsertMiss, Typed, CallType
  <2>3. Held[g] = NoValue /\ Held'[g] = v
    BY <2>1, <2>2 DEF Held
  <2>4. Held' = [Held EXCEPT ![g] = v]
    BY <1>0, <2>2, <2>3, HeldChange
  <2>5. Abstract!Acquire(g, v)
    BY <2>1, <2>3, <2>4 DEF Abstract!Acquire
  <2> QED
    BY <2>1, <2>5 DEF Abstract!Next
<1>8. ASSUME NEW g \in Getters, Discard(g) \/ CloseOwn(g) PROVE Goal
  <2> DEFINE v == get[g].own
  <2>1. /\ get[g].pc \in {"discard", "closing"} /\ v \in Values /\ v \in built
        /\ closes[v] = 0 /\ built' = built
        /\ closes' = [closes EXCEPT ![v] = @ + 1]
    BY <1>0, <1>8 DEF Discard, CloseOwn, OwnInv, Owners, Typed
  <2>2. \A h \in Getters : Held[h] # v
    BY <1>0, <2>1, NamesAssumption DEF Held, OwnInv, Owners, Pointers, Typed
  <2>3. /\ \A h \in Getters : h # g => get'[h] = get[h]
        /\ Held'[g] = Held[g]
    BY <1>0, <1>8 DEF Discard, CloseOwn, Done, Call, Held, Typed, CallType
  <2>4. Held' = Held
    BY <1>0, <2>3, HeldFrame
  <2>5. closes' = [closes EXCEPT ![v] = 1]
    BY <1>0, <2>1 DEF Typed
  <2>6. Abstract!Close(v)
    BY <2>1, <2>2, <2>4, <2>5 DEF Abstract!Close
  <2> QED
    BY <2>1, <2>6 DEF Abstract!Next
<1>9. ASSUME NEW g \in Getters, Release(g) PROVE Goal
  <2>1. PICK pc \in {"released", "closing"} : Step(g, pc)
    BY <1>9 DEF Release
  <2>2. get'[g].pc = pc /\ \A h \in Getters : h # g => get'[h] = get[h]
    BY <1>0, <2>1, StepEffect
  <2>3. Held'[g] = NoValue
    BY <2>2 DEF Held
  <2>4. Held' = [Held EXCEPT ![g] = NoValue]
    BY <1>0, <2>2, <2>3, HeldChange
  <2>5. Abstract!Release(g)
    BY <1>9, <2>4 DEF Release, Abstract!Release
  <2> QED
    BY <2>5 DEF Abstract!Next
<1>10. ASSUME NEW g \in Getters, ReleaseAgain(g) PROVE Goal
  <2>1. /\ \A h \in Getters : h # g => get'[h] = get[h]
        /\ Held'[g] = Held[g]
    BY <1>0, <1>10 DEF ReleaseAgain, Done, Call, Held, Typed
  <2> QED
    BY <1>0, <1>10, <2>1, HeldFrame DEF ReleaseAgain
<1>11. ASSUME NEW w \in Workers, SweepClose(w) PROVE Goal
  <2> DEFINE v == cache[wk[w].key]
  <2>1. /\ wk[w].key \in Keys /\ v \in Values /\ refCount[v] = -1 /\ closes[v] = 0
        /\ closes' = [closes EXCEPT ![v] = @ + 1] /\ UNCHANGED <<built, get>>
    BY <1>0, <1>11 DEF SweepClose, LockInv
  <2>2. v \in built
    BY <1>0, <2>1, NamesAssumption DEF CacheInv
  <2>3. Holders(v) = {}
    BY <1>0, <2>1, HoldersFinite DEF RefCountExact
  <2>4. \A h \in Getters : Held[h] # v
    BY <1>0, <2>1, <2>3, NamesAssumption DEF Held, Holders, OwnInv, Owners
  <2>5. closes' = [closes EXCEPT ![v] = 1]
    BY <1>0, <2>1 DEF Typed
  <2>6. Abstract!Close(v)
    BY <2>1, <2>2, <2>4, <2>5 DEF Abstract!Close, Held
  <2> QED
    BY <2>1, <2>6 DEF Abstract!Next
<1>12. ASSUME NEW w \in Workers, WorkerStep(w) PROVE Goal
  BY <1>1, <1>11, <1>12 DEF WorkerStep, Sweep, SweepVisit, SweepClaim, SweepDelete,
     SweepEnd, WorkerExit
<1>13. ASSUME NEW g \in Getters, LibraryStep(g) \/ CallerStep(g) PROVE Goal
  <2>1. CASE Use(g)
    BY <1>1, <2>1 DEF Use
  <2> QED
    BY <1>2, <1>3, <1>4, <1>5, <1>6, <1>7, <1>8, <1>9, <1>10, <1>13, <2>1
    DEF LibraryStep, CallerStep
<1>14. CASE UNCHANGED vars
  BY <1>1, <1>14 DEF vars
<1> QED
  BY <1>12, <1>13, <1>14 DEF Next

\* The cache implements SharedValues: a client only ever holds an open value,
\* and a value is closed once, while nobody holds it (GetOrCreate, releaseFn,
\* disabledRelease and sweep).
THEOREM CacheRefinement == Spec => ClosedOnceWhenFree
<1>1. Init => Abstract!Init
  BY DEF Init, Call, Held, Abstract!Init
<1>2. Inv /\ [Next]_vars => [Abstract!Next]_<<built, closes, Held>>
  BY StepRefines
<1> QED
  BY <1>1, <1>2, CacheInvariance, PTL DEF Spec, ClosedOnceWhenFree, Abstract!Spec

=============================================================================
