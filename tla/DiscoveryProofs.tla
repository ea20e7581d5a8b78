-------------------------- MODULE DiscoveryProofs --------------------------
(***************************************************************************)
(* Proofs about Discovery for every set of addresses, identities and every *)
(* bound.  The invariant describes the lists while the rebuild is between  *)
(* its two critical sections, and what the comparison of the pool with the *)
(* answer of the cluster has kept for the swap.                            *)
(***************************************************************************)
EXTENDS Discovery, FiniteSetTheorems, TLAPS

-----------------------------------------------------------------------------
(* The invariant *)

ResType == [pc : {"none", "waiting", "passed"},
            ctx : Contexts \cup {"none", "pool"},
            cp : {"none", "current", "old", "gone"}]
NodeList == [Urls -> Ids \cup {NoId}]
RunType == [pc : RunPcs, ctx : Contexts, conn : Conns \cup {NoConn},
            asked : NodeList, list : NodeList,
            was : SUBSET Conns, ready : SUBSET Conns, dead : SUBSET Conns,
            shared : BOOLEAN, local : Seq(Conns)]

ConnType ==
  /\ id \in [Conns -> Ids \cup {NoId}]
  /\ lc \in [Conns -> SUBSET Bits]
  /\ deadSince \subseteq Conns
  /\ res \in [Conns -> ResType]
ListType ==
  /\ ready \in Seq(Conns) /\ dead \in [Conns -> Nat]
  /\ activeCount \in Nat /\ activeListCap \in Nat
PoolType ==
  /\ ListType
  /\ kind \in {"single", "multi"} /\ single \in Conns \cup {NoConn}
  /\ kind = "single" => single \in Conns
EnvType ==
  /\ cluster \in NodeList
  /\ run \in RunType
  /\ run.pc = "asking" => run.conn \in Conns
  /\ req \in Conns \cup {NoConn}
  /\ events \in 0 .. MaxEvents /\ torn \in BOOLEAN
Types == ConnType /\ PoolType /\ EnvType

\* A connection is in one of the partitions of the ready list.
Placed(bits, c) == bits[c] \cap {"active", "standby"} # {}

\* Between the two sections of a rebuild activeCount is that of the old lists.
\* The second section partitions the slice it shares with the pool, or, when a
\* resurrection has moved the pool to another array, counts a slice of its own:
\* then the pool's list still has as many entries, each of them in that slice or
\* placed already.
Covered(s, t, bits) == /\ Len(t) <= Len(s)
                       /\ \A n \in 1 .. Len(s) : \/ Placed(bits, s[n])
                                                 \/ \E m \in 1 .. Len(t) : s[n] = t[m]
SettleInv ==
  /\ kind = "multi" /\ TransportFree /\ ~torn =>
       activeCount <= Len(ready) /\ \A n \in 1 .. Len(ready) : Placed(lc, ready[n])
  /\ InGap /\ ~run.shared /\ ~torn => Covered(ready, run.local, lc)

\* The whole answer is compared, and the comparison keeps what it should.
Matches(c) == id[c] # NoId /\ id[c] = run.asked[Url(c)] /\ ~Shadowed(c)
KeepInv ==
  /\ run.pc \in {"resolving", "classifying", "swapping"} => run.list = run.asked
  /\ run.pc \in {"classifying", "swapping"} =>
       \A c \in run.was : Matches(c) => c \in run.ready \cup run.dead

Inv == Types /\ SettleInv /\ KeepInv

-----------------------------------------------------------------------------
(* Operators *)

\* There are finitely many connections, two per address.
LEMMA ConnFacts ==
  /\ IsFiniteSet(Conns)
  /\ \A u \in Urls : <<u, 0>> \in Conns /\ <<u, 1>> \in Conns
  /\ \A c \in Conns : Url(c) \in Urls
  /\ Fallbacks \subseteq Conns
  /\ 0 \in 0 .. MaxEvents
<1>1. MaxObjects \in Nat /\ MaxObjects > 0 /\ MaxEvents \in Nat
  BY BoundsAssumption
<1>2. IsFiniteSet(0 .. MaxObjects)
  BY <1>1, FS_Interval
<1>3. IsFiniteSet(Conns)
  BY <1>2, UrlsAssumption, FS_Product DEF Conns
<1>4. \A u \in Urls : <<u, 0>> \in Conns /\ <<u, 1>> \in Conns
  BY <1>1 DEF Conns
<1>5. \A c \in Conns : Url(c) \in Urls
  BY DEF Conns, Url
<1>6. Fallbacks \subseteq Conns
  BY <1>4, UrlsAssumption DEF Fallbacks
<1>7. 0 \in 0 .. MaxEvents
  BY <1>1
<1> QED
  BY <1>3, <1>4, <1>5, <1>6, <1>7

\* Every set of connections can be counted.
LEMMA FiniteConns ==
  ASSUME NEW S \in SUBSET Conns
  PROVE  IsFiniteSet(S) /\ Cardinality(S) \in Nat
<1>1. IsFiniteSet(S)
  BY ConnFacts, FS_Subset
<1> QED
  BY <1>1, FS_CardinalityType

\* A slice made of the keys of a map.
LEMMA ShufflesFacts ==
  ASSUME NEW S \in SUBSET Conns, NEW f \in Shuffles(S)
  PROVE  /\ f \in Seq(Conns) /\ Len(f) = Cardinality(S)
         /\ Cardinality(S) \in Nat
         /\ \A n \in 1 .. Cardinality(S) : f[n] \in S
         /\ \A c \in S : \E n \in 1 .. Cardinality(S) : f[n] = c
<1> DEFINE k == Cardinality(S)
<1>1. IsFiniteSet(S) /\ k \in Nat
  BY FiniteConns
<1>2. IsFiniteSet(1 .. k) /\ Cardinality(1 .. k) = k
  BY <1>1, FS_Interval
<1>3. f \in [1 .. k -> S] /\ IsInjective(f)
  BY DEF Shuffles
<1> HIDE DEF k
<1>4. f \in Injection(1 .. k, S)
  BY <1>3 DEF Injection, IsInjective
<1>5. k = Cardinality(S)
  BY DEF k
<1>6. f \in Surjection(1 .. k, S)
  BY <1>1, <1>2, <1>4, <1>5, FS_Injection
<1>7. \A c \in S : \E n \in 1 .. k : f[n] = c
  BY <1>6 DEF Surjection
<1>8. f \in Seq(Conns) /\ Len(f) = k
  BY <1>1, <1>3
<1> QED
  BY <1>1, <1>3, <1>5, <1>7, <1>8

\* createConnection: an object nobody refers to yet.
LEMMA NewConnectionFacts ==
  ASSUME NEW u \in Urls, Free(u) # {}
  PROVE  /\ NewConnection(u) \in Conns /\ ~InUse(NewConnection(u))
         /\ Url(NewConnection(u)) = u
<1>1. MaxObjects \in Nat
  BY BoundsAssumption
<1>2. \A n \in Free(u) : n \in 0 .. MaxObjects /\ ~InUse(<<u, n>>)
  BY <1>1 DEF Free
<1> DEFINE n == CHOOSE n \in Free(u) : TRUE
<1>3. n \in Free(u)
  OBVIOUS
<1>4. NewConnection(u) = <<u, n>>
  BY DEF NewConnection
<1> HIDE DEF n
<1> QED
  BY <1>2, <1>3, <1>4 DEF Conns, Url

-----------------------------------------------------------------------------
(* Operations of the pool *)

\* appendToReadyActiveWithLock: the entry at activeCount moves to the end.
LEMMA AppendActiveFacts ==
  ASSUME NEW c \in Conns, ready \in Seq(Conns), activeCount \in Nat, IndexInRange
  PROVE  /\ AppendActive(c) \in Seq(Conns) /\ Len(AppendActive(c)) = Len(ready) + 1
         /\ \A n \in 1 .. Len(ready) + 1 : \/ AppendActive(c)[n] = c
                                           \/ \E m \in 1 .. Len(ready) : AppendActive(c)[n] = ready[m]
<1> DEFINE r == Append(ready, c)
           a == activeCount + 1
           s == AppendActive(c)
           L == Len(ready)
<1>1. L \in Nat /\ a \in 1 .. L + 1
  BY DEF IndexInRange
<1>2. /\ r \in Seq(Conns) /\ Len(r) = L + 1 /\ r[L + 1] = c
      /\ \A n \in 1 .. L : r[n] = ready[n]
  OBVIOUS
<1>3. s = [r EXCEPT ![Len(r)] = r[a], ![a] = c]
  BY DEF AppendActive
<1> HIDE DEF r, a, s
<1>4. r \in [1 .. L + 1 -> Conns]
  BY <1>2
<1>5. s = [[r EXCEPT ![L + 1] = r[a]] EXCEPT ![a] = c]
  BY <1>2, <1>3
<1>6. /\ s \in [1 .. L + 1 -> Conns] /\ s[a] = c
      /\ \A n \in 1 .. L + 1 : n # a => s[n] = IF n = L + 1 THEN r[a] ELSE r[n]
  BY <1>1, <1>4, <1>5
<1>7. s \in Seq(Conns) /\ Len(s) = L + 1
  BY <1>1, <1>6
<1>8. ASSUME NEW n \in 1 .. L + 1
      PROVE  s[n] = c \/ \E m \in 1 .. L : s[n] = ready[m]
  <2>1. CASE n = a
    BY <1>6, <2>1
  <2>2. CASE n # a /\ n = L + 1
    <3>1. a \in 1 .. L
      BY <1>1, <2>2
    <3> QED
      BY <1>2, <1>6, <2>2, <3>1
  <2>3. CASE n # a /\ n # L + 1
    <3>1. n \in 1 .. L
      BY <1>1, <2>3
    <3> QED
      BY <1>2, <1>6, <2>3, <3>1
  <2> QED
    BY <2>1, <2>2, <2>3
<1> QED
  BY <1>7, <1>8 DEF s

\* resurrectWithLock
LEMMA ResurrectStep ==
  ASSUME ConnType, ListType, NEW c \in Conns, Resurrect(c)
  PROVE  /\ lc' \in [Conns -> SUBSET Bits] /\ deadSince' \subseteq Conns
         /\ ready' \in Seq(Conns) /\ dead' \in [Conns -> Nat] /\ activeCount' \in Nat
         /\ Len(ready') = Len(ready) + 1
         /\ activeCount <= Len(ready) => activeCount' <= Len(ready')
         /\ \A n \in 1 .. Len(ready') : ready'[n] = c \/ \E m \in 1 .. Len(ready) : ready'[n] = ready[m]
         /\ Placed(lc', c) /\ \A d \in Conns : Placed(lc, d) => Placed(lc', d)
<1>1. deadSince' \subseteq Conns /\ Len(ready) \in Nat
  BY DEF Resurrect, ConnType, ListType
<1>2. dead' \in [Conns -> Nat]
  BY DEF Resurrect, ListType
<1>3. CASE /\ IndexInRange /\ ready' = AppendActive(c) /\ activeCount' = activeCount + 1
           /\ lc' = [lc EXCEPT ![c] = SetActive(@) \cup {"viable"}]
  <2>1. /\ ready' \in Seq(Conns) /\ Len(ready') = Len(ready) + 1
        /\ \A n \in 1 .. Len(ready') : ready'[n] = c \/ \E m \in 1 .. Len(ready) : ready'[n] = ready[m]
    BY <1>3, AppendActiveFacts DEF ListType
  <2>2. activeCount' \in Nat /\ (activeCount <= Len(ready) => activeCount' <= Len(ready'))
    BY <1>1, <1>3, <2>1 DEF ListType
  <2>3. lc' \in [Conns -> SUBSET Bits]
    BY <1>3 DEF ConnType, SetActive, Bits
  <2>4. lc'[c] = SetActive(lc[c]) \cup {"viable"} /\ \A d \in Conns : d # c => lc'[d] = lc[d]
    BY <1>3 DEF ConnType
  <2>5. Placed(lc', c) /\ \A d \in Conns : Placed(lc, d) => Placed(lc', d)
    BY <2>4 DEF Placed, SetActive
  <2> QED
    BY <1>1, <1>2, <2>1, <2>2, <2>3, <2>5
<1>4. CASE /\ ready' = Append(ready, c) /\ activeCount' = activeCount
           /\ lc' = [lc EXCEPT ![c] = (@ \cup {"standby", "viable"}) \ {"unknown", "active"}]
  <2>1. /\ ready' \in Seq(Conns) /\ Len(ready') = Len(ready) + 1
        /\ ready'[Len(ready) + 1] = c /\ \A n \in 1 .. Len(ready) : ready'[n] = ready[n]
    BY <1>4 DEF ListType
  <2>2. \A n \in 1 .. Len(ready') : n = Len(ready) + 1 \/ n \in 1 .. Len(ready)
    BY <1>1, <2>1
  <2>3. activeCount' \in Nat /\ (activeCount <= Len(ready) => activeCount' <= Len(ready'))
    BY <1>1, <1>4, <2>1 DEF ListType
  <2>4. lc' \in [Conns -> SUBSET Bits]
    BY <1>4 DEF ConnType, Bits
  <2>5. /\ lc'[c] = (lc[c] \cup {"standby", "viable"}) \ {"unknown", "active"}
        /\ \A d \in Conns : d # c => lc'[d] = lc[d]
    BY <1>4 DEF ConnType
  <2>6. Placed(lc', c) /\ \A d \in Conns : Placed(lc, d) => Placed(lc', d)
    BY <2>5 DEF Placed
  <2> QED
    BY <1>1, <1>2, <2>1, <2>2, <2>3, <2>4, <2>6
<1> QED
  BY <1>3, <1>4 DEF Resurrect

\* OnSuccess: nothing, or a resurrection.
LEMMA SuccessStep ==
  ASSUME ConnType, ListType, NEW c \in Conns, PoolOnSuccess(c)
  PROVE  /\ lc' \in [Conns -> SUBSET Bits] /\ deadSince' \subseteq Conns
         /\ ready' \in Seq(Conns) /\ dead' \in [Conns -> Nat] /\ activeCount' \in Nat
         /\ Len(ready') >= Len(ready)
         /\ activeCount <= Len(ready) => activeCount' <= Len(ready')
         /\ \A n \in 1 .. Len(ready') :
              Placed(lc', ready'[n]) \/ \E m \in 1 .. Len(ready) : ready'[n] = ready[m]
         /\ \A d \in Conns : Placed(lc, d) => Placed(lc', d)
<1>1. Len(ready) \in Nat
  BY DEF ListType
<1>2. CASE Resurrect(c)
  BY <1>1, <1>2, ResurrectStep
<1>3. CASE UNCHANGED <<lc, deadSince, listVars>>
  BY <1>1, <1>3 DEF listVars, ConnType, ListType
<1> QED
  BY <1>2, <1>3 DEF PoolOnSuccess

\* removeFromReadyWithLock: what is left of the active partition fits the list.
LEMMA RemoveFacts ==
  ASSUME ListType, NEW cs \in SUBSET Conns, NEW r \in ReadyWithout(cs)
  PROVE  /\ r \in Seq(Conns) /\ activeCount - ActiveRemoved(cs) \in Nat
         /\ activeCount <= Len(ready) => activeCount - ActiveRemoved(cs) <= Len(r)
         /\ \A n \in 1 .. Len(r) : \E m \in 1 .. Len(ready) : r[n] = ready[m] /\ ready[m] \notin cs
         /\ cs = {} => Len(r) = Len(ready)
<1> DEFINE L == Len(ready)
           K == {i \in 1 .. L : ready[i] \notin cs}
           A == (1 .. L) \cap (1 .. activeCount)
           R == {i \in A : ready[i] \in cs}
           k == Cardinality(K)
<1>1. L \in Nat /\ DOMAIN ready = 1 .. L /\ ready \in [1 .. L -> Conns] /\ activeCount \in Nat
  BY DEF ListType
<1>2. IsFiniteSet(1 .. L) /\ IsFiniteSet(1 .. activeCount) /\ Cardinality(1 .. activeCount) = activeCount
  BY <1>1, FS_Interval
<1>3. K \in SUBSET (1 .. L) /\ A \in SUBSET (1 .. activeCount) /\ R \in SUBSET A
  OBVIOUS
<1>4. ActiveRemoved(cs) = Cardinality(R)
  BY <1>1 DEF ActiveRemoved
<1>5. PICK e \in [1 .. k -> K] : r = [n \in 1 .. k |-> ready[e[n]]]
  <2>1. PICK e \in InOrder(K) : r = [n \in DOMAIN e |-> ready[e[n]]]
    BY <1>1 DEF ReadyWithout
  <2>2. e \in [1 .. k -> K] /\ DOMAIN e = 1 .. k
    BY DEF InOrder
  <2> QED
    BY <2>1, <2>2
<1>6. \A n \in 1 .. k : e[n] \in 1 .. L /\ ready[e[n]] \notin cs
  BY <1>5
<1> HIDE DEF K, A, R, k
<1>7. IsFiniteSet(K) /\ k \in Nat
  <2>1. IsFiniteSet(K)
    BY <1>2, <1>3, FS_Subset
  <2> QED
    BY <2>1, FS_CardinalityType DEF k
<1>8. r \in Seq(Conns) /\ Len(r) = k
  BY <1>1, <1>5, <1>6, <1>7
<1>9. IsFiniteSet(A) /\ IsFiniteSet(R) /\ Cardinality(R) <= Cardinality(A) /\ Cardinality(A) <= activeCount
  <2>1. IsFiniteSet(A) /\ Cardinality(A) <= Cardinality(1 .. activeCount)
    BY <1>2, <1>3, FS_Subset
  <2>2. IsFiniteSet(R) /\ Cardinality(R) <= Cardinality(A)
    BY <1>3, <2>1, FS_Subset
  <2> QED
    BY <1>2, <2>1, <2>2
<1>10. Cardinality(R) \in Nat /\ Cardinality(A) \in Nat
  BY <1>9, FS_CardinalityType
<1>11. activeCount - ActiveRemoved(cs) \in Nat
  BY <1>1, <1>4, <1>9, <1>10
<1>12. ASSUME activeCount <= L PROVE activeCount - ActiveRemoved(cs) <= k
  <2>1. A = 1 .. activeCount
    BY <1>1, <1>12 DEF A
  <2>2. A \ R \in SUBSET K /\ A \cap R = R
    BY DEF A, R, K
  <2>3. Cardinality(A \ R) = activeCount - Cardinality(R)
    <3>1. Cardinality(A \ R) = Cardinality(A) - Cardinality(A \cap R)
      BY <1>9, FS_Difference
    <3> QED
      BY <1>2, <2>1, <2>2, <3>1
  <2>4. Cardinality(A \ R) <= Cardinality(K)
    BY <1>7, <2>2, FS_Subset
  <2> QED
    BY <1>4, <2>3, <2>4 DEF k
<1>13. \A n \in 1 .. Len(r) : r[n] = ready[e[n]] /\ e[n] \in 1 .. L /\ ready[e[n]] \notin cs
  BY <1>5, <1>6, <1>8
<1>14. ASSUME cs = {} PROVE k = L
  <2>1. K = 1 .. L
    BY <1>14 DEF K
  <2>2. Cardinality(1 .. L) = L
    BY <1>1, FS_Interval
  <2> QED
    BY <2>1, <2>2 DEF k
<1> QED
  BY <1>8, <1>11, <1>12, <1>13, <1>14

\* scheduleResurrect
LEMMA ScheduledType ==
  ASSUME NEW r \in [Conns -> ResType], NEW cs, NEW ctx \in Contexts \cup {"pool"}
  PROVE  Scheduled(r, cs, ctx) \in [Conns -> ResType]
<1>1. [pc |-> "waiting", ctx |-> ctx, cp |-> "current"] \in ResType
  BY DEF ResType
<1> QED
  BY <1>1 DEF Scheduled

\* OnFailure: the entries of the connection go, the others keep their bits.
LEMMA FailureStep ==
  ASSUME ConnType, ListType, NEW c \in Conns, PoolOnFailure(c)
  PROVE  /\ lc' \in [Conns -> SUBSET Bits] /\ deadSince' \subseteq Conns
         /\ res' \in [Conns -> ResType]
         /\ ready' \in Seq(Conns) /\ dead' \in [Conns -> Nat] /\ activeCount' \in Nat
         /\ activeCount <= Len(ready) => activeCount' <= Len(ready')
         /\ \A n \in 1 .. Len(ready') : \E m \in 1 .. Len(ready) :
              ready'[n] = ready[m] /\ lc'[ready[m]] = lc[ready[m]]
<1>1. CASE UNCHANGED <<lc, deadSince, listVars, res>>
  BY <1>1 DEF listVars, ConnType, ListType
<1>2. CASE ~(kind = "single" \/ "unknown" \in lc[c])
  <2>1. /\ lc' = [lc EXCEPT ![c] = (@ \cup {"unknown"}) \ {"active", "standby"}]
        /\ deadSince' = deadSince \cup {c} /\ ready' \in ReadyWithout({c})
        /\ activeCount' = activeCount - ActiveRemoved({c})
        /\ dead' = [dead EXCEPT ![c] = @ + 1] /\ res' = Scheduled(res, {c}, "pool")
    BY <1>2 DEF PoolOnFailure
  <2>2. lc' \in [Conns -> SUBSET Bits] /\ \A d \in Conns : d # c => lc'[d] = lc[d]
    BY <2>1 DEF ConnType, Bits
  <2>3. deadSince' \subseteq Conns /\ dead' \in [Conns -> Nat]
    BY <2>1 DEF ConnType, ListType
  <2>4. res' \in [Conns -> ResType]
    BY <2>1, ScheduledType DEF ConnType
  <2>5. /\ ready' \in Seq(Conns) /\ activeCount' \in Nat
        /\ activeCount <= Len(ready) => activeCount' <= Len(ready')
        /\ \A n \in 1 .. Len(ready') : \E m \in 1 .. Len(ready) : ready'[n] = ready[m] /\ ready[m] # c
    BY <2>1, RemoveFacts
  <2>6. \A m \in 1 .. Len(ready) : ready[m] \in Conns
    BY DEF ListType
  <2> QED
    BY <2>2, <2>3, <2>4, <2>5, <2>6
<1> QED
  BY <1>1, <1>2 DEF PoolOnFailure

\* The entries of the lists are Connections.
LEMMA ListedConns ==
  ASSUME Types
  PROVE  Listed \subseteq Conns /\ \A n \in 1 .. Len(ready) : ready[n] \in Conns
  BY DEF Listed, Types, PoolType, ListType

\* A connection is in the list when it is at some index of it.
LEMMA RangeOfReady ==
  ASSUME NEW s \in Seq(Conns), NEW c
  PROVE  c \in Range(s) <=> \E n \in 1 .. Len(s) : s[n] = c
  BY DEF Range

\* Next: evictions shorten the list, nothing else does, and what is placed stays
\* placed.
LEMMA NextStep ==
  ASSUME ConnType, ListType, NEW c \in Conns \cup {NoConn}, PoolNext(c)
  PROVE  /\ lc' \in [Conns -> SUBSET Bits] /\ deadSince' \subseteq Conns
         /\ ready' \in Seq(Conns) /\ dead' \in [Conns -> Nat] /\ activeCount' \in Nat
         /\ activeCount <= Len(ready) => activeCount' <= Len(ready')
         /\ \A n \in 1 .. Len(ready') : \E m \in 1 .. Len(ready) : ready'[n] = ready[m]
         /\ dead' = dead => Len(ready') = Len(ready)
         /\ \A d \in Conns : Placed(lc, d) => Placed(lc', d)
<1>1. CASE UNCHANGED <<lc, deadSince, listVars>>
  BY <1>1 DEF listVars, ConnType, ListType
<1>2. ASSUME NEW cs \in SUBSET Demoted, NEW r \in ReadyWithout(cs), Evict(cs, r),
             \/ /\ activeCount' = activeCount - ActiveRemoved(cs)
                /\ lc' = MarkUnknown(cs)
             \/ Fallback(c, MarkUnknown(cs))
      PROVE  /\ lc' \in [Conns -> SUBSET Bits] /\ deadSince' \subseteq Conns
             /\ ready' \in Seq(Conns) /\ dead' \in [Conns -> Nat] /\ activeCount' \in Nat
             /\ activeCount <= Len(ready) => activeCount' <= Len(ready')
             /\ \A n \in 1 .. Len(ready') : \E m \in 1 .. Len(ready) : ready'[n] = ready[m]
             /\ dead' = dead => Len(ready') = Len(ready)
             /\ \A d \in Conns : Placed(lc, d) => Placed(lc', d)
  <2> DEFINE bits == MarkUnknown(cs)
  <2>1. cs \subseteq Conns
    <3>1. DOMAIN ready = 1 .. Len(ready) /\ \A n \in 1 .. Len(ready) : ready[n] \in Conns
      BY DEF ListType
    <3> QED
      BY <3>1 DEF Demoted, ActiveConns
  <2>2. /\ ready' = r /\ deadSince' = deadSince \cup cs
        /\ dead' = [d \in Conns |-> IF d \in cs THEN dead[d] + 1 ELSE dead[d]]
    BY <1>2 DEF Evict
  <2>3. /\ r \in Seq(Conns) /\ activeCount - ActiveRemoved(cs) \in Nat
        /\ activeCount <= Len(ready) => activeCount - ActiveRemoved(cs) <= Len(r)
        /\ \A n \in 1 .. Len(r) : \E m \in 1 .. Len(ready) : r[n] = ready[m] /\ ready[m] \notin cs
        /\ cs = {} => Len(r) = Len(ready)
    BY <2>1, RemoveFacts
  <2>4. deadSince' \subseteq Conns /\ dead' \in [Conns -> Nat]
    BY <2>1, <2>2 DEF ConnType, ListType
  <2>5. dead' = dead => cs = {}
    <3>1. \A d \in Conns : d \in cs => dead'[d] = dead[d] + 1 /\ dead[d] \in Nat
      BY <2>2 DEF ListType
    <3>2. \A d \in Conns : d \in cs => dead'[d] # dead[d]
      BY <3>1
    <3> QED
      BY <2>1, <3>2
  <2>6. /\ bits \in [Conns -> SUBSET Bits]
        /\ \A d \in Conns : Placed(lc, d) => Placed(bits, d)
    BY DEF MarkUnknown, ConnType, Bits, Placed
  <2> HIDE DEF bits
  <2>7. CASE activeCount' = activeCount - ActiveRemoved(cs) /\ lc' = bits
    BY <2>2, <2>3, <2>4, <2>5, <2>6, <2>7
  <2>8. CASE Fallback(c, bits)
    <3>1. CASE /\ ready' # <<>> /\ c = ready'[1] /\ activeCount' = 1
               /\ lc' = [bits EXCEPT ![c] = (@ \cup {"active"}) \ {"standby"}]
      <4>1. Len(r) \in Nat /\ 1 <= Len(r) /\ c \in Conns
        BY <2>2, <2>3, <3>1
      <4>2. lc' \in [Conns -> SUBSET Bits] /\ \A d \in Conns : d # c => lc'[d] = bits[d]
        BY <2>6, <3>1, <4>1 DEF Bits
      <4>3. lc'[c] = (bits[c] \cup {"active"}) \ {"standby"}
        BY <2>6, <3>1, <4>1
      <4>4. \A d \in Conns : Placed(lc, d) => Placed(lc', d)
        BY <2>6, <4>2, <4>3 DEF Placed
      <4> QED
        BY <2>2, <2>3, <2>4, <2>5, <3>1, <4>1, <4>2, <4>4
    <3>2. CASE ready' = <<>> /\ activeCount' = 0 /\ lc' = bits
      BY <2>2, <2>3, <2>4, <2>5, <2>6, <3>2
    <3> QED
      BY <2>8, <3>1, <3>2 DEF Fallback
  <2> QED
    BY <1>2, <2>7, <2>8 DEF bits
<1> QED
  BY <1>1, <1>2 DEF PoolNext

-----------------------------------------------------------------------------
(* What a step keeps *)

\* Steps outside of the rebuild: the entries of the list were in it, or are
\* placed; what was in it stays placed.
LEMMA SettleFree ==
  ASSUME SettleInv, TransportFree, TransportFree', UNCHANGED <<kind, torn>>,
         activeCount <= Len(ready) => activeCount' <= Len(ready'),
         \A n \in 1 .. Len(ready') :
           \/ Placed(lc', ready'[n])
           \/ \E m \in 1 .. Len(ready) :
                ready'[n] = ready[m] /\ (Placed(lc, ready[m]) => Placed(lc', ready[m]))
  PROVE  SettleInv'
<1>1. ~InGap'
  BY DEF TransportFree
<1>2. kind = "multi" /\ ~torn =>
        activeCount' <= Len(ready') /\ \A n \in 1 .. Len(ready') : Placed(lc', ready'[n])
  BY DEF SettleInv
<1> QED
  BY <1>1, <1>2 DEF SettleInv

\* Steps during the rebuild, once the pool has its own array.
LEMMA SettleGap ==
  ASSUME SettleInv, InGap', run'.shared = run.shared, run'.local = run.local, InGap,
         ~torn' => ~torn /\ Len(ready') >= Len(ready),
         ready \in Seq(Conns), ready' \in Seq(Conns), run.local \in Seq(Conns),
         \A n \in 1 .. Len(ready') :
           \/ Placed(lc', ready'[n])
           \/ \E m \in 1 .. Len(ready) :
                ready'[n] = ready[m] /\ (Placed(lc, ready[m]) => Placed(lc', ready[m]))
  PROVE  SettleInv'
<1>1. ~TransportFree'
  BY DEF TransportFree
<1>2. ASSUME ~run.shared, ~torn'
      PROVE  Covered(ready', run.local, lc')
  <2>1. Covered(ready, run.local, lc)
    BY <1>2 DEF SettleInv
  <2>2. Len(ready) \in Nat /\ Len(ready') \in Nat /\ Len(run.local) \in Nat
    OBVIOUS
  <2>3. Len(run.local) <= Len(ready')
    BY <1>2, <2>1, <2>2 DEF Covered
  <2> QED
    BY <2>1, <2>3 DEF Covered
<1> QED
  BY <1>1, <1>2 DEF SettleInv

\* Steps that leave the list alone.
LEMMA SettleSame ==
  ASSUME Types, SettleInv, UNCHANGED <<kind, torn, ready, activeCount>>,
         run'.pc = run.pc \/ (TransportFree /\ TransportFree'),
         run'.shared = run.shared, run'.local = run.local,
         \A n \in 1 .. Len(ready) : Placed(lc, ready[n]) => Placed(lc', ready[n])
  PROVE  SettleInv'
<1>1. Len(ready) >= Len(ready)
  BY DEF Types, PoolType, ListType
<1>2. CASE TransportFree
  BY <1>2, SettleFree DEF TransportFree, InGap
<1>3. CASE InGap
  <2>1. ready \in Seq(Conns) /\ run.local \in Seq(Conns)
    BY DEF Types, PoolType, ListType, EnvType, RunType
  <2>2. InGap'
    BY <1>3 DEF InGap, TransportFree
  <2> QED
    BY <1>1, <1>3, <2>1, <2>2, SettleGap
<1> QED
  BY <1>2, <1>3 DEF TransportFree

\* Steps that leave the answer and what was made of it alone, or end the run.
LEMMA KeepSame ==
  ASSUME KeepInv, UNCHANGED id,
         run'.pc \in {"resolving", "classifying", "swapping"} =>
           /\ run'.pc = run.pc /\ run'.asked = run.asked /\ run'.list = run.list
           /\ run'.was = run.was /\ run'.ready = run.ready /\ run'.dead = run.dead
  PROVE  KeepInv'
<1>1. CASE run'.pc \notin {"resolving", "classifying", "swapping"}
  BY <1>1 DEF KeepInv
<1>2. CASE run'.pc \in {"resolving", "classifying", "swapping"}
  <2>1. \A c \in run.was : Matches(c)' <=> Matches(c)
    BY <1>2 DEF Matches, Shadowed
  <2> QED
    BY <1>2, <2>1 DEF KeepInv
<1> QED
  BY <1>1, <1>2

\* The parts of the run of discovery keep their types.
LEMMA RunFacts ==
  ASSUME Types
  PROVE  /\ run.pc \in RunPcs /\ run.ctx \in Contexts
         /\ run.asked \in NodeList /\ run.list \in NodeList
         /\ run.was \subseteq Conns /\ run.ready \subseteq Conns /\ run.dead \subseteq Conns
         /\ run.local \in Seq(Conns) /\ Cardinality(run.ready) \in Nat
         /\ NoRun \in RunType /\ NoRun.pc = "idle"
<1>1. /\ run.pc \in RunPcs /\ run.ctx \in Contexts
      /\ run.asked \in NodeList /\ run.list \in NodeList
      /\ run.was \subseteq Conns /\ run.ready \subseteq Conns /\ run.dead \subseteq Conns
      /\ run.local \in Seq(Conns)
  BY DEF Types, EnvType, RunType
<1>2. NoList \in NodeList /\ <<>> \in Seq(Conns)
  BY DEF NoList, NodeList
<1>3. NoRun \in RunType /\ NoRun.pc = "idle"
  BY <1>2 DEF NoRun, RunType, RunPcs, Contexts
<1> QED
  BY <1>1, <1>3, FiniteConns

-----------------------------------------------------------------------------
(* Steps that report to the pool *)

\* The number of events stays within its bound.
LEMMA SpendType ==
  ASSUME events \in 0 .. MaxEvents, Spend \/ UNCHANGED events
  PROVE  events' \in 0 .. MaxEvents
  BY BoundsAssumption DEF Spend

\* OnFailure of the pool, on behalf of a request or of a fetch.
LEMMA FailInv ==
  ASSUME Inv, NEW c \in Conns, PoolOnFailure(c), TransportFree,
         UNCHANGED <<id, kind, single, activeListCap, cluster, torn>>,
         run' \in RunType, run' = run \/ run'.pc = "idle",
         req' \in Conns \cup {NoConn}, events' \in 0 .. MaxEvents
  PROVE  Inv'
<1>1. /\ lc' \in [Conns -> SUBSET Bits] /\ deadSince' \subseteq Conns
      /\ res' \in [Conns -> ResType]
      /\ ready' \in Seq(Conns) /\ dead' \in [Conns -> Nat] /\ activeCount' \in Nat
      /\ activeCount <= Len(ready) => activeCount' <= Len(ready')
      /\ \A n \in 1 .. Len(ready') : \E m \in 1 .. Len(ready) :
           ready'[n] = ready[m] /\ lc'[ready[m]] = lc[ready[m]]
  BY FailureStep DEF Inv, Types, PoolType
<1>2. Types'
  BY <1>1 DEF Inv, Types, ConnType, PoolType, ListType, EnvType
<1>3. TransportFree'
  BY DEF TransportFree, InGap
<1>4. SettleInv'
  <2>1. \A n \in 1 .. Len(ready') : \E m \in 1 .. Len(ready) :
          ready'[n] = ready[m] /\ (Placed(lc, ready[m]) => Placed(lc', ready[m]))
    <3>1. ASSUME NEW d, lc'[d] = lc[d] PROVE Placed(lc, d) => Placed(lc', d)
      BY <3>1 DEF Placed
    <3> QED
      BY <1>1, <3>1
  <2>2. SettleInv /\ UNCHANGED <<kind, torn>>
    BY DEF Inv
  <2>3. activeCount <= Len(ready) => activeCount' <= Len(ready')
    BY <1>1
  <2> QED
    BY <1>3, <2>1, <2>2, <2>3, SettleFree
<1>5. KeepInv'
  BY KeepSame DEF Inv
<1> QED
  BY <1>2, <1>4, <1>5 DEF Inv

\* The request for the node list fails on its connection.
LEMMA FetchFailsInv == ASSUME Inv, FetchFails PROVE Inv'
<1>1. /\ run.pc = "asking" /\ run' = NoRun
      /\ UNCHANGED <<id, kind, single, activeListCap, cluster, req, torn>>
      /\ Spend \/ UNCHANGED events
      /\ PoolOnFailure(run.conn) \/ UNCHANGED <<lc, deadSince, listVars, res>>
  BY DEF FetchFails
<1>2. /\ run.conn \in Conns /\ events' \in 0 .. MaxEvents /\ req' \in Conns \cup {NoConn}
      /\ run' \in RunType /\ run'.pc = "idle"
  BY <1>1, SpendType, RunFacts DEF Inv, Types, EnvType
<1>3. TransportFree /\ TransportFree'
  BY <1>1, <1>2 DEF TransportFree, InGap
<1>4. CASE PoolOnFailure(run.conn)
  BY <1>1, <1>2, <1>3, <1>4, FailInv
<1>5. CASE UNCHANGED <<lc, deadSince, listVars, res>>
  <2>1. UNCHANGED <<lc, deadSince, ready, activeCount, dead, res>>
    BY <1>5 DEF listVars
  <2>2. Types'
    BY <1>1, <1>2, <2>1 DEF Inv, Types, ConnType, PoolType, ListType, EnvType
  <2>3. SettleInv'
    BY <1>1, <1>3, <2>1, SettleFree DEF Inv
  <2>4. KeepInv'
    BY <1>1, <1>2, KeepSame DEF Inv
  <2> QED
    BY <2>2, <2>3, <2>4 DEF Inv
<1> QED
  BY <1>1, <1>4, <1>5

\* A request fails.
LEMMA RequestFailsInv == ASSUME Inv, RequestFails PROVE Inv'
<1>1. /\ req # NoConn /\ TransportFree /\ PoolOnFailure(req) /\ req' = NoConn
      /\ Spend \/ UNCHANGED events
      /\ UNCHANGED <<id, kind, single, activeListCap, cluster, run, torn>>
  BY DEF RequestFails
<1>2. req \in Conns /\ events' \in 0 .. MaxEvents /\ run' \in RunType
  BY <1>1, SpendType DEF Inv, Types, EnvType
<1> QED
  BY <1>1, <1>2, FailInv

\* OnSuccess together with whatever becomes of the run and the request.
LEMMA SucceedInv ==
  ASSUME Inv, NEW c \in Conns, PoolOnSuccess(c),
         UNCHANGED <<id, kind, single, activeListCap, cluster, res, torn>>,
         TransportFree, TransportFree', run' \in RunType, run'.pc # "asking" \/ run' = run,
         req' \in Conns \cup {NoConn}, events' \in 0 .. MaxEvents
  PROVE  Types' /\ SettleInv'
<1>1. /\ lc' \in [Conns -> SUBSET Bits] /\ deadSince' \subseteq Conns
      /\ ready' \in Seq(Conns) /\ dead' \in [Conns -> Nat] /\ activeCount' \in Nat
      /\ activeCount <= Len(ready) => activeCount' <= Len(ready')
      /\ \A n \in 1 .. Len(ready') :
           Placed(lc', ready'[n]) \/ \E m \in 1 .. Len(ready) : ready'[n] = ready[m]
      /\ \A d \in Conns : Placed(lc, d) => Placed(lc', d)
  BY SuccessStep DEF Inv, Types, PoolType
<1>2. Types'
  BY <1>1 DEF Inv, Types, ConnType, PoolType, ListType, EnvType
<1>3. \A m \in 1 .. Len(ready) : ready[m] \in Conns
  BY ListedConns DEF Inv
<1>4. SettleInv'
  BY <1>1, <1>3, SettleFree DEF Inv
<1> QED
  BY <1>2, <1>4

\* A request succeeds, and may resurrect its connection.
LEMMA RequestSucceedsInv == ASSUME Inv, RequestSucceeds PROVE Inv'
<1>1. /\ req # NoConn /\ TransportFree /\ PoolOnSuccess(req) /\ req' = NoConn
      /\ UNCHANGED <<id, kind, single, activeListCap, cluster, res, run, events, torn>>
  BY DEF RequestSucceeds
<1>2. req \in Conns /\ events' \in 0 .. MaxEvents /\ run' \in RunType
  BY <1>1 DEF Inv, Types, EnvType
<1>3. TransportFree'
  BY <1>1 DEF TransportFree, InGap
<1>4. Types' /\ SettleInv'
  BY <1>1, <1>2, <1>3, SucceedInv
<1>5. KeepInv'
  BY <1>1, KeepSame DEF Inv
<1> QED
  BY <1>4, <1>5 DEF Inv

\* The answer is kept whole, or not at all.
LEMMA FetchSucceedsInv == ASSUME Inv, FetchSucceeds PROVE Inv'
<1>1. PoolOnSuccess(run.conn)
  BY DEF FetchSucceeds
<1>2. PICK ctx \in Contexts, kept \in SUBSET Members(cluster) \ {{}} :
        /\ IF ctx = "cancelled" THEN Spend
           ELSE kept = Members(cluster) /\ UNCHANGED events
        /\ run' = IF DiscardPartial(ctx)
                  THEN NoRun
                  ELSE [run EXCEPT
                          !.pc = "resolving", !.ctx = ctx, !.conn = NoConn, !.asked = cluster,
                          !.list = [u \in Urls |-> IF u \in kept THEN cluster[u] ELSE NoId]]
  BY DEF FetchSucceeds
<1>3. run.pc = "asking" /\ UNCHANGED <<id, kind, single, activeListCap, cluster, res, req, torn>>
  BY DEF FetchSucceeds
<1>4. /\ run \in RunType /\ cluster \in NodeList /\ req' \in Conns \cup {NoConn}
      /\ events' \in 0 .. MaxEvents /\ run.conn \in Conns
  BY <1>2, <1>3, SpendType DEF Inv, Types, EnvType
<1>5. run' \in RunType /\ run'.pc \in {"idle", "resolving"}
      /\ (run'.pc = "resolving" => run'.list = run'.asked)
  <2>1. CASE ctx = "cancelled"
    <3>1. run' = NoRun
      BY <1>2, <2>1 DEF DiscardPartial
    <3> QED
      BY <3>1, RunFacts DEF Inv
  <2>2. CASE ctx # "cancelled"
    <3>1. kept = Members(cluster)
      BY <1>2, <2>2
    <3>2. [u \in Urls |-> IF u \in kept THEN cluster[u] ELSE NoId] = cluster
      BY <1>4, <3>1 DEF Members, NodeList
    <3>3. run' = [run EXCEPT !.pc = "resolving", !.ctx = ctx, !.conn = NoConn,
                             !.asked = cluster, !.list = cluster]
      BY <1>2, <2>2, <3>2 DEF DiscardPartial
    <3> QED
      BY <1>4, <3>3 DEF RunType, RunPcs
  <2> QED
    BY <2>1, <2>2
<1>6. TransportFree /\ TransportFree'
  BY <1>3, <1>5 DEF TransportFree, InGap
<1>7. Types' /\ SettleInv'
  BY <1>1, <1>3, <1>4, <1>5, <1>6, SucceedInv
<1>8. KeepInv'
  BY <1>5 DEF KeepInv
<1> QED
  BY <1>7, <1>8 DEF Inv

-----------------------------------------------------------------------------
(* Goroutines, requests and the cluster *)

\* Steps that leave the lists, the bits and the run alone.
LEMMA QuietInv ==
  ASSUME Inv, UNCHANGED <<connVars, poolVars, torn>>, res' \in [Conns -> ResType],
         cluster' \in NodeList, run' \in RunType, run'.pc = run.pc, run'.conn = run.conn,
         run'.asked = run.asked, run'.list = run.list, run'.was = run.was,
         run'.ready = run.ready, run'.dead = run.dead,
         run'.shared = run.shared, run'.local = run.local,
         req' \in Conns \cup {NoConn}, events' \in 0 .. MaxEvents
  PROVE  Inv'
<1>1. UNCHANGED <<id, lc, deadSince, kind, single, activeListCap, ready, activeCount, dead>>
  BY DEF connVars, poolVars, listVars
<1>2. Types'
  BY <1>1 DEF Inv, Types, ConnType, PoolType, ListType, EnvType
<1>3. SettleInv'
  BY <1>1, SettleSame DEF Inv
<1>4. KeepInv'
  BY <1>1, KeepSame DEF Inv
<1> QED
  BY <1>2, <1>3, <1>4 DEF Inv

\* The context of the run is cancelled.
LEMMA CancelInv == ASSUME Inv, Cancel PROVE Inv'
<1>1. /\ Spend /\ UNCHANGED <<connVars, poolVars, cluster, req, torn>>
      /\ run' = [run EXCEPT !.ctx = Ended(@)]
      /\ res' = [c \in Conns |-> [res[c] EXCEPT !.ctx = Ended(@)]]
  BY DEF Cancel
<1>2. run \in RunType /\ res \in [Conns -> ResType] /\ cluster' \in NodeList
      /\ req' \in Conns \cup {NoConn} /\ events' \in 0 .. MaxEvents
  BY <1>1, SpendType DEF Inv, Types, ConnType, EnvType
<1>3. Ended(run.ctx) \in Contexts
  BY <1>2 DEF Ended, Contexts, RunType
<1>4. /\ run' \in RunType /\ run'.pc = run.pc /\ run'.conn = run.conn
      /\ run'.asked = run.asked /\ run'.list = run.list
      /\ run'.was = run.was /\ run'.ready = run.ready /\ run'.dead = run.dead
      /\ run'.shared = run.shared /\ run'.local = run.local
  BY <1>1, <1>2, <1>3 DEF RunType
<1>5. \A c \in Conns : [res[c] EXCEPT !.ctx = Ended(@)] \in ResType
  BY <1>2 DEF Ended, ResType, Contexts
<1>6. res' \in [Conns -> ResType]
  BY <1>1, <1>5
<1> QED
  BY <1>1, <1>2, <1>4, <1>6, QuietInv

\* Nodes join and leave the cluster.
LEMMA ClusterChangesInv == ASSUME Inv, ClusterChanges PROVE Inv'
<1>1. /\ Spend /\ UNCHANGED <<connVars, poolVars, res, run, req, torn>>
      /\ \E u \in Urls, i \in Ids \cup {NoId} : cluster' = [cluster EXCEPT ![u] = i]
  BY DEF ClusterChanges
<1>2. cluster' \in NodeList
  BY <1>1 DEF Inv, Types, EnvType, NodeList
<1>3. /\ res' \in [Conns -> ResType] /\ run' \in RunType
      /\ req' \in Conns \cup {NoConn} /\ events' \in 0 .. MaxEvents
  BY <1>1, SpendType DEF Inv, Types, ConnType, EnvType
<1> QED
  BY <1>1, <1>2, <1>3, QuietInv

\* The resurrection goroutines of connections the pool may no longer have.
LEMMA GoroutineInv ==
  ASSUME Inv, NEW c \in Conns, ResurrectExits(c) \/ ProbePasses(c)
  PROVE  Inv'
<1>1. /\ UNCHANGED <<connVars, poolVars, cluster, run, req, events, torn>>
      /\ \/ res' = [res EXCEPT ![c] = NoGoroutine]
         \/ res' = [res EXCEPT ![c].pc = "passed"]
  BY DEF ResurrectExits, ProbePasses, Exit
<1>2. res' \in [Conns -> ResType]
  <2>1. NoGoroutine \in ResType /\ res \in [Conns -> ResType]
    BY DEF NoGoroutine, ResType, Inv, Types, ConnType
  <2>2. [res[c] EXCEPT !.pc = "passed"] \in ResType
    BY <2>1 DEF ResType
  <2> QED
    BY <1>1, <2>1, <2>2
<1>3. /\ cluster' \in NodeList /\ run' \in RunType
      /\ req' \in Conns \cup {NoConn} /\ events' \in 0 .. MaxEvents
  BY <1>1 DEF Inv, Types, EnvType
<1> QED
  BY <1>1, <1>2, <1>3, QuietInv

\* A resurrection may come between the two sections of a rebuild.
LEMMA RelockInv == ASSUME Inv, NEW c \in Conns, ResurrectRelock(c) PROVE Inv'
<1>1. /\ UNCHANGED <<id, kind, single, activeListCap, cluster, req, events, torn>>
      /\ res' = [res EXCEPT ![c] = NoGoroutine]
      /\ \/ UNCHANGED <<lc, deadSince, listVars, run>>
         \/ Resurrect(c) /\ AppendInGap
         \/ /\ deadSince' = deadSince \ {c} /\ UNCHANGED <<listVars, run>>
            /\ lc' = [lc EXCEPT ![c] = SetActive(@) \cup {"viable"}]
  BY DEF ResurrectRelock, Exit
<1>2. res' \in [Conns -> ResType]
  <2>1. NoGoroutine \in ResType /\ res \in [Conns -> ResType]
    BY DEF NoGoroutine, ResType, Inv, Types, ConnType
  <2> QED
    BY <1>1, <2>1
<1>3. ready \in Seq(Conns) /\ run \in RunType /\ run.local \in Seq(Conns)
  BY RunFacts DEF Inv, Types, PoolType, ListType, EnvType
<1>4. CASE UNCHANGED <<lc, deadSince, listVars, run>>
  <2>1. UNCHANGED <<lc, deadSince, ready, activeCount, dead, run>>
    BY <1>4 DEF listVars
  <2>2. Types'
    BY <1>1, <1>2, <2>1 DEF Inv, Types, ConnType, PoolType, ListType, EnvType
  <2>3. SettleInv'
    BY <1>1, <2>1, SettleSame DEF Inv
  <2>4. KeepInv'
    BY <1>1, <2>1, KeepSame DEF Inv
  <2> QED
    BY <2>2, <2>3, <2>4 DEF Inv
<1>5. CASE Resurrect(c) /\ AppendInGap
  <2>1. /\ lc' \in [Conns -> SUBSET Bits] /\ deadSince' \subseteq Conns
        /\ ready' \in Seq(Conns) /\ dead' \in [Conns -> Nat] /\ activeCount' \in Nat
        /\ Len(ready') = Len(ready) + 1 /\ Len(ready) \in Nat
        /\ activeCount <= Len(ready) => activeCount' <= Len(ready')
        /\ \A n \in 1 .. Len(ready') : ready'[n] = c \/ \E m \in 1 .. Len(ready) : ready'[n] = ready[m]
        /\ Placed(lc', c) /\ \A d \in Conns : Placed(lc, d) => Placed(lc', d)
    BY <1>5, ResurrectStep DEF Inv, Types, PoolType, ListType
  <2>2. \A n \in 1 .. Len(ready') :
          \/ Placed(lc', ready'[n])
          \/ \E m \in 1 .. Len(ready) :
               ready'[n] = ready[m] /\ (Placed(lc, ready[m]) => Placed(lc', ready[m]))
    BY <2>1, ListedConns DEF Inv
  <2>3. Len(ready') >= Len(ready) /\ Len(ready) <= Len(ready')
    BY <2>1
  <2>4. CASE UNCHANGED run
    <3>1. Types'
      BY <1>1, <1>2, <2>1, <2>4 DEF Inv, Types, ConnType, PoolType, ListType, EnvType
    <3>2. SettleInv'
      <4>1. CASE TransportFree
        <5>1. TransportFree'
          BY <2>4, <4>1 DEF TransportFree, InGap
        <5> QED
          BY <1>1, <2>1, <2>2, <4>1, <5>1, SettleFree DEF Inv
      <4>2. CASE InGap
        <5>1. InGap'
          BY <2>4, <4>2 DEF InGap
        <5> QED
          BY <1>1, <1>3, <2>1, <2>2, <2>3, <2>4, <4>2, <5>1, SettleGap DEF Inv
      <4> QED
        BY <4>1, <4>2 DEF TransportFree
    <3>3. KeepInv'
      BY <1>1, <2>4, KeepSame DEF Inv
    <3> QED
      BY <3>1, <3>2, <3>3 DEF Inv
  <2>5. CASE InGap /\ run' = [run EXCEPT !.shared = FALSE, !.local = ready]
    <3>1. /\ run' \in RunType /\ run'.pc = "partitioning" /\ run'.local = ready
      BY <1>3, <2>5 DEF RunType, InGap
    <3>2. Types'
      BY <1>1, <1>2, <2>1, <3>1 DEF Inv, Types, ConnType, PoolType, ListType, EnvType
    <3>3. Covered(ready', run'.local, lc')
      BY <2>1, <2>3, <3>1 DEF Covered
    <3>4. SettleInv'
      BY <3>1, <3>3 DEF SettleInv, TransportFree, InGap
    <3>5. KeepInv'
      BY <1>1, <3>1, KeepSame DEF Inv
    <3> QED
      BY <3>2, <3>4, <3>5 DEF Inv
  <2> QED
    BY <1>5, <2>4, <2>5 DEF AppendInGap
<1>6. CASE /\ deadSince' = deadSince \ {c} /\ UNCHANGED <<listVars, run>>
           /\ lc' = [lc EXCEPT ![c] = SetActive(@) \cup {"viable"}]
  <2>1. UNCHANGED <<ready, activeCount, dead, run>> /\ deadSince' \subseteq Conns
    BY <1>6 DEF listVars, Inv, Types, ConnType
  <2>2. lc' \in [Conns -> SUBSET Bits]
    BY <1>6 DEF Inv, Types, ConnType, SetActive, Bits
  <2>3. lc'[c] = SetActive(lc[c]) \cup {"viable"} /\ \A d \in Conns : d # c => lc'[d] = lc[d]
    BY <1>6 DEF Inv, Types, ConnType
  <2>4. \A n \in 1 .. Len(ready) : Placed(lc, ready[n]) => Placed(lc', ready[n])
    BY <2>3, ListedConns DEF Inv, Placed, SetActive
  <2>5. Types'
    BY <1>1, <1>2, <2>1, <2>2 DEF Inv, Types, ConnType, PoolType, ListType, EnvType
  <2>6. SettleInv'
    BY <1>1, <2>1, <2>4, SettleSame DEF Inv
  <2>7. KeepInv'
    BY <1>1, <2>1, KeepSame DEF Inv
  <2> QED
    BY <2>5, <2>6, <2>7 DEF Inv
<1> QED
  BY <1>1, <1>4, <1>5, <1>6

\* Next, by a request, also in the middle of a rebuild, or by the discovery.
LEMMA NextInGapInv ==
  ASSUME Inv, NEW c \in Conns \cup {NoConn}, PoolNext(c),
         UNCHANGED <<id, kind, single, activeListCap, cluster, res, events>>,
         run' \in RunType, run'.pc = "asking" => run'.conn \in Conns,
         run' = run \/ (run.pc = "idle" /\ run'.pc = "asking"),
         torn' = (torn \/ (InGap /\ dead' # dead)), req' \in Conns \cup {NoConn}
  PROVE  Inv'
<1>1. /\ lc' \in [Conns -> SUBSET Bits] /\ deadSince' \subseteq Conns
      /\ ready' \in Seq(Conns) /\ dead' \in [Conns -> Nat] /\ activeCount' \in Nat
      /\ activeCount <= Len(ready) => activeCount' <= Len(ready')
      /\ \A n \in 1 .. Len(ready') : \E m \in 1 .. Len(ready) : ready'[n] = ready[m]
      /\ dead' = dead => Len(ready') = Len(ready)
      /\ \A d \in Conns : Placed(lc, d) => Placed(lc', d)
  BY NextStep DEF Inv, Types, PoolType
<1>2. torn' \in BOOLEAN
  BY DEF Inv, Types, EnvType
<1>3. Types'
  BY <1>1, <1>2 DEF Inv, Types, ConnType, PoolType, ListType, EnvType
<1>4. \A n \in 1 .. Len(ready') : \E m \in 1 .. Len(ready) :
        ready'[n] = ready[m] /\ (Placed(lc, ready[m]) => Placed(lc', ready[m]))
  BY <1>1, ListedConns DEF Inv
<1>5. ASSUME TransportFree PROVE SettleInv'
  <2>1. TransportFree' /\ torn' = torn
    BY <1>5 DEF TransportFree, InGap, Inv, Types, EnvType
  <2> QED
    BY <1>1, <1>4, <1>5, <2>1, SettleFree DEF Inv
<1>6. ASSUME InGap PROVE SettleInv'
  <2>1. UNCHANGED run /\ InGap'
    BY <1>6 DEF InGap
  <2>2. ready \in Seq(Conns) /\ run.local \in Seq(Conns) /\ Len(ready) \in Nat
    BY RunFacts DEF Inv, Types, PoolType, ListType
  <2>3. ~torn' => ~torn /\ dead' = dead
    BY <1>6
  <2>4. ~torn' => ~torn /\ Len(ready') >= Len(ready)
    BY <1>1, <2>2, <2>3
  <2> QED
    BY <1>1, <1>4, <1>6, <2>1, <2>2, <2>4, SettleGap DEF Inv
<1>7. SettleInv'
  BY <1>5, <1>6 DEF TransportFree
<1>8. KeepInv'
  BY KeepSame DEF Inv
<1> QED
  BY <1>3, <1>7, <1>8 DEF Inv

\* A request takes a connection.
LEMMA RequestNextInv == ASSUME Inv, RequestNext PROVE Inv'
<1>1. PICK c \in Conns \cup {NoConn} : PoolNext(c) /\ req' = c
  BY DEF RequestNext
<1>2. /\ UNCHANGED <<id, kind, single, activeListCap, cluster, res, run, events>>
      /\ torn' = (torn \/ (InGap /\ dead' # dead))
  BY DEF RequestNext
<1>3. run' \in RunType /\ (run'.pc = "asking" => run'.conn \in Conns)
  BY <1>2 DEF Inv, Types, EnvType
<1> QED
  BY <1>1, <1>2, <1>3, NextInGapInv

\* The discovery takes a connection, of the seeds if the pool has none.
LEMMA FetchNextInv == ASSUME Inv, FetchNext PROVE Inv'
<1>1. PICK c \in Conns \cup {NoConn} :
        /\ PoolNext(c)
        /\ \E asked \in IF c = NoConn THEN Fallbacks ELSE {c} :
             run' = [run EXCEPT !.pc = "asking", !.conn = asked]
  BY DEF FetchNext
<1>2. PICK asked \in IF c = NoConn THEN Fallbacks ELSE {c} :
        run' = [run EXCEPT !.pc = "asking", !.conn = asked]
  BY <1>1
<1>3. /\ run.pc = "idle"
      /\ UNCHANGED <<id, kind, single, activeListCap, cluster, res, req, events, torn>>
  BY DEF FetchNext
<1>4. asked \in Conns /\ run \in RunType /\ req' \in Conns \cup {NoConn} /\ torn \in BOOLEAN
  BY <1>2, <1>3, ConnFacts DEF Inv, Types, EnvType
<1>5. run' \in RunType /\ run'.pc = "asking" /\ run'.conn \in Conns
  BY <1>2, <1>4 DEF RunType, RunPcs
<1>6. torn' = (torn \/ (InGap /\ dead' # dead))
  BY <1>3, <1>4 DEF InGap
<1> QED
  BY <1>1, <1>3, <1>4, <1>5, <1>6, NextInGapInv

-----------------------------------------------------------------------------
(* The rebuild *)

\* The only connection of the pool with an address is the one found there.
LEMMA FoundAlone ==
  ASSUME Types, NEW c \in Listed, \A d \in Listed : Url(d) = Url(c) => d = c
  PROVE  FoundByURL(Url(c)) = {c}
<1> DEFINE u == Url(c)
           inReady == {d \in Listed : Url(d) = u /\ (kind = "single" \/ d \in Range(ready))}
           inDead == {d \in Listed : Url(d) = u /\ kind = "multi" /\ dead[d] > 0}
<1>1. FoundByURL(u) = IF inReady # {} THEN inReady ELSE inDead
  BY DEF FoundByURL
<1>2. inReady \subseteq {c} /\ inDead \subseteq {c}
  OBVIOUS
<1>3. c \in inReady \/ c \in inDead
  <2>1. CASE kind = "single"
    BY <2>1
  <2>2. CASE kind = "multi"
    <3>1. c \in Range(ready) \/ dead[c] > 0
      BY <2>2 DEF Listed, InPool
    <3> QED
      BY <2>2, <3>1
  <2> QED
    BY <2>1, <2>2 DEF Types, PoolType
<1> HIDE DEF inReady, inDead, u
<1>4. FoundByURL(u) = {c}
  BY <1>1, <1>2, <1>3
<1> QED
  BY <1>4 DEF u

\* nodeDiscovery: an object of the right identity that is alone at its address
\* is reused; new objects are ones nobody refers to.
LEMMA ResolveInv == ASSUME Inv, Resolve PROVE Inv'
<1>1. PICK old \in [Members(run.list) -> Listed \cup {NoConn}] :
        /\ \A u \in Members(run.list) :
             IF FoundByURL(u) = {} THEN old[u] = NoConn ELSE old[u] \in FoundByURL(u)
        /\ LET reused == {u \in Members(run.list) :
                            old[u] # NoConn /\ CanReuseConnection(old[u], u)}
               new == Members(run.list) \ reused
               kept == {old[u] : u \in reused}
               made == {NewConnection(u) : u \in new}
           IN  /\ \A u \in new : Free(u) # {}
               /\ id' = [c \in Conns |-> IF c \in made THEN run.list[Url(c)]
                                         ELSE IF InUse(c) THEN id[c] ELSE NoId]
               /\ lc' = [c \in Conns |-> IF c \in made THEN {"unknown"}
                                         ELSE IF InUse(c) THEN lc[c] ELSE {}]
               /\ deadSince' = {c \in deadSince : InUse(c)}
               /\ res' = [c \in Conns |-> IF InUse(c) THEN res[c] ELSE NoGoroutine]
               /\ run' = [run EXCEPT !.pc = "classifying", !.was = Listed,
                                     !.ready = kept, !.dead = made]
  BY DEF Resolve
<1> DEFINE reused == {u \in Members(run.list) : old[u] # NoConn /\ CanReuseConnection(old[u], u)}
           new == Members(run.list) \ reused
           kept == {old[u] : u \in reused}
           made == {NewConnection(u) : u \in new}
<1>2. /\ \A u \in new : Free(u) # {}
      /\ id' = [c \in Conns |-> IF c \in made THEN run.list[Url(c)]
                                ELSE IF InUse(c) THEN id[c] ELSE NoId]
      /\ lc' = [c \in Conns |-> IF c \in made THEN {"unknown"}
                                ELSE IF InUse(c) THEN lc[c] ELSE {}]
      /\ deadSince' = {c \in deadSince : InUse(c)}
      /\ res' = [c \in Conns |-> IF InUse(c) THEN res[c] ELSE NoGoroutine]
      /\ run' = [run EXCEPT !.pc = "classifying", !.was = Listed, !.ready = kept,
                            !.dead = made]
  BY <1>1
<1>3. run.pc = "resolving" /\ UNCHANGED <<kind, single, activeListCap, ready, activeCount, dead>>
      /\ UNCHANGED <<cluster, req, events, torn>>
  BY DEF Resolve, poolVars, listVars
<1>4. Members(run.list) \subseteq Urls /\ Listed \subseteq Conns /\ NoConn \notin Conns
  BY ListedConns, NoConnAssumption DEF Members, Inv
<1>5. made \subseteq Conns /\ \A c \in made : ~InUse(c)
  BY <1>2, <1>4, NewConnectionFacts
<1>6. kept \subseteq Listed
  BY <1>1
<1>7. \A u \in reused : old[u] \in kept
  OBVIOUS
<1> HIDE DEF kept, made
<1>8. run \in RunType /\ run.list \in NodeList /\ run.list = run.asked
  BY <1>3, RunFacts DEF Inv, Types, EnvType, KeepInv
<1>9. /\ run' \in RunType /\ run'.pc = "classifying" /\ run'.was = Listed
      /\ run'.ready = kept /\ run'.dead = made
      /\ run'.asked = run.asked /\ run'.list = run.list
  BY <1>2, <1>4, <1>5, <1>6, <1>8 DEF RunType, RunPcs
<1>10. Types'
  <2>1. id' \in [Conns -> Ids \cup {NoId}]
    <3>1. \A c \in Conns : run.list[Url(c)] \in Ids \cup {NoId}
      BY <1>8, ConnFacts DEF NodeList
    <3> QED
      BY <1>2, <3>1 DEF Inv, Types, ConnType
  <2>2. lc' \in [Conns -> SUBSET Bits]
    BY <1>2 DEF Inv, Types, ConnType, Bits
  <2>3. NoGoroutine \in ResType
    BY DEF NoGoroutine, ResType
  <2>4. res' \in [Conns -> ResType] /\ deadSince' \subseteq Conns
    BY <1>2, <2>3 DEF Inv, Types, ConnType
  <2> QED
    BY <1>3, <1>9, <2>1, <2>2, <2>4 DEF Inv, Types, ConnType, PoolType, ListType, EnvType
<1>11. TransportFree /\ TransportFree'
  BY <1>3, <1>9 DEF TransportFree, InGap
<1>12. \A c \in Listed : InUse(c) /\ id'[c] = id[c] /\ lc'[c] = lc[c]
  BY <1>2, <1>4, <1>5 DEF InUse
<1>13. SettleInv'
  <2>1. \A n \in 1 .. Len(ready) : kind = "multi" => ready[n] \in Listed
    BY ListedConns, RangeOfReady DEF Listed, InPool, Inv, Types, PoolType, ListType
  <2>2. kind = "multi" => \A n \in 1 .. Len(ready) : Placed(lc, ready[n]) => Placed(lc', ready[n])
    BY <1>12, <2>1 DEF Placed
  <2>3. ~InGap'
    BY <1>11 DEF TransportFree
  <2> QED
    BY <1>3, <1>11, <2>2, <2>3 DEF Inv, SettleInv
<1>14. ASSUME NEW c \in Listed, Matches(c)'
       PROVE  c \in kept
  <2>1. /\ id[c] # NoId /\ id[c] = run.list[Url(c)]
        /\ \A d \in Listed : Url(d) = Url(c) => d = c
    BY <1>8, <1>9, <1>12, <1>14 DEF Matches, Shadowed
  <2>2. Url(c) \in Members(run.list)
    BY <1>4, <2>1, ConnFacts DEF Members
  <2>3. FoundByURL(Url(c)) = {c}
    BY <2>1, FoundAlone DEF Inv
  <2>4. old[Url(c)] = c
    BY <1>1, <2>2, <2>3
  <2>5. Url(c) \in reused
    BY <1>4, <2>1, <2>2, <2>4 DEF CanReuseConnection
  <2> QED
    BY <1>7, <2>4, <2>5
<1>15. KeepInv'
  <2>1. \A c \in run'.was : Matches(c)' => c \in run'.ready \cup run'.dead
    BY <1>9, <1>14
  <2> QED
    BY <1>8, <1>9, <2>1 DEF KeepInv
<1> QED
  BY <1>10, <1>13, <1>15 DEF Inv

\* updateConnectionPool puts what is dead by now into the dead list.
LEMMA ClassifyInv == ASSUME Inv, Classify PROVE Inv'
<1>1. /\ run.pc = "classifying"
      /\ run' = [run EXCEPT !.pc = "swapping", !.ready = @ \ deadSince,
                            !.dead = @ \cup (run.ready \cap deadSince)]
      /\ UNCHANGED <<id, lc, deadSince, kind, single, activeListCap, ready, activeCount, dead>>
      /\ UNCHANGED <<cluster, res, req, events, torn>>
  BY DEF Classify, connVars, poolVars, listVars
<1>2. run \in RunType /\ run.ready \subseteq Conns /\ run.dead \subseteq Conns
  BY RunFacts DEF Inv, Types, EnvType
<1>3. /\ run' \in RunType /\ run'.pc = "swapping"
      /\ run'.asked = run.asked /\ run'.list = run.list /\ run'.was = run.was
      /\ run'.ready = run.ready \ deadSince /\ run'.dead = run.dead \cup (run.ready \cap deadSince)
      /\ run'.shared = run.shared /\ run'.local = run.local
  BY <1>1, <1>2 DEF RunType, RunPcs
<1>4. Types'
  BY <1>1, <1>3 DEF Inv, Types, ConnType, PoolType, ListType, EnvType
<1>5. SettleInv'
  <2>1. TransportFree /\ TransportFree'
    BY <1>1, <1>3 DEF TransportFree, InGap
  <2> QED
    BY <1>1, <1>3, <2>1, SettleSame DEF Inv
<1>6. KeepInv'
  <2>1. \A c \in run.was : Matches(c)' <=> Matches(c)
    BY <1>1, <1>3 DEF Matches, Shadowed
  <2>2. run.ready \cup run.dead = run'.ready \cup run'.dead
    BY <1>3
  <2>3. /\ run.list = run.asked
        /\ \A c \in run.was : Matches(c) => c \in run.ready \cup run.dead
    BY <1>1 DEF Inv, KeepInv
  <2> QED
    BY <1>3, <2>1, <2>2, <2>3 DEF KeepInv
<1> QED
  BY <1>4, <1>5, <1>6 DEF Inv

\* First section of the rebuild of a pool.
LEMMA SwapListsInv ==
  ASSUME Inv, SwapLists
  PROVE  Inv' /\ kind' = "multi" /\ run.ready \cup run.dead \subseteq Listed'
<1>1. /\ kind = "multi" /\ ready' \in Shuffles(run.ready)
      /\ dead' = [c \in Conns |-> IF c \in run.dead THEN 1 ELSE 0]
      /\ deadSince' = deadSince \cup run.dead
      /\ lc' = MarkUnknown(run.dead)
      /\ run' = [run EXCEPT !.pc = "partitioning", !.shared = TRUE] /\ torn' = FALSE
      /\ UNCHANGED <<id, kind, single, activeCount, activeListCap, cluster, res, req, events>>
  BY DEF SwapLists
<1>2. run.ready \subseteq Conns /\ run.dead \subseteq Conns /\ run \in RunType
  BY RunFacts DEF Inv, Types, EnvType
<1>3. run' \in RunType /\ run'.pc = "partitioning" /\ run'.shared
  BY <1>1, <1>2 DEF RunType, RunPcs
<1>4. /\ ready' \in Seq(Conns) /\ Len(ready') = Cardinality(run.ready)
      /\ \A c \in run.ready : \E n \in 1 .. Len(ready') : ready'[n] = c
  BY <1>1, <1>2, ShufflesFacts
<1>5. dead' \in [Conns -> Nat] /\ deadSince' \subseteq Conns /\ lc' \in [Conns -> SUBSET Bits]
  BY <1>1, <1>2 DEF Inv, Types, ConnType, Bits, MarkUnknown
<1>6. Types'
  BY <1>1, <1>3, <1>4, <1>5 DEF Inv, Types, ConnType, PoolType, ListType, EnvType
<1>7. SettleInv'
  BY <1>3 DEF SettleInv, TransportFree, InGap
<1>8. KeepInv'
  BY <1>3 DEF KeepInv
<1>9. run.ready \cup run.dead \subseteq Listed'
  <2>1. \A c \in run.ready : c \in Range(ready')
    BY <1>4, RangeOfReady
  <2>2. \A c \in run.dead : dead'[c] > 0
    BY <1>1, <1>2
  <2> QED
    BY <1>1, <1>2, <2>1, <2>2 DEF Listed, InPool
<1> QED
  BY <1>1, <1>6, <1>7, <1>8, <1>9 DEF Inv

\* Partitioning reorders a slice.
LEMMA PartitionedFacts ==
  ASSUME NEW s \in Seq(Conns), NEW front \in SUBSET (1 .. Len(s)), NEW r \in PartitionedSlices(s, front)
  PROVE  /\ r \in Seq(Conns) /\ Len(r) = Len(s)
         /\ \A n \in 1 .. Len(r) : \E m \in 1 .. Len(s) : r[n] = s[m]
<1>1. DOMAIN s = 1 .. Len(s) /\ Len(s) \in Nat
  OBVIOUS
<1>2. PICK q \in [DOMAIN s -> DOMAIN s] : r = [i \in DOMAIN s |-> s[q[i]]]
  BY DEF PartitionedSlices
<1>3. \A i \in 1 .. Len(s) : q[i] \in 1 .. Len(s) /\ r[i] = s[q[i]] /\ s[q[i]] \in Conns
  BY <1>1, <1>2
<1>4. r \in Seq(Conns) /\ Len(r) = Len(s)
  BY <1>1, <1>2, <1>3
<1> QED
  BY <1>3, <1>4

\* Second section: the entries of the slice have their bits, what the pool got
\* in between has had them.
LEMMA PartitionInv == ASSUME Inv, Partition PROVE Inv'
<1> DEFINE slice == IF run.shared THEN ready ELSE run.local
           front == {i \in DOMAIN slice : ~StaysStandby(slice[i])}
           actives == {slice[i] : i \in front}
<1>1. /\ InGap /\ run' = NoRun
      /\ lc' = [c \in Conns |-> IF c \in actives THEN SetActive(lc[c]) ELSE lc[c]]
      /\ ready' \in IF run.shared THEN PartitionedSlices(slice, front) ELSE {ready}
      /\ activeCount' = Cardinality(front)
      /\ activeListCap' = Cardinality(run.ready \cup run.dead)
      /\ res' = Scheduled(res, run.dead, run.ctx)
      /\ UNCHANGED <<id, deadSince, kind, single, dead, cluster, req, events, torn>>
  BY DEF Partition, NewActiveCount, ScheduleDead
<1>2. /\ run.ready \subseteq Conns /\ run.dead \subseteq Conns /\ run.ctx \in Contexts
      /\ NoRun \in RunType /\ NoRun.pc = "idle"
      /\ ready \in Seq(Conns) /\ run.local \in Seq(Conns)
  BY RunFacts DEF Inv, Types, PoolType, ListType
<1>3. slice \in Seq(Conns) /\ Len(slice) \in Nat /\ DOMAIN slice = 1 .. Len(slice)
  BY <1>2
<1>4. run.shared => slice = ready
  OBVIOUS
<1>5. ~run.shared => slice = run.local
  OBVIOUS
<1> HIDE DEF slice
<1>6. front \in SUBSET (1 .. Len(slice))
  BY <1>3
<1>7. ASSUME NEW i \in 1 .. Len(slice) PROVE Placed(lc', slice[i])
  <2>1. slice[i] \in Conns /\ i \in DOMAIN slice
    BY <1>3
  <2>2. CASE slice[i] \in actives
    <3>1. lc'[slice[i]] = SetActive(lc[slice[i]])
      BY <1>1, <2>1, <2>2
    <3> QED
      BY <3>1 DEF Placed, SetActive
  <2>3. CASE slice[i] \notin actives
    <3>1. lc'[slice[i]] = lc[slice[i]]
      BY <1>1, <2>1, <2>3
    <3>2. StaysStandby(slice[i])
      BY <2>1, <2>3
    <3> QED
      BY <3>1, <3>2 DEF Placed, StaysStandby
  <2> QED
    BY <2>2, <2>3
<1>8. \A c \in Conns : Placed(lc, c) => Placed(lc', c)
  BY <1>1 DEF Placed, SetActive
<1>9. lc' \in [Conns -> SUBSET Bits]
  BY <1>1 DEF Inv, Types, ConnType, SetActive, Bits
<1> HIDE DEF front, actives
<1>10. /\ Cardinality(front) \in Nat /\ Cardinality(front) <= Len(slice)
       /\ Cardinality(run.ready \cup run.dead) \in Nat
  <2>1. IsFiniteSet(1 .. Len(slice)) /\ Cardinality(1 .. Len(slice)) = Len(slice)
    BY <1>3, FS_Interval
  <2>2. IsFiniteSet(front) /\ Cardinality(front) <= Cardinality(1 .. Len(slice))
    BY <1>6, <2>1, FS_Subset
  <2>3. Cardinality(front) \in Nat
    BY <2>2, FS_CardinalityType
  <2> QED
    BY <1>2, <2>1, <2>2, <2>3, FiniteConns
<1>11. /\ ready' \in Seq(Conns)
       /\ ~torn => activeCount' <= Len(ready') /\ \A n \in 1 .. Len(ready') : Placed(lc', ready'[n])
  <2>1. CASE run.shared
    <3>1. ready' \in PartitionedSlices(slice, front)
      BY <1>1, <2>1
    <3>2. /\ ready' \in Seq(Conns) /\ Len(ready') = Len(slice)
          /\ \A n \in 1 .. Len(ready') : \E m \in 1 .. Len(slice) : ready'[n] = slice[m]
      BY <1>3, <1>6, <3>1, PartitionedFacts
    <3>3. \A n \in 1 .. Len(ready') : Placed(lc', ready'[n])
      BY <1>7, <3>2
    <3> QED
      BY <1>1, <1>10, <3>2, <3>3
  <2>2. CASE ~run.shared
    <3>1. ready' = ready /\ slice = run.local
      BY <1>1, <1>5, <2>2
    <3> SUFFICES ASSUME ~torn
                 PROVE  activeCount' <= Len(ready) /\ \A n \in 1 .. Len(ready) : Placed(lc', ready[n])
      BY <1>2, <3>1
    <3>2. Covered(ready, slice, lc)
      BY <1>1, <2>2, <3>1 DEF Inv, SettleInv
    <3>3. activeCount' <= Len(ready)
      BY <1>1, <1>2, <1>3, <1>10, <3>2 DEF Covered
    <3>4. \A n \in 1 .. Len(ready) : Placed(lc', ready[n])
      BY <1>2, <1>7, <1>8, <3>2 DEF Covered
    <3> QED
      BY <3>3, <3>4
  <2> QED
    BY <2>1, <2>2
<1>12. res' \in [Conns -> ResType]
  BY <1>1, <1>2, ScheduledType DEF Inv, Types, ConnType
<1>13. Types'
  BY <1>1, <1>2, <1>9, <1>10, <1>11, <1>12 DEF Inv, Types, ConnType, PoolType, ListType, EnvType
<1>14. SettleInv'
  BY <1>1, <1>2, <1>11 DEF SettleInv, TransportFree, InGap
<1>15. KeepInv'
  BY <1>1, <1>2 DEF KeepInv
<1> QED
  BY <1>13, <1>14, <1>15 DEF Inv

\* A pool for several servers takes the place of one for a single server.
LEMMA PromoteInv ==
  ASSUME Inv, Promote
  PROVE  Inv' /\ kind' = "multi" /\ run.ready \cup run.dead \subseteq Listed'
<1>1. /\ kind' = "multi" /\ single' = NoConn /\ ready' \in Shuffles(run.ready)
      /\ activeCount' = Cardinality(run.ready) /\ activeListCap' = ActiveListCap
      /\ dead' = [c \in Conns |-> IF c \in run.dead THEN 1 ELSE 0]
      /\ lc' = [c \in Conns |-> IF c \in run.ready THEN SetActive(lc[c]) ELSE lc[c]]
      /\ res' = Scheduled(res, run.dead, run.ctx) /\ run' = NoRun
      /\ torn' = FALSE /\ UNCHANGED <<id, deadSince, cluster, req, events>>
  BY DEF Promote, ScheduleDead
<1>2. /\ run.ready \subseteq Conns /\ run.dead \subseteq Conns /\ run.ctx \in Contexts
      /\ NoRun \in RunType /\ NoRun.pc = "idle" /\ ActiveListCap \in Nat
  BY RunFacts, BoundsAssumption DEF Inv
<1>3. /\ ready' \in Seq(Conns) /\ Len(ready') = Cardinality(run.ready)
      /\ Cardinality(run.ready) \in Nat
      /\ \A n \in 1 .. Len(ready') : ready'[n] \in run.ready
      /\ \A c \in run.ready : \E n \in 1 .. Len(ready') : ready'[n] = c
  BY <1>1, <1>2, ShufflesFacts
<1>4. dead' \in [Conns -> Nat] /\ lc' \in [Conns -> SUBSET Bits]
  BY <1>1 DEF Inv, Types, ConnType, SetActive, Bits
<1>5. res' \in [Conns -> ResType]
  BY <1>1, <1>2, ScheduledType DEF Inv, Types, ConnType
<1>6. Types'
  BY <1>1, <1>2, <1>3, <1>4, <1>5 DEF Inv, Types, ConnType, PoolType, ListType, EnvType
<1>7. \A c \in run.ready : Placed(lc', c)
  BY <1>1, <1>2 DEF Placed, SetActive
<1>8. SettleInv'
  BY <1>1, <1>2, <1>3, <1>7 DEF SettleInv, TransportFree, InGap
<1>9. KeepInv'
  BY <1>1, <1>2 DEF KeepInv
<1>10. run.ready \cup run.dead \subseteq Listed'
  <2>1. \A c \in run.ready : c \in Range(ready')
    BY <1>3, RangeOfReady
  <2>2. \A c \in run.dead : dead'[c] > 0
    BY <1>1, <1>2
  <2> QED
    BY <1>1, <1>2, <2>1, <2>2 DEF Listed, InPool
<1> QED
  BY <1>1, <1>6, <1>8, <1>9, <1>10 DEF Inv

\* One node is left: a demotion, or the next connection of a single server.
LEMMA SwapSingleInv ==
  ASSUME Inv, SwapSingle
  PROVE  /\ Inv' /\ kind' = "single"
         /\ kind = "single" => run.ready \cup run.dead \subseteq Listed'
<1>1. /\ run.pc = "swapping" /\ Cardinality(run.ready \cup run.dead) = 1
      /\ torn' = FALSE /\ UNCHANGED <<id, deadSince, activeListCap, cluster, req, events>>
  BY DEF SwapSingle
<1>2. /\ run.ready \subseteq Conns /\ run.dead \subseteq Conns
      /\ NoRun \in RunType /\ NoRun.pc = "idle" /\ res \in [Conns -> ResType]
  BY RunFacts DEF Inv, Types, ConnType
<1>3. PICK c \in Conns : ToSingle(c) /\ (kind = "single" => c \in run.ready \cup run.dead)
  <2>1. DemoteCandidates \subseteq Conns
    BY RangeOfReady, ListedConns DEF DemoteCandidates, Inv, Types, PoolType, ListType
  <2> QED
    BY <1>2, <2>1 DEF SwapSingle, Inv, Types, PoolType
<1>4. res' \in [Conns -> ResType]
  <2>1. CASE UNCHANGED res
    BY <1>2, <2>1
  <2>2. CASE res' = [d \in Conns |->
               IF res[d].pc = "none" THEN res[d]
               ELSE [res[d] EXCEPT
                       !.ctx = IF @ = "pool" THEN "cancelled" ELSE @,
                       !.cp = IF @ = "current" /\ InPool(d) THEN "old" ELSE "gone"]]
    <3>1. ASSUME NEW d \in Conns, NEW x \in {"old", "gone"}
          PROVE  [res[d] EXCEPT !.ctx = IF @ = "pool" THEN "cancelled" ELSE @, !.cp = x] \in ResType
      BY <1>2 DEF ResType, Contexts
    <3>2. \A d \in Conns :
            [res[d] EXCEPT !.ctx = IF @ = "pool" THEN "cancelled" ELSE @,
                           !.cp = IF @ = "current" /\ InPool(d) THEN "old" ELSE "gone"] \in ResType
      BY <1>2, <3>1 DEF ResType, Contexts
    <3> QED
      BY <1>2, <2>2, <3>2
  <2> QED
    BY <2>1, <2>2 DEF SwapSingle
<1>5. /\ kind' = "single" /\ single' = c /\ ready' = <<>> /\ activeCount' = 0
      /\ lc' = [lc EXCEPT ![c] = SetActive(@)] /\ dead' = [d \in Conns |-> 0] /\ run' = NoRun
  BY <1>3 DEF ToSingle
<1>6. /\ lc' \in [Conns -> SUBSET Bits] /\ dead' \in [Conns -> Nat] /\ ready' \in Seq(Conns)
  BY <1>5 DEF Inv, Types, ConnType, SetActive, Bits
<1>7. Types'
  BY <1>1, <1>2, <1>4, <1>5, <1>6 DEF Inv, Types, ConnType, PoolType, ListType, EnvType
<1>8. SettleInv' /\ KeepInv'
  BY <1>2, <1>5 DEF SettleInv, KeepInv, TransportFree, InGap
<1>9. ASSUME kind = "single" PROVE run.ready \cup run.dead \subseteq Listed'
  <2>1. IsFiniteSet(run.ready \cup run.dead)
    BY <1>2, FiniteConns
  <2>2. \E x : run.ready \cup run.dead = {x}
    BY <1>1, <2>1, FS_Singleton
  <2> QED
    BY <1>3, <1>5, <1>9, <2>2 DEF Listed
<1> QED
  BY <1>5, <1>7, <1>8, <1>9 DEF Inv

-----------------------------------------------------------------------------
(* The invariant is inductive *)

\* The invariant holds when the transport is created.
LEMMA InitInv == Init => Inv
<1> SUFFICES ASSUME Init PROVE Inv
  OBVIOUS
<1> DEFINE seeds == {<<u, 1>> : u \in SeedUrls}
<1>1. seeds \subseteq Conns
  BY ConnFacts, UrlsAssumption
<1>2. run = NoRun /\ NoRun \in RunType /\ NoRun.pc = "idle"
  <2>1. NoList \in NodeList /\ <<>> \in Seq(Conns)
    BY DEF NoList, NodeList
  <2> QED
    BY <2>1 DEF Init, NoRun, RunType, RunPcs, Contexts
<1>3. FirstId \in Ids
  BY IdsAssumption DEF FirstId
<1>4. cluster \in NodeList
  BY <1>3 DEF Init, NodeList
<1>5. ConnType
  <2>1. NoGoroutine \in ResType
    BY DEF NoGoroutine, ResType
  <2> QED
    BY <2>1 DEF Init, ConnType, Bits
<1>6. EnvType
  BY <1>2, <1>4, ConnFacts DEF Init, EnvType
<1>7. /\ \/ /\ kind = "single" /\ single \in seeds /\ ready = <<>> /\ activeCount = 0
         \/ /\ kind = "multi" /\ single = NoConn
            /\ ready \in Shuffles(seeds) /\ activeCount = Cardinality(seeds)
      /\ activeListCap \in Nat /\ dead = [c \in Conns |-> 0]
      /\ lc = [c \in Conns |-> IF Url(c) \in SeedUrls /\ c[2] <= 1 THEN {"active"} ELSE {}]
  BY BoundsAssumption DEF Init
<1>8. \A c \in seeds : Placed(lc, c)
  <2>1. \A u \in SeedUrls : Url(<<u, 1>>) = u /\ <<u, 1>>[2] = 1
    BY DEF Url
  <2>2. ASSUME NEW u \in SeedUrls PROVE lc[<<u, 1>>] = {"active"}
    <3>1. <<u, 1>> \in Conns
      BY ConnFacts, UrlsAssumption
    <3>2. <<u, 1>>[2] <= 1
      OBVIOUS
    <3>3. Url(<<u, 1>>) \in SeedUrls
      BY <2>1
    <3> QED
      BY <1>7, <3>1, <3>2, <3>3, Zenon
  <2> QED
    BY <2>2 DEF Placed
<1>9. dead \in [Conns -> Nat]
  BY <1>7
<1> HIDE DEF seeds
<1>10. CASE kind = "single" /\ single \in seeds /\ ready = <<>> /\ activeCount = 0
  <2>1. PoolType
    BY <1>1, <1>7, <1>9, <1>10 DEF PoolType, ListType
  <2>2. SettleInv /\ KeepInv
    BY <1>2, <1>10 DEF SettleInv, KeepInv, TransportFree, InGap
  <2> QED
    BY <1>5, <1>6, <2>1, <2>2 DEF Inv, Types
<1>11. CASE /\ kind = "multi" /\ single = NoConn
            /\ ready \in Shuffles(seeds) /\ activeCount = Cardinality(seeds)
  <2>1. /\ ready \in Seq(Conns) /\ Len(ready) = activeCount /\ activeCount \in Nat
        /\ \A n \in 1 .. Len(ready) : ready[n] \in seeds
    BY <1>1, <1>11, ShufflesFacts
  <2>2. PoolType
    BY <1>7, <1>9, <1>11, <2>1 DEF PoolType, ListType
  <2>3. SettleInv /\ KeepInv
    BY <1>2, <1>8, <1>11, <2>1 DEF SettleInv, KeepInv, TransportFree, InGap
  <2> QED
    BY <1>5, <1>6, <2>2, <2>3 DEF Inv, Types
<1> QED
  BY <1>7, <1>10, <1>11

\* It only speaks of the variables.
LEMMA StutterInv == ASSUME Inv, UNCHANGED vars PROVE Inv'
<1>1. UNCHANGED <<connVars, poolVars, cluster, res, run, req, events, torn>>
  BY DEF vars
<1>2. /\ res' \in [Conns -> ResType] /\ cluster' \in NodeList /\ run' \in RunType
      /\ req' \in Conns \cup {NoConn} /\ events' \in 0 .. MaxEvents
  BY <1>1 DEF Inv, Types, ConnType, EnvType
<1> QED
  BY <1>1, <1>2, QuietInv

\* Every step of discovery and of the requests keeps the invariant.
LEMMA NextInv == Inv /\ [Next]_vars => Inv'
<1> SUFFICES ASSUME Inv, [Next]_vars PROVE Inv'
  OBVIOUS
<1>1. CASE Discover
  BY <1>1, FetchNextInv, FetchFailsInv, FetchSucceedsInv, ResolveInv, ClassifyInv,
     SwapListsInv, PartitionInv, PromoteInv, SwapSingleInv DEF Discover
<1>2. ASSUME NEW c \in Conns, Resurrection(c) PROVE Inv'
  BY <1>2, GoroutineInv, RelockInv DEF Resurrection
<1>3. CASE RequestNext \/ RequestEnds
  BY <1>3, RequestNextInv, RequestSucceedsInv, RequestFailsInv DEF RequestEnds
<1>4. CASE Cancel \/ ClusterChanges
  BY <1>4, CancelInv, ClusterChangesInv
<1>5. CASE UNCHANGED vars
  BY <1>5, StutterInv
<1> QED
  BY <1>1, <1>2, <1>3, <1>4, <1>5 DEF Next

\* The invariant holds throughout.
LEMMA AlwaysInv == Spec => []Inv
  BY InitInv, NextInv, PTL DEF Spec

-----------------------------------------------------------------------------
(* Theorems *)

\* The variables keep their types; in particular the number of active entries
\* never becomes negative when a failure removes entries of the ready list.
THEOREM TypeCorrect == Spec => []TypeOK
<1>1. Inv => TypeOK
  BY DEF Inv, Types, ConnType, PoolType, ListType, EnvType, TypeOK, ResType, NodeList, RunType
<1> QED
  BY <1>1, AlwaysInv, PTL

\* Between discoveries activeCount fits the ready list of a pool for several servers
\* and all its entries are active or standby, whatever was resurrected, promoted
\* from standby or served between the two sections of a rebuild, and although
\* connections that failed after the classification were put into the ready list
\* without their bits; unless Next evicted one of those between the two sections.
THEOREM PartitionSettles == Spec => []RebuildSettles
<1>1. Inv => RebuildSettles
  BY DEF Inv, SettleInv, RebuildSettles, Placed
<1> QED
  BY <1>1, AlwaysInv, PTL

\* The step that puts the result of the comparison into place.
LEMMA SwapKeeps ==
  ASSUME Inv, [Next]_vars, SwapStep, ~Demotion
  PROVE  KeepsHealthy
<1>1. run.pc = "swapping" /\ run'.pc # "swapping"
  BY DEF SwapStep
<1>2. SwapLists \/ Promote \/ SwapSingle
  <2>1. CASE Cancel
    <3>1. run'.pc = run.pc
      BY <2>1 DEF Cancel, Inv, Types, EnvType, RunType
    <3> QED
      BY <1>1, <3>1
  <2>2. CASE \/ \E c \in Conns : Resurrection(c)
             \/ RequestNext \/ RequestEnds \/ ClusterChanges \/ UNCHANGED vars
    <3>1. UNCHANGED run
      BY <1>1, <2>2 DEF Resurrection, ResurrectExits, ProbePasses, ResurrectRelock,
                        AppendInGap, InGap, RequestNext, RequestEnds, RequestSucceeds,
                        RequestFails, ClusterChanges, vars
    <3> QED
      BY <1>1, <3>1
  <2>3. CASE FetchNext \/ FetchFails \/ FetchSucceeds \/ Resolve \/ Classify \/ Partition
    <3>1. run.pc \in {"idle", "asking", "resolving", "classifying", "partitioning"}
      BY <2>3 DEF FetchNext, FetchFails, FetchSucceeds, Resolve, Classify, Partition, InGap
    <3> QED
      BY <1>1, <3>1
  <2> QED
    BY <2>1, <2>2, <2>3 DEF Next, Discover
<1>3. run.ready \cup run.dead \subseteq Listed'
  <2>1. CASE SwapLists \/ Promote
    BY <2>1, SwapListsInv, PromoteInv
  <2>2. CASE SwapSingle
    <3>1. kind' = "single" /\ kind \in {"single", "multi"}
      BY <2>2, SwapSingleInv DEF Inv, Types, PoolType
    <3> QED
      BY <2>2, <3>1, SwapSingleInv DEF Demotion
  <2> QED
    BY <1>2, <2>1, <2>2
<1> QED
  BY <1>1, <1>3 DEF Inv, KeepInv, Matches, KeepsHealthy

\* The pointer-identity contract of nodeDiscovery: unless the pool is demoted, a
\* rebuild keeps the Connection of every node of the answer that had one, alone
\* at its address, when the pool was compared with the answer; neither a cancelled
\* context nor failures, successes and resurrections between the comparison and
\* the swap make it drop one.
THEOREM ContractKept == Spec => HealthyKept
<1>1. Inv /\ [Next]_vars => (SwapStep /\ ~Demotion => KeepsHealthy)
  BY SwapKeeps
<1>2. Inv /\ [Next]_vars => [SwapStep /\ ~Demotion => KeepsHealthy]_vars
  BY <1>1
<1> QED
  BY <1>2, AlwaysInv, PTL DEF Spec, HealthyKept

=============================================================================
