----------------------- MODULE BrainIntegrationProofs -----------------------
(***************************************************************************)
(* The bridge's cache and its metrics for any number of requests, keys and *)
(* any cache size, and what the GPU executor tells its caller.             *)
(*                                                                         *)
(* An entry is as old as the value it holds (Entries); all that a step     *)
(* does to the Map deletes entries, keeps their order (Kept, Room) or puts *)
(* one of now into the place of its key (Put).                             *)
(***************************************************************************)
EXTENDS BrainIntegration, FiniteSetTheorems, SequenceTheorems, WellFoundedInduction, TLAPS

Entry == [key : Keys, value : Nat, timestamp : Nat, accessed : Nat]

Settled == {"cached", "response", "fallback", "error"}
Open == {"none", "await", "delay"}

\* A request that waits has its key.
Request ==
  {x \in [pc : Open \cup Settled, key : Keys \cup {NoKey}, retries : Nat,
          fallback : BOOLEAN, calls : Nat, value : Nat] :
     x.pc \in {"await", "delay"} => x.key \in Keys}

Metric == [requests : Nat, successes : Nat, errors : Nat]

TypeOK ==
  /\ now \in Nat
  /\ cache \in Seq(Entry)
  /\ request \in [Requests -> Request]
  /\ metric \in Metric

\* What every entry of the cache is, and that a key has one.
Entries(c, time) ==
  /\ \A i \in DOMAIN c : /\ c[i].value = c[i].timestamp
                         /\ c[i].timestamp <= c[i].accessed /\ c[i].accessed <= time
  /\ \A i, j \in DOMAIN c : c[i].key = c[j].key => i = j

CacheInv == Len(cache) <= CacheSize /\ Entries(cache, now)

IInv == TypeOK /\ CacheInv /\ MetricsExact

-----------------------------------------------------------------------------
(* The Map.                                                                *)

LEMMA NatMin ==
  ASSUME NEW T, T \subseteq Nat, T # {}
  PROVE  \E x \in T : \A y \in T : x <= y
<1> DEFINE R == {ss \in Nat \X Nat : ss[1] < ss[2]}
<1>1. R = OpToRel(<, Nat)
  BY Zenon DEF OpToRel
<1>2. IsWellFoundedOn(R, Nat)
  BY <1>1, NatLessThanWellFounded, Zenon
<1>3. \A x, y \in Nat : x < y => <<x, y>> \in R
  OBVIOUS
<1> HIDE DEF R
<1>4. PICK x \in T : \A y \in T : ~(<<y, x>> \in R)
  BY <1>2, WFMin
<1>5. \A y \in T : ~(y < x)
  BY <1>3, <1>4
<1> QED
  BY <1>5

LEMMA EntryTypes ==
  ASSUME NEW c \in Seq(Entry), NEW i \in DOMAIN c
  PROVE  /\ c[i] \in Entry /\ c[i].key \in Keys /\ c[i].value \in Nat
         /\ c[i].timestamp \in Nat /\ c[i].accessed \in Nat
<1>1. c[i] \in Entry
  OBVIOUS
<1> QED
  BY <1>1 DEF Entry

\* A cache that holds something has a victim.
LEMMA VictimIsLeast ==
  ASSUME NEW c \in Seq(Entry), c # << >>
  PROVE  /\ Victim(c) \in DOMAIN c
         /\ \A j \in DOMAIN c : c[Victim(c)].accessed <= c[j].accessed
<1> DEFINE T == {c[i].accessed : i \in DOMAIN c}
<1>1. DOMAIN c # {} /\ \A i \in DOMAIN c : c[i] \in Entry /\ c[i].accessed \in Nat
  <2>1. Len(c) \in Nat /\ Len(c) # 0 /\ DOMAIN c = 1 .. Len(c)
    BY EmptySeq
  <2>2. \A i \in DOMAIN c : c[i] \in Entry
    OBVIOUS
  <2> QED
    BY <2>1, <2>2 DEF Entry
<1>2. PICK i \in DOMAIN c : \A j \in DOMAIN c : c[i].accessed <= c[j].accessed
  <2>1. PICK x \in T : \A y \in T : x <= y
    <3>1. T \subseteq Nat /\ T # {}
      BY <1>1
    <3> HIDE DEF T
    <3> QED
      BY <3>1, NatMin
  <2> QED
    BY <2>1
<1> DEFINE U == {j \in DOMAIN c : c[j].accessed = c[i].accessed}
<1>3. U \subseteq Nat /\ i \in U
  OBVIOUS
<1>4. PICK k \in U : \A j \in U : k <= j
  <2> HIDE DEF U
  <2> QED
    BY <1>3, NatMin
<1>5. /\ k \in DOMAIN c /\ \A j \in DOMAIN c : c[k].accessed <= c[j].accessed
      /\ \A j \in 1 .. (k - 1) : c[k].accessed < c[j].accessed
  <2>1. k \in DOMAIN c /\ c[k].accessed = c[i].accessed
    OBVIOUS
  <2>2. ASSUME NEW j \in 1 .. (k - 1) PROVE c[k].accessed < c[j].accessed
    <3>1. j \in DOMAIN c /\ j \notin U
      BY <1>4, <2>1
    <3>2. c[k].accessed <= c[j].accessed /\ c[j].accessed # c[k].accessed
      BY <1>2, <2>1, <3>1
    <3> QED
      BY <1>1, <2>1, <3>1, <3>2
  <2> QED
    BY <1>2, <2>1, <2>2
<1> QED
  BY <1>5 DEF Victim

LEMMA Removed ==
  ASSUME NEW S, NEW c \in Seq(S), NEW v \in DOMAIN c
  PROVE  /\ RemoveAt(c, v) \in Seq(S) /\ Len(RemoveAt(c, v)) = Len(c) - 1
         /\ \A i \in 1 .. Len(c) - 1 :
              RemoveAt(c, v)[i] = IF i < v THEN c[i] ELSE c[i + 1]
<1> DEFINE a == SubSeq(c, 1, v - 1)
           b == SubSeq(c, v + 1, Len(c))
<1>1. Len(c) \in Nat /\ v \in 1 .. Len(c) /\ \A i \in 1 .. Len(c) : c[i] \in S
  OBVIOUS
<1>2. /\ a \in Seq(S) /\ Len(a) = v - 1 /\ \A i \in 1 .. v - 1 : a[i] = c[i]
  <2>1. \A i \in 1 .. v - 1 : c[i] \in S
    BY <1>1
  <2>2. /\ a \in Seq(S) /\ Len(a) = IF 1 <= v - 1 THEN v - 1 - 1 + 1 ELSE 0
        /\ \A i \in 1 .. v - 1 - 1 + 1 : a[i] = c[1 + i - 1]
    BY <1>1, <2>1, SubSeqProperties
  <2> QED
    BY <1>1, <2>2
<1>3. /\ b \in Seq(S) /\ Len(b) = Len(c) - v /\ \A i \in 1 .. Len(c) - v : b[i] = c[v + i]
  <2>1. \A i \in v + 1 .. Len(c) : c[i] \in S
    BY <1>1
  <2>2. /\ b \in Seq(S) /\ Len(b) = IF v + 1 <= Len(c) THEN Len(c) - (v + 1) + 1 ELSE 0
        /\ \A i \in 1 .. Len(c) - (v + 1) + 1 : b[i] = c[(v + 1) + i - 1]
    BY <1>1, <2>1, SubSeqProperties
  <2> QED
    BY <1>1, <2>2
<1> HIDE DEF a, b
<1>4. /\ a \o b \in Seq(S) /\ Len(a \o b) = Len(c) - 1
      /\ \A i \in 1 .. Len(c) - 1 : (a \o b)[i] = IF i <= v - 1 THEN a[i] ELSE b[i - (v - 1)]
  <2>1. /\ a \o b \in Seq(S) /\ Len(a \o b) = Len(a) + Len(b)
        /\ \A i \in 1 .. Len(a) + Len(b) :
             (a \o b)[i] = IF i <= Len(a) THEN a[i] ELSE b[i - Len(a)]
    BY <1>2, <1>3, ConcatProperties
  <2>2. Len(a) + Len(b) = Len(c) - 1
    BY <1>1, <1>2, <1>3
  <2> QED
    BY <1>2, <2>1, <2>2
<1>5. \A i \in 1 .. Len(c) - 1 : (a \o b)[i] = IF i < v THEN c[i] ELSE c[i + 1]
  <2>1. ASSUME NEW i \in 1 .. Len(c) - 1, i < v PROVE (a \o b)[i] = c[i]
    BY <1>1, <1>2, <1>4, <2>1
  <2>2. ASSUME NEW i \in 1 .. Len(c) - 1, ~(i < v) PROVE (a \o b)[i] = c[i + 1]
    <3>1. i - (v - 1) \in 1 .. Len(c) - v /\ v + (i - (v - 1)) = i + 1 /\ ~(i <= v - 1)
      BY <1>1, <2>2
    <3>2. (a \o b)[i] = b[i - (v - 1)] /\ b[i - (v - 1)] = c[i + 1]
      BY <1>3, <1>4, <3>1
    <3> QED
      BY <3>2
  <2> QED
    BY <2>1, <2>2
<1> QED
  BY <1>4, <1>5 DEF RemoveAt, a, b

\* Deleting entries disturbs none of those that stay.
LEMMA KeptEntries ==
  ASSUME TypeOK, CacheInv, NEW S \in SUBSET DOMAIN cache, NEW c \in Kept(S)
  PROVE  c \in Seq(Entry) /\ Len(c) <= CacheSize /\ Entries(c, now)
<1>0. PICK n \in 0 .. Len(cache) : \E f \in [1 .. n -> DOMAIN cache] :
        /\ \A j, k \in DOMAIN f : j < k => f[j] < f[k]
        /\ c = [k \in DOMAIN f |-> cache[f[k]]]
  BY DEF Kept
<1>1. PICK f \in [1 .. n -> DOMAIN cache] :
        /\ \A j, k \in DOMAIN f : j < k => f[j] < f[k]
        /\ c = [k \in DOMAIN f |-> cache[f[k]]]
  BY <1>0
<1>2. DOMAIN f = 1 .. n /\ Len(cache) \in Nat /\ n \in Nat
  BY DEF TypeOK
<1>3. c \in [1 .. n -> Entry] /\ \A k \in 1 .. n : f[k] \in DOMAIN cache /\ c[k] = cache[f[k]]
  BY <1>1, <1>2 DEF TypeOK
<1>4. c \in Seq(Entry) /\ Len(c) = n
  BY <1>2, <1>3
<1>5. \A j, k \in 1 .. n : f[j] = f[k] => j = k
  BY <1>1, <1>2
<1>6. Entries(c, now)
  BY <1>3, <1>5 DEF Entries, CacheInv
<1> QED
  BY <1>2, <1>4, <1>6, SizeAssumption DEF CacheInv

\* Room takes out at most the victim.
LEMMA RoomEntries ==
  ASSUME TypeOK, CacheInv
  PROVE  LET c == Room(cache)
         IN /\ c \in Seq(Entry) /\ Entries(c, now) /\ Len(c) < CacheSize
            /\ \A i \in DOMAIN cache :
                 \/ \E k \in DOMAIN c : c[k] = cache[i]
                 \/ \A j \in DOMAIN cache : cache[i].accessed <= cache[j].accessed
<1>1. Len(cache) \in Nat /\ CacheSize \in Nat \ {0} /\ cache \in Seq(Entry)
  BY SizeAssumption DEF TypeOK
<1>2. CASE Len(cache) < CacheSize
  BY <1>1, <1>2 DEF Room, CacheInv
<1>3. CASE Len(cache) >= CacheSize
  <2> DEFINE v == Victim(cache)
             c == RemoveAt(cache, v)
  <2>1. cache # << >> /\ Room(cache) = c
    BY <1>1, <1>3 DEF Room
  <2>2. v \in DOMAIN cache /\ \A j \in DOMAIN cache : cache[v].accessed <= cache[j].accessed
    BY <1>1, <2>1, VictimIsLeast
  <2> HIDE DEF v
  <2>3. /\ c \in Seq(Entry) /\ Len(c) = Len(cache) - 1
        /\ \A i \in 1 .. Len(cache) - 1 : c[i] = IF i < v THEN cache[i] ELSE cache[i + 1]
    BY <1>1, <2>2, Removed
  <2> HIDE DEF c
  <2>4. \A i \in DOMAIN c : \E k \in DOMAIN cache : /\ c[i] = cache[k]
                                                    /\ k = IF i < v THEN i ELSE i + 1
    BY <1>1, <2>2, <2>3
  <2>5. Entries(c, now)
    <3>1. ASSUME NEW i \in DOMAIN c
          PROVE  /\ c[i].value = c[i].timestamp
                 /\ c[i].timestamp <= c[i].accessed /\ c[i].accessed <= now
      BY <2>4 DEF Entries, CacheInv
    <3>2. ASSUME NEW i \in DOMAIN c, NEW j \in DOMAIN c, c[i].key = c[j].key
          PROVE  i = j
      <4>1. i \in Nat /\ j \in Nat
        BY <1>1, <2>3
      <4>2. PICK k \in DOMAIN cache : c[i] = cache[k] /\ k = IF i < v THEN i ELSE i + 1
        BY <2>4
      <4>3. PICK l \in DOMAIN cache : c[j] = cache[l] /\ l = IF j < v THEN j ELSE j + 1
        BY <2>4
      <4>4. k = l
        BY <3>2, <4>2, <4>3 DEF Entries, CacheInv
      <4> QED
        BY <1>1, <2>2, <4>1, <4>2, <4>3, <4>4
    <3> QED
      BY <3>1, <3>2 DEF Entries
  <2>6. ASSUME NEW i \in DOMAIN cache, i # v PROVE \E k \in DOMAIN c : c[k] = cache[i]
    <3>1. CASE i < v
      BY <1>1, <2>2, <2>3, <2>6, <3>1
    <3>2. CASE i > v
      <4>1. i - 1 \in DOMAIN c /\ c[i - 1] = cache[i]
        BY <1>1, <2>2, <2>3, <3>2
      <4> QED
        BY <4>1
    <3> QED
      BY <1>1, <2>2, <2>6, <3>1, <3>2
  <2> QED
    BY <1>1, <1>3, <2>1, <2>2, <2>3, <2>5, <2>6 DEF CacheInv
<1> QED
  BY <1>1, <1>2, <1>3

\* Map.set puts one entry of now under its key.
LEMMA PutEntries ==
  ASSUME NEW c \in Seq(Entry), Entries(c, now), NEW e \in Entry, now \in Nat,
         e.value = now, e.timestamp = now, e.accessed = now
  PROVE  /\ Put(c, e) \in Seq(Entry) /\ Entries(Put(c, e), now)
         /\ Len(Put(c, e)) <= Len(c) + 1
         /\ \A i \in DOMAIN c : \E k \in DOMAIN Put(c, e) : Put(c, e)[k].key = c[i].key
<1>1. Len(c) \in Nat /\ DOMAIN c = 1 .. Len(c) /\ \A i \in DOMAIN c : c[i] \in Entry
  OBVIOUS
<1>2. CASE \E i \in DOMAIN c : c[i].key = e.key
  <2> DEFINE d == [i \in DOMAIN c |-> IF c[i].key = e.key THEN e ELSE c[i]]
  <2>1. Put(c, e) = d
    BY <1>2 DEF Put
  <2>2. /\ d \in [1 .. Len(c) -> Entry]
        /\ \A i \in DOMAIN c : d[i].key = c[i].key /\ (d[i] = e \/ d[i] = c[i])
    BY <1>1
  <2>3. d \in Seq(Entry) /\ Len(d) = Len(c) /\ DOMAIN d = DOMAIN c
    BY <1>1, <2>2
  <2> HIDE DEF d
  <2>4. Entries(d, now)
    BY <2>2, <2>3 DEF Entries
  <2> QED
    BY <1>1, <2>1, <2>2, <2>3, <2>4
<1>3. CASE \A i \in DOMAIN c : c[i].key # e.key
  <2> DEFINE d == Append(c, e)
  <2>1. Put(c, e) = d
    BY <1>3 DEF Put
  <2>2. /\ d \in Seq(Entry) /\ Len(d) = Len(c) + 1 /\ d[Len(c) + 1] = e
        /\ \A i \in 1 .. Len(c) : d[i] = c[i]
    BY <1>1, AppendProperties
  <2> HIDE DEF d
  <2>3. DOMAIN d = 1 .. Len(c) + 1
    BY <1>1, <2>2
  <2>4. Entries(d, now)
    BY <1>1, <1>3, <2>2, <2>3 DEF Entries
  <2> QED
    BY <1>1, <2>1, <2>2, <2>3, <2>4
<1> QED
  BY <1>2, <1>3

-----------------------------------------------------------------------------
(* The metrics.                                                            *)

Ending(S) == Cardinality({r \in Requests : request[r].pc \in S})

\* A step of one request that settles it, or does not, changes the numbers by
\* as much.
LEMMA OneSettled ==
  ASSUME NEW S, NEW r \in Requests, request[r].pc \notin S,
         \A q \in Requests \ {r} : request'[q].pc = request[q].pc
  PROVE  /\ Ending(S) \in Nat
         /\ Ending(S)' = IF request'[r].pc \in S THEN Ending(S) + 1 ELSE Ending(S)
<1> DEFINE A == {q \in Requests : request[q].pc \in S}
           B == {q \in Requests : request'[q].pc \in S}
<1>1. IsFiniteSet(A) /\ r \notin A
  BY FS_Subset, RequestAssumption
<1>2. B = IF request'[r].pc \in S THEN A \cup {r} ELSE A
  OBVIOUS
<1>3. Cardinality(A) \in Nat /\ Cardinality(A \cup {r}) = Cardinality(A) + 1
  BY <1>1, FS_AddElement, FS_CardinalityType
<1> QED
  BY <1>2, <1>3 DEF Ending

LEMMA CountIs ==
  ASSUME metric \in Metric, NEW status, Count(status)
  PROVE  /\ metric' \in Metric /\ metric'.requests = metric.requests + 1
         /\ metric'.successes = IF status = "error" THEN metric.successes
                                                    ELSE metric.successes + 1
         /\ metric'.errors = IF status = "error" THEN metric.errors + 1 ELSE metric.errors
<1>1. metric.requests \in Nat /\ metric.successes \in Nat /\ metric.errors \in Nat
  BY DEF Metric
<1>2. metric' = [requests |-> metric.requests + 1,
                 successes |-> IF status = "error" THEN metric.successes ELSE metric.successes + 1,
                 errors |-> IF status = "error" THEN metric.errors + 1 ELSE metric.errors]
  BY DEF Metric, Count
<1> QED
  BY <1>1, <1>2 DEF Metric

\* A step of r leaves the other requests as they are.
LEMMA RequestStep ==
  ASSUME request \in [Requests -> Request], NEW r \in Requests, NEW x \in Request,
         request' = [request EXCEPT ![r] = x]
  PROVE  /\ request' \in [Requests -> Request] /\ request'[r] = x
         /\ \A q \in Requests \ {r} : request'[q] = request[q]
OBVIOUS

\* What Count and the new state of r make of the metrics.
LEMMA MetricsStep ==
  ASSUME TypeOK, MetricsExact, NEW r \in Requests, request[r].pc \in Open,
         \A q \in Requests \ {r} : request'[q].pc = request[q].pc,
         \/ request'[r].pc \in Open /\ metric' = metric
         \/ request'[r].pc \in {"cached", "response"} /\ (Count("success") \/ Count("cache-hit"))
         \/ request'[r].pc \in {"fallback", "error"} /\ Count("error")
  PROVE  MetricsExact' /\ metric' \in Metric
<1> DEFINE G == {"cached", "response"}
           B == {"fallback", "error"}
<1>1. /\ metric.successes = Ending(G) /\ metric.errors = Ending(B)
      /\ metric.requests = metric.successes + metric.errors
      /\ metric \in Metric /\ metric.successes \in Nat /\ metric.errors \in Nat
  BY DEF MetricsExact, Ending, TypeOK, Metric
<1>2. /\ Ending(G)' = IF request'[r].pc \in G THEN Ending(G) + 1 ELSE Ending(G)
      /\ Ending(B)' = IF request'[r].pc \in B THEN Ending(B) + 1 ELSE Ending(B)
  <2>1. request[r].pc \notin G /\ request[r].pc \notin B
    BY DEF Open
  <2> QED
    BY <2>1, OneSettled
<1>3. /\ metric'.successes = Ending(G)' /\ metric'.errors = Ending(B)'
      /\ metric'.requests = metric'.successes + metric'.errors
      /\ metric' \in Metric
  <2>1. CASE request'[r].pc \in Open /\ metric' = metric
    BY <1>1, <1>2, <2>1 DEF Open
  <2>2. CASE request'[r].pc \in G /\ (Count("success") \/ Count("cache-hit"))
    BY <1>1, <1>2, <2>2, CountIs
  <2>3. CASE request'[r].pc \in B /\ Count("error")
    BY <1>1, <1>2, <2>3, CountIs
  <2> QED
    BY <2>1, <2>2, <2>3
<1> QED
  BY <1>3 DEF MetricsExact, Ending

-----------------------------------------------------------------------------
(* The invariant.                                                          *)

LEMMA InitInv == Init => IInv
<1> SUFFICES ASSUME Init PROVE IInv
  OBVIOUS
<1>1. cache \in Seq(Entry) /\ Len(cache) = 0 /\ DOMAIN cache = {}
  BY EmptySeq DEF Init
<1>2. TypeOK
  <2>1. NotStarted \in Request
    BY DEF NotStarted, Request, Open
  <2> QED
    BY <1>1, <2>1 DEF Init, TypeOK, Metric
<1>3. CacheInv
  BY <1>1, SizeAssumption DEF CacheInv, Entries
<1>4. MetricsExact
  <2>1. \A r \in Requests : request[r].pc = "none"
    BY DEF Init, NotStarted
  <2>2. /\ {r \in Requests : request[r].pc \in {"cached", "response"}} = {}
        /\ {r \in Requests : request[r].pc \in {"fallback", "error"}} = {}
    BY <2>1
  <2>3. metric.successes = 0 /\ metric.errors = 0 /\ metric.requests = 0
    BY DEF Init
  <2>4. Ending({"cached", "response"}) = 0 /\ Ending({"fallback", "error"}) = 0
    BY <2>2, FS_EmptySet DEF Ending
  <2> QED
    BY <2>3, <2>4 DEF MetricsExact, Ending
<1> QED
  BY <1>2, <1>3, <1>4 DEF IInv

LEMMA HitInv == ASSUME IInv, NEW r \in Requests, Hit(r) PROVE IInv'
<1>1. PICK key \in Keys : \E i \in Positions(key) :
        /\ cache' = [cache EXCEPT ![i].accessed = now]
        /\ request' = [request EXCEPT ![r] =
             [NotStarted EXCEPT !.pc = "cached", !.key = key, !.value = cache[i].value]]
  BY DEF Hit
<1>2. PICK i \in Positions(key) :
        /\ cache' = [cache EXCEPT ![i].accessed = now]
        /\ request' = [request EXCEPT ![r] =
             [NotStarted EXCEPT !.pc = "cached", !.key = key, !.value = cache[i].value]]
  BY <1>1
<1>3. /\ request[r].pc = "none" /\ Count("cache-hit") /\ now' = now /\ now \in Nat
      /\ i \in DOMAIN cache /\ cache \in Seq(Entry)
  BY DEF Hit, IInv, TypeOK, Positions
<1>4. cache[i] \in Entry
  BY <1>3
<1>5. /\ request'[r].pc = "cached" /\ request' \in [Requests -> Request]
      /\ \A q \in Requests \ {r} : request'[q] = request[q]
  <2> DEFINE x == [NotStarted EXCEPT !.pc = "cached", !.key = key, !.value = cache[i].value]
  <2>1. x \in Request /\ x.pc = "cached" /\ request' = [request EXCEPT ![r] = x]
    BY <1>2, <1>4 DEF NotStarted, Settled, Entry, Request
  <2> HIDE DEF x
  <2> QED
    BY <2>1, RequestStep DEF IInv, TypeOK
<1>6. MetricsExact' /\ metric' \in Metric
  BY <1>3, <1>5, MetricsStep DEF IInv, Open
<1>7. /\ cache' \in Seq(Entry) /\ Len(cache') = Len(cache) /\ DOMAIN cache' = DOMAIN cache
      /\ \A j \in DOMAIN cache : /\ cache'[j].key = cache[j].key
                                 /\ cache'[j].value = cache[j].value
                                 /\ cache'[j].timestamp = cache[j].timestamp
                                 /\ cache'[j].accessed = IF j = i THEN now ELSE cache[j].accessed
  <2>1. Len(cache) \in Nat /\ cache \in [1 .. Len(cache) -> Entry]
    BY <1>3
  <2>2. cache' \in [1 .. Len(cache) -> Entry]
    BY <1>2, <1>3, <2>1 DEF Entry
  <2>3. cache' \in Seq(Entry) /\ Len(cache') = Len(cache) /\ DOMAIN cache' = DOMAIN cache
    BY <2>1, <2>2
  <2>4. ASSUME NEW j \in DOMAIN cache, j # i PROVE cache'[j] = cache[j]
    BY <1>2, <1>3, <2>4
  <2>5. cache'[i] = [cache[i] EXCEPT !.accessed = now]
    BY <1>2, <1>3
  <2>6. /\ cache'[i].key = cache[i].key /\ cache'[i].value = cache[i].value
        /\ cache'[i].timestamp = cache[i].timestamp /\ cache'[i].accessed = now
    BY <1>4, <2>5 DEF Entry
  <2> QED
    BY <2>3, <2>4, <2>6
<1>8. CacheInv'
  <2>1. \A j \in DOMAIN cache : cache[j].timestamp \in Nat /\ cache[j].accessed \in Nat
    BY <1>3, EntryTypes
  <2> QED
    <3>1. ASSUME NEW j \in DOMAIN cache
          PROVE  /\ cache'[j].value = cache'[j].timestamp
                 /\ cache'[j].timestamp <= cache'[j].accessed /\ cache'[j].accessed <= now
      BY <1>3, <1>7, <2>1 DEF IInv, CacheInv, Entries
    <3>2. \A j, k \in DOMAIN cache : cache'[j].key = cache'[k].key => j = k
      BY <1>7 DEF IInv, CacheInv, Entries
    <3>3. Entries(cache', now)
      BY <1>7, <3>1, <3>2 DEF Entries
    <3> QED
      BY <1>3, <1>7, <3>3 DEF IInv, CacheInv
<1>9. TypeOK'
  BY <1>3, <1>5, <1>6, <1>7 DEF IInv, TypeOK
<1> QED
  BY <1>6, <1>8, <1>9 DEF IInv

LEMMA MissInv == ASSUME IInv, NEW r \in Requests, Miss(r) PROVE IInv'
<1>1. PICK key \in Keys, retries \in Retries, useCache \in BOOLEAN, fallback \in BOOLEAN :
        /\ cache' \in Kept(IF useCache THEN DOMAIN cache \ Positions(key) ELSE DOMAIN cache)
        /\ request' = [request EXCEPT ![r] =
             [NotStarted EXCEPT !.pc = "await", !.key = key, !.retries = retries,
                                !.fallback = fallback, !.calls = 1]]
  BY DEF Miss
<1>2. request[r].pc = "none" /\ UNCHANGED <<now, metric>>
  BY DEF Miss
<1>3. cache' \in Seq(Entry) /\ Len(cache') <= CacheSize /\ Entries(cache', now)
  BY <1>1, KeptEntries DEF IInv
<1>4. /\ request'[r].pc = "await" /\ request' \in [Requests -> Request]
      /\ \A q \in Requests \ {r} : request'[q] = request[q]
  <2> DEFINE x == [NotStarted EXCEPT !.pc = "await", !.key = key, !.retries = retries,
                                     !.fallback = fallback, !.calls = 1]
  <2>1. x \in Request /\ x.pc = "await" /\ request' = [request EXCEPT ![r] = x]
    BY <1>1, RetryAssumption DEF NotStarted, Open, Request
  <2> HIDE DEF x
  <2> QED
    BY <2>1, RequestStep DEF IInv, TypeOK
<1>5. MetricsExact'
  BY <1>2, <1>4, MetricsStep DEF IInv, Open
<1>6. TypeOK'
  BY <1>2, <1>3, <1>4 DEF IInv, TypeOK
<1> QED
  BY <1>2, <1>3, <1>5, <1>6 DEF IInv, CacheInv

\* What SetCached does to the cache.
LEMMA SetCachedInv ==
  ASSUME IInv, NEW key \in Keys, SetCached(key, now)
  PROVE  /\ cache' \in Seq(Entry) /\ Len(cache') <= CacheSize /\ Entries(cache', now)
         /\ \A i \in DOMAIN cache :
              \/ \E k \in DOMAIN cache' : cache'[k].key = cache[i].key
              \/ \A j \in DOMAIN cache : cache[i].accessed <= cache[j].accessed
<1> DEFINE e == [key |-> key, value |-> now, timestamp |-> now, accessed |-> now]
           c == Room(cache)
<1>1. now \in Nat /\ e \in Entry /\ cache' = Put(c, e)
      /\ e.value = now /\ e.timestamp = now /\ e.accessed = now
  BY DEF IInv, TypeOK, Entry, SetCached
<1>2. /\ c \in Seq(Entry) /\ Entries(c, now) /\ Len(c) < CacheSize
      /\ \A i \in DOMAIN cache :
           \/ \E k \in DOMAIN c : c[k] = cache[i]
           \/ \A j \in DOMAIN cache : cache[i].accessed <= cache[j].accessed
  BY RoomEntries DEF IInv
<1> HIDE DEF c, e
<1>3. /\ Put(c, e) \in Seq(Entry) /\ Entries(Put(c, e), now)
      /\ Len(Put(c, e)) <= Len(c) + 1
      /\ \A i \in DOMAIN c : \E k \in DOMAIN Put(c, e) : Put(c, e)[k].key = c[i].key
  BY <1>1, <1>2, PutEntries
<1>4. Len(Put(c, e)) <= CacheSize
  <2>1. Len(c) \in Nat /\ Len(Put(c, e)) \in Nat
    BY <1>2, <1>3
  <2> QED
    BY <1>2, <1>3, <2>1, SizeAssumption
<1>5. ASSUME NEW i \in DOMAIN cache, NEW j \in DOMAIN cache,
             ~(cache[i].accessed <= cache[j].accessed)
      PROVE  \E k \in DOMAIN Put(c, e) : Put(c, e)[k].key = cache[i].key
  <2>1. PICK k \in DOMAIN c : c[k] = cache[i]
    BY <1>2, <1>5
  <2> QED
    BY <1>3, <2>1
<1> QED
  BY <1>1, <1>3, <1>4, <1>5

LEMMA FulfilledInv == ASSUME IInv, NEW r \in Requests, Fulfilled(r) PROVE IInv'
<1>1. /\ request[r].pc = "await" /\ Count("success") /\ now' = now /\ now \in Nat
      /\ request' = [request EXCEPT ![r].pc = "response", ![r].value = now]
      /\ request[r] \in Request /\ request[r].key \in Keys
      /\ SetCached(request[r].key, now) \/ cache' = cache
  <2>1. request[r] \in Request
    BY DEF IInv, TypeOK
  <2> QED
    BY <2>1 DEF Fulfilled, IInv, TypeOK, Request
<1>2. cache' \in Seq(Entry) /\ Len(cache') <= CacheSize /\ Entries(cache', now)
  BY <1>1, SetCachedInv DEF IInv, TypeOK, CacheInv
<1>3. /\ request'[r].pc = "response" /\ request' \in [Requests -> Request]
      /\ \A q \in Requests \ {r} : request'[q] = request[q]
  <2> DEFINE x == [request[r] EXCEPT !.pc = "response", !.value = now]
  <2>1. x \in Request /\ x.pc = "response"
    BY <1>1 DEF Settled, Request
  <2>2. request' = [request EXCEPT ![r] = x]
    BY <1>1 DEF IInv, TypeOK
  <2> HIDE DEF x
  <2> QED
    BY <2>1, <2>2, RequestStep DEF IInv, TypeOK
<1>4. MetricsExact' /\ metric' \in Metric
  BY <1>1, <1>3, MetricsStep DEF IInv, Open
<1>5. TypeOK'
  BY <1>1, <1>2, <1>3, <1>4 DEF IInv, TypeOK
<1> QED
  BY <1>1, <1>2, <1>4, <1>5 DEF IInv, CacheInv

\* The steps of a request that leave the cache alone.
LEMMA RestInv ==
  ASSUME IInv, NEW r \in Requests, Rejected(r) \/ Retry(r) \/ Failed(r)
  PROVE  IInv'
<1>1. /\ request[r].pc \in Open /\ UNCHANGED <<now, cache>>
      /\ \/ request'[r].pc \in Open /\ metric' = metric
         \/ request'[r].pc \in {"fallback", "error"} /\ Count("error")
      /\ \A q \in Requests \ {r} : request'[q] = request[q]
      /\ request' \in [Requests -> Request]
  <2>1. request[r] \in Request /\ request \in [Requests -> Request]
    BY DEF IInv, TypeOK
  <2>2. CASE Rejected(r)
    <3> DEFINE x == [request[r] EXCEPT !.pc = "delay"]
    <3>1. x \in Request /\ x.pc = "delay" /\ request' = [request EXCEPT ![r] = x]
      BY <2>1, <2>2 DEF Rejected, Request, Open
    <3> HIDE DEF x
    <3> QED
      BY <2>1, <2>2, <3>1, RequestStep DEF Rejected, Open
  <2>3. CASE Retry(r)
    <3> DEFINE x == [request[r] EXCEPT !.pc = "await", !.calls = @ + 1]
    <3>1. x \in Request /\ x.pc = "await" /\ request' = [request EXCEPT ![r] = x]
      BY <2>1, <2>3 DEF Retry, Request, Open
    <3> HIDE DEF x
    <3> QED
      BY <2>1, <2>3, <3>1, RequestStep DEF Retry, Open
  <2>4. CASE Failed(r)
    <3> DEFINE x == [request[r] EXCEPT !.pc = IF request[r].fallback THEN "fallback"
                                              ELSE "error"]
    <3>1. /\ x \in Request /\ x.pc \in {"fallback", "error"}
          /\ request' = [request EXCEPT ![r] = x]
      BY <2>1, <2>4 DEF Failed, Request, Settled
    <3> HIDE DEF x
    <3> QED
      BY <2>1, <2>4, <3>1, RequestStep DEF Failed, Open
  <2> QED
    BY <2>2, <2>3, <2>4
<1>2. MetricsExact' /\ metric' \in Metric
  BY <1>1, MetricsStep DEF IInv
<1>3. TypeOK'
  BY <1>1, <1>2 DEF IInv, TypeOK
<1> QED
  BY <1>1, <1>2, <1>3 DEF IInv, CacheInv

\* The steps of no request.
LEMMA CacheStepInv ==
  ASSUME IInv, UNCHANGED <<request, metric>>,
         \/ \E S \in SUBSET DOMAIN cache : cache' \in Kept(S) /\ now' = now
         \/ cache' = << >> /\ now' = now
         \/ cache' = cache /\ now' \in Nat /\ now <= now'
  PROVE  IInv'
<1>1. cache' \in Seq(Entry) /\ now' \in Nat
      /\ Len(cache') <= CacheSize /\ Entries(cache', now')
  <2>1. CASE \E S \in SUBSET DOMAIN cache : cache' \in Kept(S) /\ now' = now
    BY <2>1, KeptEntries DEF IInv, TypeOK
  <2>2. CASE cache' = << >> /\ now' = now
    BY <2>2, EmptySeq, SizeAssumption DEF IInv, TypeOK, Entries
  <2>3. CASE cache' = cache /\ now' \in Nat /\ now <= now'
    <3>1. now \in Nat /\ \A i \in DOMAIN cache : cache[i].accessed \in Nat
      BY EntryTypes DEF IInv, TypeOK
    <3> QED
      BY <2>3, <3>1 DEF IInv, TypeOK, CacheInv, Entries
  <2> QED
    BY <2>1, <2>2, <2>3
<1>2. MetricsExact' /\ TypeOK'
  BY <1>1 DEF IInv, TypeOK, MetricsExact
<1> QED
  BY <1>1, <1>2 DEF IInv, CacheInv

LEMMA NextInv == IInv /\ [Next]_vars => IInv'
<1> SUFFICES ASSUME IInv, [Next]_vars PROVE IInv'
  OBVIOUS
<1>1. ASSUME NEW r \in Requests, Hit(r) PROVE IInv'
  BY <1>1, HitInv
<1>2. ASSUME NEW r \in Requests, Miss(r) PROVE IInv'
  BY <1>2, MissInv
<1>3. ASSUME NEW r \in Requests, Proceed(r) PROVE IInv'
  BY <1>3, FulfilledInv, RestInv DEF Proceed
<1>4. CASE CleanupCache
  <2>1. {i \in DOMAIN cache : ~Expired(cache[i])} \in SUBSET DOMAIN cache
    OBVIOUS
  <2> QED
    BY <1>4, <2>1, CacheStepInv DEF CleanupCache
<1>5. CASE ClearCache
  BY <1>5, CacheStepInv DEF ClearCache
<1>6. CASE Tick
  <2>1. now' \in Nat /\ now <= now'
    BY <1>6 DEF Tick, IInv, TypeOK
  <2> QED
    BY <1>6, <2>1, CacheStepInv DEF Tick
<1>7. CASE UNCHANGED vars
  <2>1. now \in Nat /\ now <= now
    BY DEF IInv, TypeOK
  <2> QED
    BY <1>7, <2>1, CacheStepInv DEF vars
<1> QED
  BY <1>1, <1>2, <1>3, <1>4, <1>5, <1>6, <1>7 DEF Next

-----------------------------------------------------------------------------
(* The composition runs one of two specifications.                         *)

\* A behaviour of the composition is one of the bridge, whose variables stand
\* still while the executor runs.
THEOREM RunsTheBridge == IntegrationSpec => Spec
<1>1. IntegrationInit => Init
  BY DEF IntegrationInit
<1>2. [IntegrationNext]_<<service, vars, gpuVars>> => [Next]_vars
  BY DEF IntegrationNext
<1> QED
  BY <1>1, <1>2, PTL DEF IntegrationSpec, Spec

\* Answers that arrive at a full cache in any order neither make it larger
\* than cacheSize nor hold a key twice, and its clocks stay in order.
THEOREM CacheStaysSound == IntegrationSpec => []CacheSound
<1>1. IInv => CacheSound
  BY DEF IInv, CacheInv, Entries, CacheSound
<1> QED
  BY <1>1, InitInv, NextInv, RunsTheBridge, PTL DEF Spec

\* Every settled request was counted exactly once, whatever the order of
\* answers, failures and retries.
THEOREM MetricsStayExact == IntegrationSpec => []MetricsExact
<1>1. IInv => MetricsExact
  BY DEF IInv
<1> QED
  BY <1>1, InitInv, NextInv, RunsTheBridge, PTL DEF Spec

\* A request that is settled from the cache hands out an answer that is at
\* most TTL old.
THEOREM ServesNothingStale == IntegrationSpec => NothingStaleServed
<1> DEFINE A == \A r \in Requests :
                  request[r].pc = "none" /\ request'[r].pc = "cached" =>
                    now - request'[r].value <= TTL
<1>1. IInv /\ [Next]_vars => [A]_vars
  <2> SUFFICES ASSUME IInv, Next, NEW r \in Requests,
                      request[r].pc = "none", request'[r].pc = "cached"
               PROVE  now - request'[r].value <= TTL
    OBVIOUS
  <2>1. Hit(r)
    <3>1. ASSUME NEW q \in Requests, Hit(q) PROVE Hit(r)
      <4>1. \A p \in Requests \ {q} : request'[p] = request[p]
        BY <3>1 DEF Hit, IInv, TypeOK
      <4> QED
        BY <3>1, <4>1
    <3>2. ASSUME NEW q \in Requests, Miss(q) PROVE FALSE
      BY <3>2 DEF Miss, IInv, TypeOK, NotStarted
    <3>3. ASSUME NEW q \in Requests, Proceed(q) PROVE FALSE
      BY <3>3 DEF Proceed, Fulfilled, Rejected, Retry, Failed, IInv, TypeOK
    <3> QED
      BY <3>1, <3>2, <3>3 DEF Next, CleanupCache, ClearCache, Tick
  <2>2. PICK key \in Keys : \E i \in Positions(key) :
          /\ ~Expired(cache[i])
          /\ request' = [request EXCEPT ![r] =
               [NotStarted EXCEPT !.pc = "cached", !.key = key, !.value = cache[i].value]]
    BY <2>1 DEF Hit
  <2>3. PICK i \in Positions(key) :
          /\ ~Expired(cache[i])
          /\ request' = [request EXCEPT ![r] =
               [NotStarted EXCEPT !.pc = "cached", !.key = key, !.value = cache[i].value]]
    BY <2>2
  <2>4. i \in DOMAIN cache /\ request'[r].value = cache[i].value
    BY <2>3 DEF Positions, IInv, TypeOK, NotStarted
  <2>5. cache[i].value = cache[i].timestamp /\ cache[i] \in Entry
    BY <2>4 DEF IInv, TypeOK, CacheInv, Entries
  <2> QED
    BY <2>3, <2>4, <2>5, SizeAssumption DEF Expired, Entry, IInv, TypeOK
<1>2. IntegrationSpec => [][A]_vars
  BY <1>1, InitInv, NextInv, RunsTheBridge, PTL DEF Spec
<1> QED
  BY <1>2 DEF NothingStaleServed

\* An entry that an answer pushes out was used no later than any that stays.
THEOREM EvictsTheLeastRecent == IntegrationSpec => EvictsLeastRecent
<1> DEFINE A == \A i, j \in DOMAIN cache :
       /\ \E r \in Requests : request[r].pc = "await" /\ request'[r].pc = "response"
       /\ \A k \in DOMAIN cache' : cache'[k].key # cache[i].key
       /\ cache[j] \in ToSet(cache')
       => cache[i].accessed <= cache[j].accessed
<1>1. IInv /\ [Next]_vars => [A]_vars
  <2> SUFFICES ASSUME IInv, Next, NEW i \in DOMAIN cache, NEW j \in DOMAIN cache,
                      NEW r \in Requests,
                      request[r].pc = "await", request'[r].pc = "response",
                      \A k \in DOMAIN cache' : cache'[k].key # cache[i].key
               PROVE  cache[i].accessed <= cache[j].accessed
    OBVIOUS
  <2>1. Fulfilled(r)
    <3>1. ASSUME NEW q \in Requests, Hit(q) \/ Miss(q) PROVE FALSE
      BY <3>1 DEF Hit, Miss, IInv, TypeOK, NotStarted
    <3>2. ASSUME NEW q \in Requests, Proceed(q) PROVE Fulfilled(r)
      BY <3>2 DEF Proceed, Fulfilled, Rejected, Retry, Failed, IInv, TypeOK
    <3> QED
      BY <3>1, <3>2 DEF Next, CleanupCache, ClearCache, Tick
  <2>2. request[r].key \in Keys /\ (SetCached(request[r].key, now) \/ cache' = cache)
    <3>1. request[r] \in Request
      BY DEF IInv, TypeOK
    <3> QED
      BY <2>1, <3>1 DEF Fulfilled, Request
  <2>3. ASSUME cache' = cache PROVE FALSE
    <3>1. i \in DOMAIN cache' /\ cache'[i].key = cache[i].key
      BY <2>3
    <3> QED
      BY <3>1
  <2> QED
    BY <2>2, <2>3, SetCachedInv
<1>2. IntegrationSpec => [][A]_vars
  BY <1>1, InitInv, NextInv, RunsTheBridge, PTL DEF Spec
<1> QED
  BY <1>2 DEF EvictsLeastRecent

-----------------------------------------------------------------------------
(* The executor.                                                           *)

Calls(gpu, cpu) == [gpu |-> gpu, cpu |-> cpu]

LEMMA CallsAre == \A gpu, cpu : Calls(gpu, cpu).gpu = gpu /\ Calls(gpu, cpu).cpu = cpu
BY DEF Calls

\* What the calls of an execution have come to so far.
Attempted(x, calls) ==
  /\ x.pc = "none" => calls = Calls("no", "no")
  /\ x.pc = "await" => calls = IF x.gpu THEN Calls("running", "no") ELSE Calls("no", "running")
  /\ x.pc = "fallback" => \E how \in Gpu!Failures : calls = Calls(how, "running")
  /\ x.pc = "done" =>
       \/ x.on = "GPU" /\ calls = Calls("returned", "no")
       \/ x.on = "CPU" /\ calls = Calls("no", "returned")
       \/ x.on = "CPU (fallback)"
          /\ \E how \in Gpu!Failures : calls = Calls(how, "returned")
  /\ x.pc = "failed" =>
       \E gpu \in Gpu!Failures \cup {"no"}, cpu \in Gpu!Failures : calls = Calls(gpu, cpu)

Execution ==
  [pc : {"none", "await", "fallback", "done", "failed"}, gpu : BOOLEAN,
   force : {"no", "gpu", "cpu"}, big : BOOLEAN,
   on : {"none", "GPU", "CPU", "CPU (fallback)"}]

GpuInv ==
  /\ exec \in [Executions -> Execution] /\ tried = [e \in Executions |-> tried[e]]
  /\ \A e \in Executions : Attempted(exec[e], tried[e])

\* A step of e.
LEMMA AttemptStep ==
  ASSUME GpuInv, NEW e \in Executions, NEW x \in Execution, NEW calls,
         exec' = [exec EXCEPT ![e] = x], tried' = [tried EXCEPT ![e] = calls],
         Attempted(x, calls)
  PROVE  GpuInv'
<1>1. /\ exec' \in [Executions -> Execution]
      /\ tried' = [q \in Executions |-> tried'[q]]
      /\ exec'[e] = x /\ tried'[e] = calls
      /\ \A q \in Executions \ {e} : exec'[q] = exec[q] /\ tried'[q] = tried[q]
  BY DEF GpuInv
<1>2. \A q \in Executions : Attempted(exec'[q], tried'[q])
  <2> TAKE q \in Executions
  <2>1. CASE q = e
    BY <1>1, <2>1
  <2>2. CASE q # e
    BY <1>1, <2>2 DEF GpuInv
  <2> QED
    BY <2>1, <2>2
<1> HIDE DEF Attempted
<1> QED
  BY <1>1, <1>2 DEF GpuInv, Attempted

LEMMA GpuInitInv == Gpu!Init => GpuInv
<1> SUFFICES ASSUME Gpu!Init PROVE GpuInv
  OBVIOUS
<1>1. Gpu!Idle \in Execution /\ Gpu!Idle.pc = "none"
  BY DEF Gpu!Idle, Execution
<1>2. /\ \A e \in Executions : exec[e] = Gpu!Idle /\ tried[e] = Calls("no", "no")
      /\ exec \in [Executions -> Execution] /\ tried = [e \in Executions |-> tried[e]]
  BY <1>1 DEF Gpu!Init, Calls
<1> QED
  BY <1>1, <1>2 DEF GpuInv, Attempted

LEMMA GpuNextInv == GpuInv /\ [Gpu!Next]_(Gpu!vars) => GpuInv'
<1> SUFFICES ASSUME GpuInv, [Gpu!Next]_(Gpu!vars) PROVE GpuInv'
  OBVIOUS
<1>0. /\ exec \in [Executions -> Execution] /\ tried = [e \in Executions |-> tried[e]]
      /\ \A e \in Executions : exec[e] \in Execution /\ Attempted(exec[e], tried[e])
  BY DEF GpuInv
<1>1. ASSUME NEW e \in Executions, Gpu!Execute(e) PROVE GpuInv'
  <2>1. PICK force \in {"no", "gpu", "cpu"}, big \in BOOLEAN :
          LET gpu == Gpu!DecideGPURoute(force, big)
          IN /\ exec' = [exec EXCEPT ![e].pc = "await", ![e].gpu = gpu,
                                     ![e].force = force, ![e].big = big]
             /\ tried' = [tried EXCEPT
                            ![e] = [gpu |-> IF gpu THEN "running" ELSE "no",
                                    cpu |-> IF gpu THEN "no" ELSE "running"]]
    BY <1>1 DEF Gpu!Execute
  <2> DEFINE gpu == Gpu!DecideGPURoute(force, big)
             x == [exec[e] EXCEPT !.pc = "await", !.gpu = gpu, !.force = force, !.big = big]
             calls == Calls(IF gpu THEN "running" ELSE "no", IF gpu THEN "no" ELSE "running")
  <2>2. gpu \in BOOLEAN
    BY DEF Gpu!DecideGPURoute
  <2>3. exec' = [exec EXCEPT ![e] = x] /\ tried' = [tried EXCEPT ![e] = calls]
    BY <1>0, <2>1 DEF Calls
  <2> HIDE DEF gpu
  <2>4. /\ x \in Execution /\ x.pc = "await" /\ x.gpu = gpu
        /\ calls = IF gpu THEN Calls("running", "no") ELSE Calls("no", "running")
    BY <1>0, <2>2 DEF Execution
  <2> HIDE DEF x, calls
  <2>5. Attempted(x, calls)
    BY <2>4 DEF Attempted
  <2> QED
    BY <2>3, <2>4, <2>5, AttemptStep
<1>e. ASSUME NEW e \in Executions, NEW how,
             exec[e].pc \in {"await", "fallback"}
      PROVE  Gpu!Ends(e, how) = IF Gpu!OnGpu(e) THEN Calls(how, "no") ELSE Calls(tried[e].gpu, how)
  <2>1. \E gpu, cpu : tried[e] = Calls(gpu, cpu)
                      /\ (Gpu!OnGpu(e) => cpu = "no")
    BY <1>0, <1>e DEF Attempted, Gpu!OnGpu
  <2> QED
    BY <2>1 DEF Gpu!Ends, Calls
<1>g. ASSUME NEW e \in Executions, exec[e].pc \in {"await", "fallback"}, ~Gpu!OnGpu(e)
      PROVE  tried[e].gpu \in Gpu!Failures \cup {"no"}
             /\ (exec[e].pc = "fallback" => tried[e].gpu \in Gpu!Failures)
             /\ (exec[e].pc = "await" => tried[e].gpu = "no")
  <2>1. CASE exec[e].pc = "fallback"
    <3>1. PICK how \in Gpu!Failures : tried[e] = Calls(how, "running")
      BY <1>0, <2>1 DEF Attempted
    <3>2. tried[e].gpu = how
      BY <3>1, CallsAre
    <3> QED
      BY <2>1, <3>2
  <2>2. CASE exec[e].pc = "await"
    <3>1. ~exec[e].gpu
      BY <1>g, <2>2 DEF Gpu!OnGpu
    <3>2. tried[e] = Calls("no", "running")
      BY <1>0, <2>2, <3>1 DEF Attempted
    <3> QED
      BY <2>2, <3>2, CallsAre
  <2> QED
    BY <1>g, <2>1, <2>2
<1>2. ASSUME NEW e \in Executions, Gpu!Fulfilled(e) PROVE GpuInv'
  <2> DEFINE x == [exec[e] EXCEPT !.pc = "done",
                     !.on = IF exec[e].pc = "fallback" THEN "CPU (fallback)"
                            ELSE IF exec[e].gpu THEN "GPU" ELSE "CPU"]
             calls == Gpu!Ends(e, "returned")
  <2>1. /\ exec' = [exec EXCEPT ![e] = x] /\ tried' = [tried EXCEPT ![e] = calls]
        /\ exec[e].pc \in {"await", "fallback"}
    BY <1>0, <1>2 DEF Gpu!Fulfilled
  <2>2. /\ x \in Execution /\ x.pc = "done"
        /\ x.on = IF exec[e].pc = "fallback" THEN "CPU (fallback)"
                  ELSE IF exec[e].gpu THEN "GPU" ELSE "CPU"
    BY <1>0 DEF Execution
  <2>3. calls = IF Gpu!OnGpu(e) THEN Calls("returned", "no")
                ELSE Calls(tried[e].gpu, "returned")
    BY <1>e, <2>1
  <2> HIDE DEF x, calls
  <2>4. \/ x.on = "GPU" /\ calls = Calls("returned", "no")
        \/ x.on = "CPU" /\ calls = Calls("no", "returned")
        \/ x.on = "CPU (fallback)" /\ \E how \in Gpu!Failures : calls = Calls(how, "returned")
    <3>1. CASE Gpu!OnGpu(e)
      BY <2>2, <2>3, <3>1 DEF Gpu!OnGpu
    <3>2. CASE ~Gpu!OnGpu(e)
      BY <1>g, <2>1, <2>2, <2>3, <3>2 DEF Gpu!OnGpu
    <3> QED
      BY <3>1, <3>2
  <2>5. Attempted(x, calls)
    BY <2>2, <2>4 DEF Attempted
  <2> QED
    BY <2>1, <2>2, <2>5, AttemptStep
<1>f. ASSUME NEW e \in Executions, exec[e].pc \in {"await", "fallback"}, ~Gpu!OnGpu(e),
             NEW how \in Gpu!Failures,
             exec' = [exec EXCEPT ![e].pc = "failed"],
             tried' = [tried EXCEPT ![e] = Gpu!Ends(e, how)]
      PROVE  GpuInv'
  <2> DEFINE x == [exec[e] EXCEPT !.pc = "failed"]
             calls == Calls(tried[e].gpu, how)
  <2>1. exec' = [exec EXCEPT ![e] = x] /\ tried' = [tried EXCEPT ![e] = calls]
    <3>1. Gpu!Ends(e, how) = calls
      BY <1>e, <1>f
    <3>2. exec' = [exec EXCEPT ![e] = x]
      BY <1>0, <1>f
    <3> QED
      BY <1>f, <3>1, <3>2
  <2>2. x \in Execution /\ x.pc = "failed"
    BY <1>0 DEF Execution
  <2> HIDE DEF x
  <2>3. Attempted(x, calls)
    BY <1>f, <1>g, <2>2 DEF Attempted
  <2> HIDE DEF calls
  <2> QED
    BY <2>1, <2>2, <2>3, AttemptStep
<1>3. ASSUME NEW e \in Executions, Gpu!Threw(e) PROVE GpuInv'
  <2>1. PICK how \in Gpu!Failures :
          tried' = [tried EXCEPT ![e] = IF Gpu!OnGpu(e)
                                        THEN [Gpu!Ends(e, how) EXCEPT !.cpu = "running"]
                                        ELSE Gpu!Ends(e, how)]
    BY <1>3 DEF Gpu!Threw
  <2>2. /\ exec[e].pc = "await"
        /\ exec' = [exec EXCEPT ![e].pc = IF Gpu!OnGpu(e) THEN "fallback" ELSE "failed"]
    BY <1>3 DEF Gpu!Threw
  <2>3. CASE Gpu!OnGpu(e)
    <3> DEFINE x == [exec[e] EXCEPT !.pc = "fallback"]
               calls == Calls(how, "running")
    <3>1. [Gpu!Ends(e, how) EXCEPT !.cpu = "running"] = calls
      BY <1>e, <2>2, <2>3 DEF Calls
    <3>2. exec' = [exec EXCEPT ![e] = x] /\ tried' = [tried EXCEPT ![e] = calls]
      BY <1>0, <2>1, <2>2, <2>3, <3>1
    <3>3. x \in Execution /\ x.pc = "fallback"
      BY <1>0 DEF Execution
    <3> HIDE DEF x
    <3>4. Attempted(x, calls)
      BY <3>3 DEF Attempted
    <3> HIDE DEF calls
    <3> QED
      BY <3>2, <3>3, <3>4, AttemptStep
  <2>4. CASE ~Gpu!OnGpu(e)
    BY <1>f, <2>1, <2>2, <2>4
  <2> QED
    BY <2>3, <2>4
<1>4. ASSUME NEW e \in Executions, Gpu!FallbackThrew(e) PROVE GpuInv'
  <2>1. PICK how \in Gpu!Failures : tried' = [tried EXCEPT ![e] = Gpu!Ends(e, how)]
    BY <1>4 DEF Gpu!FallbackThrew
  <2>2. exec[e].pc = "fallback" /\ exec' = [exec EXCEPT ![e].pc = "failed"]
    BY <1>4 DEF Gpu!FallbackThrew
  <2>3. ~Gpu!OnGpu(e)
    BY <2>2 DEF Gpu!OnGpu
  <2> QED
    BY <1>f, <2>1, <2>2, <2>3
<1>5. ASSUME UNCHANGED <<exec, tried>> PROVE GpuInv'
  BY <1>5 DEF GpuInv, Attempted
<1>6. ASSUME NEW b \in Benchmarks, Gpu!Start(b) \/ Gpu!Run(b) PROVE GpuInv'
  BY <1>5, <1>6 DEF Gpu!Start, Gpu!Run, Gpu!Iterate, Gpu!TurnToCpu, Gpu!Analyse
<1> QED
  BY <1>1, <1>2, <1>3, <1>4, <1>5, <1>6 DEF Gpu!Next, Gpu!Settle, Gpu!vars

\* Whatever benchmarks end in between and whatever fails, the metadata of an
\* execution names the side whose result it hands out, and a failure reaches
\* the caller only after the CPU was tried and every call that was made threw
\* or returned a result that could not be recorded.
THEOREM OutcomesAreHonest == IntegrationSpec => []OutcomeHonest
<1>1. IntegrationInit => GpuInv
  BY GpuInitInv DEF IntegrationInit
<1>2. GpuInv /\ [IntegrationNext]_<<service, vars, gpuVars>> => GpuInv'
  <2>1. [IntegrationNext]_<<service, vars, gpuVars>> => [Gpu!Next]_(Gpu!vars)
    BY DEF IntegrationNext, gpuVars, Gpu!vars
  <2> QED
    BY <2>1, GpuNextInv
<1>3. GpuInv => OutcomeHonest
  <2> SUFFICES ASSUME GpuInv, NEW e \in Executions
               PROVE  /\ exec[e].pc = "done" =>
                           \/ exec[e].on = "GPU" /\ tried[e].gpu = "returned"
                              /\ tried[e].cpu = "no"
                           \/ exec[e].on = "CPU" /\ tried[e].gpu = "no"
                              /\ tried[e].cpu = "returned"
                           \/ exec[e].on = "CPU (fallback)"
                              /\ tried[e].gpu \in Gpu!Failures /\ tried[e].cpu = "returned"
                      /\ exec[e].pc = "failed" =>
                           /\ tried[e].cpu \in Gpu!Failures
                           /\ tried[e].gpu \in Gpu!Failures \cup {"no"}
    BY DEF OutcomeHonest, Gpu!OutcomeHonest
  <2>1. Attempted(exec[e], tried[e])
    BY DEF GpuInv
  <2>2. CASE exec[e].pc = "done"
    <3>1. PICK how \in Gpu!Failures :
            \/ exec[e].on = "GPU" /\ tried[e] = Calls("returned", "no")
            \/ exec[e].on = "CPU" /\ tried[e] = Calls("no", "returned")
            \/ exec[e].on = "CPU (fallback)" /\ tried[e] = Calls(how, "returned")
      BY <2>1, <2>2 DEF Attempted, Gpu!Failures
    <3>2. /\ Calls("returned", "no").gpu = "returned" /\ Calls("returned", "no").cpu = "no"
          /\ Calls("no", "returned").gpu = "no" /\ Calls("no", "returned").cpu = "returned"
          /\ Calls(how, "returned").gpu = how /\ Calls(how, "returned").cpu = "returned"
      BY CallsAre
    <3> QED
      BY <2>2, <3>1, <3>2
  <2>3. CASE exec[e].pc = "failed"
    <3>1. \E gpu \in Gpu!Failures \cup {"no"}, cpu \in Gpu!Failures : tried[e] = Calls(gpu, cpu)
      BY <2>1, <2>3 DEF Attempted
    <3> QED
      BY <2>3, <3>1, CallsAre
  <2> QED
    BY <2>2, <2>3
<1> QED
  BY <1>1, <1>2, <1>3, PTL DEF IntegrationSpec
=============================================================================
