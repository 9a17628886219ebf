----------------------------- MODULE BrainBridge -----------------------------
(***************************************************************************)
(* handle() of brain-integration/brain-integration-bridge.js: concurrent   *)
(* requests over one cache.  A request is cut at its awaits, the call of   *)
(* the handler and the delay before a retry; everything between two awaits *)
(* is one step.  Time passes in between and entries expire.                *)
(*                                                                         *)
(* Requests are of one type, which has a handler; their data is the cache  *)
(* key.  A listener that throws out of emit() is not modelled, nor are     *)
(* runtimes and feedback, which are kept apart from all this.              *)
(***************************************************************************)
EXTENDS Integers, Sequences, SequencesExt, FiniteSets, Functions

CONSTANTS Requests, Keys, NoKey,
          CacheSize, TTL,  \* config.cacheSize, config.defaultTTL
          Retries,         \* values of options.retries
          MaxTime          \* bound on the clock

ASSUME SizeAssumption == CacheSize \in Nat \ {0} /\ TTL \in Nat /\ MaxTime \in Nat
ASSUME RequestAssumption == IsFiniteSet(Requests) /\ NoKey \notin Keys
ASSUME RetryAssumption == Retries \subseteq Nat

VARIABLES
  now,      \* Date.now()
  cache,    \* the Map in insertion order: [key, value, timestamp, accessed]
  request,  \* state of each request
  metric    \* [requests, successes, errors] of the request type

vars == <<now, cache, request, metric>>

NotStarted == [pc |-> "none", key |-> NoKey, retries |-> 0, fallback |-> FALSE,
         calls |-> 0, value |-> 0]

Init ==
  /\ now = 0 /\ cache = <<>>
  /\ request = [r \in Requests |-> NotStarted]
  /\ metric = [requests |-> 0, successes |-> 0, errors |-> 0]

-----------------------------------------------------------------------------
(* The cache.                                                              *)

Positions(key) == {i \in DOMAIN cache : cache[i].key = key}
Expired(entry) == now - entry.timestamp > TTL

\* The Map, in its order, once all positions but those of S are deleted.
Kept(S) ==
  {[k \in DOMAIN f |-> cache[f[k]]] :
     f \in {f \in UNION {[1 .. n -> DOMAIN cache] : n \in 0 .. Len(cache)} :
             /\ \A j, k \in DOMAIN f : j < k => f[j] < f[k]
             /\ Range(f) = S}}

\* Variant: the newest access goes.
VictimNewest(c) ==
  CHOOSE i \in DOMAIN c : \A j \in DOMAIN c : c[j].accessed <= c[i].accessed

\* _evictLRU: the first of those with the oldest access.
Victim(c) ==
  CHOOSE i \in DOMAIN c :
    /\ \A j \in DOMAIN c : c[i].accessed <= c[j].accessed
    /\ \A j \in 1..(i - 1) : c[i].accessed < c[j].accessed

\* Variant: the cache is full one entry later.
RoomLate(c) == IF Len(c) > CacheSize THEN RemoveAt(c, Victim(c)) ELSE c

Room(c) == IF Len(c) >= CacheSize THEN RemoveAt(c, Victim(c)) ELSE c

\* Map.set keeps the place of a key that is there.
Put(c, entry) ==
  IF \E i \in DOMAIN c : c[i].key = entry.key
  THEN [i \in DOMAIN c |-> IF c[i].key = entry.key THEN entry ELSE c[i]]
  ELSE Append(c, entry)

SetCached(key, value) ==
  cache' = Put(Room(cache), [key |-> key, value |-> value,
                             timestamp |-> now, accessed |-> now])

Count(status) ==
  metric' = [metric EXCEPT !.requests = @ + 1,
                           !.successes = IF status = "error" THEN @ ELSE @ + 1,
                           !.errors = IF status = "error" THEN @ + 1 ELSE @]

-----------------------------------------------------------------------------
(* handle()                                                                *)

\* Variant: an expired entry is a hit.
HitExpired(r) ==
  /\ request[r].pc = "none"
  /\ \E key \in Keys : \E i \in Positions(key) :
       /\ cache' = [cache EXCEPT ![i].accessed = now]
       /\ request' = [request EXCEPT ![r] =
            [NotStarted EXCEPT !.pc = "cached", !.key = key, !.value = cache[i].value]]
  /\ Count("cache-hit")
  /\ UNCHANGED now

\* getCached finds an entry and it has not expired.
Hit(r) ==
  /\ request[r].pc = "none"
  /\ \E key \in Keys : \E i \in Positions(key) :
       /\ ~Expired(cache[i])
       /\ cache' = [cache EXCEPT ![i].accessed = now]
       /\ request' = [request EXCEPT ![r] =
            [NotStarted EXCEPT !.pc = "cached", !.key = key, !.value = cache[i].value]]
  /\ Count("cache-hit")
  /\ UNCHANGED now

\* It finds none or an expired one, which it deletes, or is not asked; the
\* handler is called.
Miss(r) ==
  /\ request[r].pc = "none"
  /\ \E key \in Keys, retries \in Retries, useCache, fallback \in BOOLEAN :
       /\ useCache => \A i \in Positions(key) : Expired(cache[i])
       /\ cache' \in Kept(IF useCache THEN DOMAIN cache \ Positions(key)
                         ELSE DOMAIN cache)
       /\ request' = [request EXCEPT ![r] =
            [NotStarted EXCEPT !.pc = "await", !.key = key, !.retries = retries,
                         !.fallback = fallback, !.calls = 1]]
  /\ UNCHANGED <<now, metric>>

\* The handler's promise is fulfilled; the value is the time of the answer.
Fulfilled(r) ==
  /\ request[r].pc = "await"
  /\ SetCached(request[r].key, now) \/ UNCHANGED cache  \* options.cacheable
  /\ request' = [request EXCEPT ![r].pc = "response", ![r].value = now]
  /\ Count("success")
  /\ UNCHANGED now

\* Variant: the error is counted when it is thrown.
RejectedCounted(r) ==
  /\ request[r].pc = "await" /\ request[r].calls < request[r].retries
  /\ request' = [request EXCEPT ![r].pc = "delay"]
  /\ Count("error")
  /\ UNCHANGED <<now, cache>>

\* It is rejected and calls are left.
Rejected(r) ==
  /\ request[r].pc = "await" /\ request[r].calls < request[r].retries
  /\ request' = [request EXCEPT ![r].pc = "delay"]
  /\ UNCHANGED <<now, cache, metric>>

Retry(r) ==
  /\ request[r].pc = "delay"
  /\ request' = [request EXCEPT ![r].pc = "await", ![r].calls = @ + 1]
  /\ UNCHANGED <<now, cache, metric>>

\* It is rejected for the last time.
Failed(r) ==
  /\ request[r].pc = "await" /\ request[r].calls >= request[r].retries
  /\ request' = [request EXCEPT
       ![r].pc = IF request[r].fallback THEN "fallback" ELSE "error"]
  /\ Count("error")
  /\ UNCHANGED <<now, cache>>

\* The interval that removes expired entries, and clearCache().
CleanupCache ==
  /\ \E i \in DOMAIN cache : Expired(cache[i])
  /\ cache' \in Kept({i \in DOMAIN cache : ~Expired(cache[i])})
  /\ UNCHANGED <<now, request, metric>>

ClearCache ==
  /\ cache # <<>> /\ cache' = <<>>
  /\ UNCHANGED <<now, request, metric>>

Tick == /\ now < MaxTime /\ now' = now + 1
        /\ UNCHANGED <<cache, request, metric>>

Proceed(r) == Fulfilled(r) \/ Rejected(r) \/ Retry(r) \/ Failed(r)

Next == \/ \E r \in Requests : Hit(r) \/ Miss(r) \/ Proceed(r)
        \/ CleanupCache \/ ClearCache \/ Tick

Spec == Init /\ [][Next]_vars

-----------------------------------------------------------------------------
\* However many requests are under way, the cache keeps to its size, holds a
\* key once, and no entry of it comes from the future.
CacheSound ==
  /\ Len(cache) <= CacheSize
  /\ \A i, j \in DOMAIN cache : cache[i].key = cache[j].key => i = j
  /\ \A i \in DOMAIN cache :
       cache[i].timestamp <= cache[i].accessed /\ cache[i].accessed <= now

\* What is served from the cache was answered at most TTL ago.
NothingStaleServed ==
  [][\A r \in Requests :
       request[r].pc = "none" /\ request'[r].pc = "cached" =>
         now - request'[r].value <= TTL]_vars

\* Every settled request is counted once, on the right side.
MetricsExact ==
  LET ending(S) == Cardinality({r \in Requests : request[r].pc \in S})
  IN /\ metric.successes = ending({"cached", "response"})
     /\ metric.errors = ending({"fallback", "error"})
     /\ metric.requests = metric.successes + metric.errors

\* An answer never pushes out an entry that was used after one that stays.
EvictsLeastRecent ==
  [][\A i, j \in DOMAIN cache :
       /\ \E r \in Requests : request[r].pc = "await" /\ request'[r].pc = "response"
       /\ \A k \in DOMAIN cache' : cache'[k].key # cache[i].key
       /\ cache[j] \in ToSet(cache')
       => cache[i].accessed <= cache[j].accessed]_vars
=============================================================================
