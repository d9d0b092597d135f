--------------------------- MODULE NetworkProofs ---------------------------
(***************************************************************************)
(* Proofs about what a server's datagrams need, for any number of callers, *)
(* questions, workers and targets.  The components are the instances of    *)
(* MCNetwork: Udp is UdpAssociation and Dns is DnsCache.                   *)
(***************************************************************************)
EXTENDS MCNetwork, Sequences, FiniteSetTheorems, SumTheorems, TLAPS

-----------------------------------------------------------------------------
(* The cache of the resolver                                               *)

DnsTypes ==
  /\ dnsNow \in Nat
  /\ cache \in [Keys -> [size : Nat, ttl : Nat, expires : Nat]]
  /\ cacheBytes \in Nat
  /\ inflight \in [Keys -> Callers \cup {Dns!Nobody}]
  /\ call \in [Callers -> [at : {"idle", "race", "end", "wait", "done"},
                           key : Keys \cup {Dns!Idle.key},
                           res : {"none", "cached", "flown", "failed", "ctx"},
                           since : Nat, until : Nat]]
  /\ due \in [Keys -> Nat]
  /\ \A c \in Callers : IF call[c].at = "idle" THEN call[c].res = "none"
                                               ELSE call[c].key \in Keys

\* The bytes of the cache are those of its entries, within both limits.
Summed ==
  /\ IsFiniteSet(Dns!Cached)
  /\ cacheBytes = SumFunctionOnSet([k \in Keys |-> cache[k].size], Dns!Cached)
  /\ cacheBytes <= MaxBytes /\ Cardinality(Dns!Cached) <= MaxEntries

\* A flight is led by one caller, who is under way, as long as nothing is cached.
Led ==
  /\ \A k \in Keys : inflight[k] # Dns!Nobody =>
       /\ call[inflight[k]].at \in {"race", "end"} /\ call[inflight[k]].key = k
       /\ cache[k] = Dns!NoEntry
  /\ \A c \in Callers :
       /\ call[c].at \in {"race", "end"} =>
            inflight[call[c].key] = c /\ call[c].since >= due[call[c].key]
       /\ call[c].at = "end" => call[c].res # "none"
       /\ call[c].at = "wait" /\ call[c].res = "none" =>
            inflight[call[c].key] # Dns!Nobody

\* An answer that is cached is due to the end of its lifetime, which began at some time in
\* the past, any other is not any more.
Due ==
  \A k \in Keys :
    /\ k \in Dns!Cached => due[k] = cache[k].expires
                           /\ cache[k].expires <= dnsNow + cache[k].ttl * Second
    /\ k \notin Dns!Cached => due[k] <= dnsNow

DnsInv == DnsTypes /\ Summed /\ Led /\ Due

\* Lifetimes are natural numbers of ticks.
LEMMA Lifetimes ==
  /\ Second \in Nat \ {0}
  /\ \A n \in Nat : n * Second \in Nat
<1>1. Second \in Nat \ {0}
  BY NetworkAssumption DEF Dns!DnsAssumption
<1>2. \A a, b \in Nat : a * b \in Nat
  OBVIOUS
<1> QED
  BY <1>1, <1>2

\* A lifetime less the whole seconds of a time is the rest of it, and less than a second more.
LEMMA WholeSeconds ==
  ASSUME NEW ttl \in Nat, NEW elapsed \in Nat
  PROVE  /\ (ttl - (elapsed \div Second)) * Second \in Int
         /\ ttl * Second - elapsed <= (ttl - (elapsed \div Second)) * Second
         /\ (ttl - (elapsed \div Second)) * Second < ttl * Second - elapsed + Second
<1> DEFINE whole == elapsed \div Second
<1>1. /\ whole \in Nat /\ Second * whole <= elapsed
      /\ elapsed < Second * whole + Second
  BY Lifetimes
<1>2. (ttl - whole) * Second = ttl * Second - Second * whole
  BY <1>1, Lifetimes
<1>3. ttl * Second \in Nat /\ Second * whole \in Nat /\ Second \in Nat
  BY <1>1, Lifetimes
<1> HIDE DEF whole
<1>4. /\ (ttl - whole) * Second \in Int
      /\ ttl * Second - elapsed <= (ttl - whole) * Second
      /\ (ttl - whole) * Second < ttl * Second - elapsed + Second
  BY <1>1, <1>2, <1>3
<1> QED
  BY <1>4 DEF whole

\* A hit tells a time at which the answer is not yet over for a second.
LEMMA HitTells ==
  ASSUME DnsTypes, Due, NEW c \in Callers, NEW k \in Keys, Dns!Hit(c, k)
  PROVE  \E until \in Nat :
           /\ call' = [call EXCEPT ![c] = [at |-> "done", key |-> k, res |-> "cached",
                                          since |-> dnsNow, until |-> until]]
           /\ due[k] <= until /\ until < due[k] + Second
<1> DEFINE lifetime == cache[k].ttl * Second
           elapsed  == dnsNow - (cache[k].expires - lifetime)
           rest     == (cache[k].ttl - (elapsed \div Second)) * Second
<1>1. /\ dnsNow \in Nat /\ cache[k].ttl \in Nat /\ cache[k].expires \in Nat
      /\ dnsNow < cache[k].expires /\ lifetime \in Nat /\ Second \in Nat
  BY Lifetimes DEF DnsTypes, Dns!Hit
<1>2. due[k] = cache[k].expires /\ cache[k].expires <= dnsNow + lifetime
  BY <1>1 DEF Due, Dns!Cached, Dns!NoEntry
<1>3. call' = [call EXCEPT ![c] = [at |-> "done", key |-> k, res |-> "cached",
                                   since |-> dnsNow, until |-> dnsNow + rest]]
  BY DEF Dns!Hit, Dns!End
<1>4. elapsed \in Nat
  <2> HIDE DEF lifetime
  <2> QED
    BY <1>1, <1>2
<1>5. rest \in Int /\ lifetime - elapsed <= rest /\ rest < lifetime - elapsed + Second
  <2> HIDE DEF elapsed
  <2> QED
    BY <1>1, <1>4, WholeSeconds
<1>6. lifetime - elapsed = cache[k].expires - dnsNow
  <2> HIDE DEF lifetime
  <2> QED
    BY <1>1
<1> HIDE DEF lifetime, elapsed, rest
<1>7. /\ dnsNow + rest \in Nat
      /\ due[k] <= dnsNow + rest /\ dnsNow + rest < due[k] + Second
  BY <1>1, <1>2, <1>5, <1>6
<1> QED
  BY <1>3, <1>7

\* The operators of the standard modules are the same inside the instance.
LEMMA DnsCardinality ==
  \A S : Dns!Cardinality(S) = Cardinality(S) /\ Dns!IsFiniteSet(S) = IsFiniteSet(S)
BY DEF Dns!Cardinality, Cardinality, Dns!IsFiniteSet, IsFiniteSet

LEMMA DnsSum ==
  \A f, S : Dns!SumFunctionOnSet(f, S) = SumFunctionOnSet(f, S)
BY DEF Dns!SumFunctionOnSet, Dns!FoldFunctionOnSet, Dns!MapThenFoldSet,
       SumFunctionOnSet, FoldFunctionOnSet, MapThenFoldSet

LEMMA DnsBytes ==
  \A S : Dns!BytesOf(cache, S) = SumFunctionOnSet([k \in Keys |-> cache[k].size], S)
BY DnsSum DEF Dns!BytesOf

Sizes == [k \in Keys |-> cache[k].size]

LEMMA DnsStart == Dns!Init => DnsInv
<1> SUFFICES ASSUME Dns!Init PROVE DnsInv
  OBVIOUS
<1>1. Dns!DnsAssumption
  BY NetworkAssumption
<1>2. Dns!Cached = {} /\ IsFiniteSet({}) /\ Cardinality({}) = 0
  BY FS_EmptySet DEF Dns!Init, Dns!Cached
<1>3. Summed
  <2>1. SumFunctionOnSet([k \in Keys |-> cache[k].size], {}) = 0
    BY SumEmpty
  <2> QED
    BY <1>1, <1>2, <2>1 DEF Summed, Dns!Init, Dns!DnsAssumption
<1>4. DnsTypes
  BY DEF Dns!Init, DnsTypes, Dns!NoEntry, Dns!Idle
<1>5. Led
  BY DEF Dns!Init, Led, Dns!Idle
<1>6. Due
  BY <1>2 DEF Dns!Init, Due
<1> QED
  BY <1>3, <1>4, <1>5, <1>6 DEF DnsInv

\* Calls that end, and races that go on, as long as the cache and the flights stay
LEMMA CallsGoOn ==
  ASSUME DnsInv, UNCHANGED <<dnsNow, cache, cacheBytes, inflight, due>>, DnsTypes',
         \A c \in Callers :
           \/ call'[c] = call[c]
           \/ /\ call[c].at \in {"race", "end"} /\ call'[c].at \in {"race", "end"}
              /\ call'[c].key = call[c].key /\ call'[c].since = call[c].since
              /\ call'[c].at = "end" => call'[c].res # "none"
           \/ call[c].at \in {"idle", "wait", "done"} /\ call'[c].at \in {"idle", "done"}
  PROVE  DnsInv'
<1>0. DnsTypes /\ Summed /\ Led /\ Due
  BY DEF DnsInv
<1>1. Dns!Cached' = Dns!Cached
  BY DEF Dns!Cached
<1>2. Summed' /\ Due'
  BY <1>0, <1>1 DEF Summed, Due
<1>3. Led'
  BY <1>0 DEF Led, DnsTypes, Dns!Nobody
<1> QED
  BY <1>2, <1>3 DEF DnsInv

LEMMA DnsWaits ==
  ASSUME DnsInv, NEW c \in Callers,
         \/ \E p \in Providers : Dns!ProviderReturns(c, p)
         \/ Dns!TakeResult(c) \/ Dns!RaceCancelled(c) \/ Dns!WaitEnds(c) \/ Dns!Return(c)
         \/ Dns!Cancel(c) \/ Dns!CloseCancels
  PROVE  DnsInv'
<1>0. DnsTypes
  BY DEF DnsInv
<1> DEFINE goesOn(d) == 
           \/ call'[d] = call[d]
           \/ /\ call[d].at \in {"race", "end"} /\ call'[d].at \in {"race", "end"}
              /\ call'[d].key = call[d].key /\ call'[d].since = call[d].since
              /\ call'[d].at = "end" => call'[d].res # "none"
           \/ call[d].at \in {"idle", "wait", "done"} /\ call'[d].at \in {"idle", "done"}
<1>1. UNCHANGED <<dnsNow, cache, cacheBytes, inflight, due>>
  BY DEF Dns!ProviderReturns, Dns!TakeResult, Dns!RaceCancelled, Dns!WaitEnds, Dns!Return,
         Dns!Cancel, Dns!CloseCancels, Dns!raceRest, Dns!waitRest
<1>2. CASE UNCHANGED call
  <2>1. DnsTypes'
    BY <1>0, <1>1, <1>2 DEF DnsTypes
  <2> QED
    BY <1>1, <1>2, <2>1, CallsGoOn
<1>3. ASSUME NEW res \in {"flown", "failed", "ctx"}, call[c].at = "race", Dns!RaceEnds(c, res)
      PROVE  DnsInv'
  <2>1. call' = [call EXCEPT ![c] = [@ EXCEPT !.at = "end", !.res = res]]
    BY <1>3 DEF Dns!RaceEnds
  <2>2. DnsTypes'
    BY <1>0, <1>1, <1>3, <2>1 DEF DnsTypes
  <2>3. \A d \in Callers : goesOn(d)
    BY <1>0, <1>3, <2>1 DEF DnsTypes
  <2> QED
    BY <1>1, <2>2, <2>3, CallsGoOn
<1>4. CASE (\E p \in Providers : Dns!ProviderReturns(c, p)) \/ Dns!TakeResult(c)
           \/ Dns!RaceCancelled(c)
  BY <1>2, <1>3, <1>4 DEF Dns!ProviderReturns, Dns!TakeResult, Dns!RaceCancelled
<1>5. CASE Dns!WaitEnds(c)
  <2>1. ASSUME NEW res \in {call[c].res, "ctx"}, NEW until \in {call[c].until, 0},
               call' = [call EXCEPT ![c] = [@ EXCEPT !.at = "done", !.res = res,
                                                     !.until = until]]
        PROVE  DnsInv'
    <3>1. call[c].at = "wait"
      BY <1>5 DEF Dns!WaitEnds
    <3>2. DnsTypes'
      <4>1. res \in {"none", "cached", "flown", "failed", "ctx"} /\ until \in Nat
        BY <1>0 DEF DnsTypes
      <4>2. call' \in [Callers -> [at : {"idle", "race", "end", "wait", "done"},
                           key : Keys \cup {Dns!Idle.key},
                           res : {"none", "cached", "flown", "failed", "ctx"},
                           since : Nat, until : Nat]]
        <5> DEFINE Call == [at : {"idle", "race", "end", "wait", "done"},
                            key : Keys \cup {Dns!Idle.key},
                            res : {"none", "cached", "flown", "failed", "ctx"},
                            since : Nat, until : Nat]
        <5>1. call[c] \in Call
          BY <1>0 DEF DnsTypes
        <5>2. [call[c] EXCEPT !.at = "done", !.res = res, !.until = until] \in Call
          BY <4>1, <5>1
        <5>3. call \in [Callers -> Call]
          BY <1>0 DEF DnsTypes
        <5> HIDE DEF Call
        <5>4. call' \in [Callers -> Call]
          BY <2>1, <5>2, <5>3
        <5> QED
          BY <5>4 DEF Call
      <4>3. \A d \in Callers : \/ call'[d] = call[d]
                               \/ call'[d].key = call[d].key /\ call[d].at # "idle"
                                  /\ call'[d].at # "idle"
        BY <1>0, <2>1, <3>1 DEF DnsTypes
      <4> QED
        BY <1>0, <1>1, <4>2, <4>3 DEF DnsTypes
    <3>3. \A d \in Callers : goesOn(d)
      BY <1>0, <2>1, <3>1 DEF DnsTypes
    <3> QED
      BY <1>1, <3>2, <3>3, CallsGoOn
  <2>2. [call[c] EXCEPT !.at = "done"] =
          [call[c] EXCEPT !.at = "done", !.res = call[c].res, !.until = call[c].until]
    BY <1>0 DEF DnsTypes
  <2>3. CASE call' = [call EXCEPT ![c] = [@ EXCEPT !.at = "done"]]
    BY <2>1, <2>2, <2>3
  <2>4. CASE call' = [call EXCEPT ![c] = [@ EXCEPT !.at = "done", !.res = "ctx", !.until = 0]]
    BY <2>1, <2>4
  <2> QED
    BY <1>5, <2>3, <2>4 DEF Dns!WaitEnds
<1>6. CASE Dns!Return(c)
  <2>1. DnsTypes'
    BY <1>0, <1>1, <1>6 DEF DnsTypes, Dns!Return, Dns!Idle
  <2>2. \A d \in Callers : goesOn(d)
    BY <1>0, <1>6 DEF DnsTypes, Dns!Return, Dns!Idle
  <2> QED
    BY <1>1, <2>1, <2>2, CallsGoOn
<1>7. CASE Dns!Cancel(c) \/ Dns!CloseCancels
  BY <1>2, <1>7 DEF Dns!Cancel, Dns!CloseCancels, Dns!callVars
<1> QED
  BY <1>4, <1>5, <1>6, <1>7

\* What is asked for in vain, and has expired, is not cached any more.
LEMMA Expired ==
  ASSUME DnsInv, NEW k \in Keys, dnsNow >= cache[k].expires, Dns!Expire(k),
         UNCHANGED <<dnsNow, due>>
  PROVE  /\ cache' \in [Keys -> [size : Nat, ttl : Nat, expires : Nat]]
         /\ cacheBytes' \in Nat
         /\ Summed' /\ Due'
         /\ \A j \in Keys : cache'[j] = IF j = k THEN Dns!NoEntry ELSE cache[j]
<1>0. DnsTypes /\ Summed /\ Due
  BY DEF DnsInv
<1>1. CASE k \notin Dns!Cached
  <2>1. UNCHANGED <<cache, cacheBytes>> /\ cache[k] = Dns!NoEntry
    BY <1>1 DEF Dns!Expire, Dns!Cached
  <2>2. Dns!Cached' = Dns!Cached
    BY <2>1 DEF Dns!Cached
  <2> QED
    BY <1>0, <2>1, <2>2 DEF DnsTypes, Summed, Due
<1>2. CASE k \in Dns!Cached
  <2>1. cache' = [cache EXCEPT ![k] = Dns!NoEntry] /\ cacheBytes' = cacheBytes - cache[k].size
    BY <1>2 DEF Dns!Expire
  <2>2. cache' \in [Keys -> [size : Nat, ttl : Nat, expires : Nat]]
    BY <1>0, <2>1 DEF DnsTypes, Dns!NoEntry
  <2>3. \A j \in Keys : cache'[j] = IF j = k THEN Dns!NoEntry ELSE cache[j]
    BY <1>0, <2>1 DEF DnsTypes
  <2>4. Dns!Cached' = Dns!Cached \ {k}
    BY <2>3 DEF Dns!Cached
  <2> DEFINE S == Dns!Cached
  <2>5. \A j \in S : Sizes[j] \in Nat
    BY <1>0 DEF DnsTypes, Sizes, Dns!Cached
  <2>6. /\ IsFiniteSet(S) /\ IsFiniteSet(S \ {k}) /\ Cardinality(S) \in Nat
        /\ Cardinality(S \ {k}) = Cardinality(S) - 1
    BY <1>0, <1>2, FS_RemoveElement, FS_CardinalityType DEF Summed
  <2>7. SumFunctionOnSet(Sizes, S) = Sizes[k] + SumFunctionOnSet(Sizes, S \ {k})
    BY <1>2, <2>5, <2>6, SumRemove
  <2>8. SumFunctionOnSet(Sizes, S \ {k}) \in Nat
    BY <2>5, <2>6, SumIsNat
  <2>9. SumFunctionOnSet(Sizes', S \ {k}) = SumFunctionOnSet(Sizes, S \ {k})
    <3>1. \A j \in S \ {k} : Sizes'[j] = Sizes[j]
      BY <2>3 DEF Sizes, Dns!Cached
    <3> QED
      BY <2>6, <3>1, SumAgrees
  <2>10. cacheBytes = SumFunctionOnSet(Sizes, S) /\ Sizes[k] = cache[k].size /\ Sizes[k] \in Nat
    BY <1>0, <2>5, <1>2 DEF Summed, Sizes
  <2>11. cacheBytes' = SumFunctionOnSet(Sizes', S \ {k}) /\ cacheBytes' \in Nat
         /\ cacheBytes' <= cacheBytes
    BY <2>1, <2>7, <2>8, <2>9, <2>10
  <2>12. MaxBytes \in Nat /\ MaxEntries \in Nat
    BY NetworkAssumption DEF Dns!DnsAssumption
  <2>13. Summed'
    <3>1. cacheBytes \in Nat /\ cacheBytes <= MaxBytes /\ Cardinality(S) <= MaxEntries
      BY <1>0 DEF DnsTypes, Summed
    <3>2. cacheBytes' <= MaxBytes /\ Cardinality(S \ {k}) <= MaxEntries
      BY <2>6, <2>11, <2>12, <3>1
    <3>3. IsFiniteSet(S \ {k})
      BY <2>6
    <3>4. cacheBytes' = SumFunctionOnSet([j \in Keys |-> cache'[j].size], S \ {k})
      BY <2>11 DEF Sizes
    <3> QED
      BY <2>4, <3>2, <3>3, <3>4 DEF Summed
  <2>14. Due'
    BY <1>0, <1>2, <2>3, <2>4 DEF Due, DnsTypes
  <2> QED
    BY <2>2, <2>3, <2>11, <2>13, <2>14
<1> QED
  BY <1>1, <1>2

LEMMA DnsAsks ==
  ASSUME DnsInv, NEW c \in Callers, NEW k \in Keys, Dns!Ask(c, k)
  PROVE  DnsInv'
<1>0. DnsTypes /\ Led
  BY DEF DnsInv
<1>1. call[c].at = "idle"
  BY DEF Dns!Ask
<1>2. CASE Dns!Hit(c, k)
  <2>1. PICK until \in Nat : call' = [call EXCEPT ![c] =
                  [at |-> "done", key |-> k, res |-> "cached", since |-> dnsNow,
                   until |-> until]]
    BY <1>0, <1>2, HitTells DEF DnsInv
  <2>2. UNCHANGED <<dnsNow, cache, cacheBytes, inflight, due>>
    BY <1>2 DEF Dns!Hit, Dns!askRest
  <2>3. DnsTypes'
    BY <1>0, <2>1, <2>2 DEF DnsTypes
  <2>4. \A d \in Callers : call'[d] = call[d] \/ (call[d].at = "idle" /\ call'[d].at = "done")
    BY <1>0, <1>1, <2>1 DEF DnsTypes
  <2> QED
    BY <2>2, <2>3, <2>4, CallsGoOn
<1>3. CASE Dns!Join(c, k) \/ Dns!Lead(c, k)
  <2>1. /\ UNCHANGED <<dnsNow, due>> /\ dnsNow >= cache[k].expires /\ Dns!Expire(k)
    BY <1>3 DEF Dns!Join, Dns!Lead, Dns!askRest
  <2>2. /\ cache' \in [Keys -> [size : Nat, ttl : Nat, expires : Nat]]
        /\ cacheBytes' \in Nat
        /\ Summed' /\ Due'
        /\ \A j \in Keys : cache'[j] = IF j = k THEN Dns!NoEntry ELSE cache[j]
    BY <2>1, Expired
  <2>3. PICK at \in {"race", "wait"} :
          call' = [call EXCEPT ![c] = [at |-> at, key |-> k, res |-> "none",
                                       since |-> dnsNow, until |-> 0]]
    BY <1>3 DEF Dns!Join, Dns!Lead
  <2>4. inflight' \in [Keys -> Callers \cup {Dns!Nobody}]
    BY <1>0, <1>3 DEF DnsTypes, Dns!Join, Dns!Lead
  <2>5. DnsTypes'
    BY <1>0, <2>1, <2>2, <2>3, <2>4 DEF DnsTypes
  <2>6. /\ call'[c].at = at /\ call'[c].key = k /\ call'[c].since = dnsNow
        /\ call'[c].res = "none"
        /\ \A d \in Callers : d # c => call'[d] = call[d]
    BY <1>0, <2>3 DEF DnsTypes
  <2>7. due[k] <= dnsNow /\ due[k] \in Nat /\ dnsNow \in Nat
    BY <1>0, <2>1 DEF DnsInv, Due, DnsTypes
  <2> USE NetworkAssumption DEF Dns!NobodyAssumption
  <2>8. CASE Dns!Join(c, k)
    <3>1. inflight' = inflight /\ inflight[k] # Dns!Nobody /\ at = "wait"
      BY <1>0, <2>3, <2>8 DEF Dns!Join, DnsTypes
    <3>2. \A j \in Keys : inflight'[j] # Dns!Nobody =>
            /\ call'[inflight'[j]].at \in {"race", "end"} /\ call'[inflight'[j]].key = j
            /\ cache'[j] = Dns!NoEntry
      BY <1>0, <1>1, <2>2, <2>6, <3>1 DEF Led, DnsTypes
    <3>3. \A d \in Callers :
            /\ call'[d].at \in {"race", "end"} =>
                 inflight'[call'[d].key] = d /\ call'[d].since >= due[call'[d].key]
            /\ call'[d].at = "end" => call'[d].res # "none"
            /\ call'[d].at = "wait" /\ call'[d].res = "none" =>
                 inflight'[call'[d].key] # Dns!Nobody
      BY <1>0, <2>6, <3>1 DEF Led, DnsTypes
    <3>4. Led'
      BY <2>1, <3>2, <3>3 DEF Led, Dns!Nobody, Dns!NoEntry
    <3> QED
      BY <2>2, <2>5, <3>4 DEF DnsInv
  <2>9. CASE Dns!Lead(c, k)
    <3>1. /\ inflight' = [inflight EXCEPT ![k] = c] /\ inflight[k] = Dns!Nobody /\ at = "race"
      BY <1>0, <2>3, <2>9 DEF Dns!Lead, DnsTypes
    <3>2. \A j \in Keys : inflight'[j] = IF j = k THEN c ELSE inflight[j]
      BY <1>0, <3>1 DEF DnsTypes
    <3>3. c # Dns!Nobody
      BY NetworkAssumption DEF Dns!NobodyAssumption
    <3>4. \A j \in Keys : inflight'[j] # Dns!Nobody =>
            /\ call'[inflight'[j]].at \in {"race", "end"} /\ call'[inflight'[j]].key = j
            /\ cache'[j] = Dns!NoEntry
      BY <1>0, <1>1, <2>2, <2>6, <3>1, <3>2 DEF Led, DnsTypes
    <3>5. \A d \in Callers :
            /\ call'[d].at \in {"race", "end"} =>
                 inflight'[call'[d].key] = d /\ call'[d].since >= due[call'[d].key]
            /\ call'[d].at = "end" => call'[d].res # "none"
            /\ call'[d].at = "wait" /\ call'[d].res = "none" =>
                 inflight'[call'[d].key] # Dns!Nobody
      BY <1>0, <1>1, <2>6, <2>7, <3>1, <3>2, <3>3 DEF Led, DnsTypes
    <3>6. Led'
      BY <2>1, <3>4, <3>5 DEF Led, Dns!Nobody, Dns!NoEntry
    <3> QED
      BY <2>2, <2>5, <3>6 DEF DnsInv
  <2> QED
    BY <1>3, <2>8, <2>9
<1> QED
  BY <1>2, <1>3 DEF Dns!Ask

\* An answer is stored under the limits, whatever had to leave for it.
LEMMA Stored ==
  ASSUME DnsInv, NEW k \in Keys, cache[k] = Dns!NoEntry,
         NEW ttl \in 0..MaxTTL, NEW size \in 1..MaxSize, Dns!Store(k, ttl, size),
         dnsNow' = dnsNow
  PROVE  /\ cache' \in [Keys -> [size : Nat, ttl : Nat, expires : Nat]]
         /\ cacheBytes' \in Nat /\ due' \in [Keys -> Nat]
         /\ Summed' /\ Due'
         /\ \A j \in Keys : j # k =>
              due'[j] <= due[j] /\ (cache[j] = Dns!NoEntry => cache'[j] = Dns!NoEntry)
<1>0. /\ DnsTypes /\ Summed /\ Due
      /\ MaxBytes \in Nat /\ MaxEntries \in Nat /\ MaxTTL \in Nat /\ MaxSize \in Nat
  BY NetworkAssumption DEF DnsInv, Dns!DnsAssumption
<1>1. ttl \in Nat /\ size \in Nat /\ size # 0
  BY <1>0
<1>2. k \notin Dns!Cached
  BY DEF Dns!Cached
<1> DEFINE live == {j \in Dns!Cached : dnsNow < cache[j].expires}
<1>3. CASE UNCHANGED <<cache, cacheBytes>> /\ due' = [due EXCEPT ![k] = 0]
  <2>1. Dns!Cached' = Dns!Cached
    BY <1>3 DEF Dns!Cached
  <2> QED
    BY <1>0, <1>2, <1>3, <2>1 DEF DnsTypes, Summed, Due
<1>4. CASE \E V \in Dns!Evictions(live, size) :
         /\ cache' = [j \in Keys |->
              IF j = k THEN [size |-> size, ttl |-> ttl, expires |-> Dns!End(ttl)]
              ELSE IF j \in live \ V THEN cache[j] ELSE Dns!NoEntry]
         /\ cacheBytes' = cacheBytes - Dns!BytesOf(cache, Dns!Cached \ (live \ V)) + size
         /\ due' = [j \in Keys |-> IF j = k THEN Dns!End(ttl)
                                   ELSE IF j \in V THEN 0 ELSE due[j]]
  <2>1. PICK V \in Dns!Evictions(live, size) :
         /\ cache' = [j \in Keys |->
              IF j = k THEN [size |-> size, ttl |-> ttl, expires |-> Dns!End(ttl)]
              ELSE IF j \in live \ V THEN cache[j] ELSE Dns!NoEntry]
         /\ cacheBytes' = cacheBytes - Dns!BytesOf(cache, Dns!Cached \ (live \ V)) + size
         /\ due' = [j \in Keys |-> IF j = k THEN Dns!End(ttl)
                                   ELSE IF j \in V THEN 0 ELSE due[j]]
    BY <1>4
  <2> DEFINE kept == live \ V
             S == Dns!Cached
  <2>2. /\ V \subseteq live /\ Dns!Cardinality(kept) < MaxEntries
        /\ Dns!BytesOf(cache, kept) + size <= MaxBytes
    BY DEF Dns!Evictions
  <2>3. kept \subseteq S /\ k \notin kept /\ S \subseteq Keys
    BY <1>2 DEF Dns!Cached
  <2>4. cache' \in [Keys -> [size : Nat, ttl : Nat, expires : Nat]] /\ due' \in [Keys -> Nat]
    <3>1. Dns!End(ttl) \in Nat
      <4>1. ttl * Second \in Nat /\ dnsNow \in Nat
        BY <1>0, <1>1, Lifetimes DEF DnsTypes
      <4> QED
        BY <4>1 DEF Dns!End
    <3>2. \A j \in Keys : cache'[j] \in [size : Nat, ttl : Nat, expires : Nat]
      BY <1>0, <1>1, <2>1, <3>1 DEF DnsTypes, Dns!NoEntry
    <3>3. \A j \in Keys : due'[j] \in Nat
      BY <1>0, <2>1, <3>1 DEF DnsTypes
    <3> QED
      BY <2>1, <3>2, <3>3
  <2>5. Dns!Cached' = kept \cup {k}
    <3>1. [size |-> size, ttl |-> ttl, expires |-> Dns!End(ttl)] # Dns!NoEntry
      BY <1>1 DEF Dns!NoEntry
    <3>2. \A j \in Keys : cache'[j] # Dns!NoEntry <=> j \in kept \cup {k}
      BY <2>1, <2>3, <3>1 DEF Dns!Cached
    <3> QED
      BY <2>3, <3>2 DEF Dns!Cached, Dns!NoEntry
  <2>6. \A j \in S : Sizes[j] \in Nat
    BY <1>0 DEF DnsTypes, Sizes, Dns!Cached
  <2>7. /\ IsFiniteSet(S) /\ IsFiniteSet(kept) /\ IsFiniteSet(S \ kept)
        /\ IsFiniteSet(kept \cup {k})
        /\ Cardinality(kept) \in Nat /\ Cardinality(kept \cup {k}) = Cardinality(kept) + 1
    BY <1>0, <2>3, FS_Subset, FS_AddElement, FS_CardinalityType DEF Summed
  <2>8. SumFunctionOnSet(Sizes, S) =
          SumFunctionOnSet(Sizes, kept) + SumFunctionOnSet(Sizes, S \ kept)
    BY <2>3, <2>6, <2>7, SumSplit
  <2>9. SumFunctionOnSet(Sizes, kept) \in Nat /\ SumFunctionOnSet(Sizes, S \ kept) \in Nat
    BY <2>3, <2>6, <2>7, SumIsNat
  <2>10. SumFunctionOnSet(Sizes', kept \cup {k}) = size + SumFunctionOnSet(Sizes, kept)
    <3>1. \A j \in kept : Sizes'[j] = Sizes[j] /\ Sizes'[j] \in Nat
      BY <2>1, <2>3, <2>6 DEF Sizes
    <3>2. Sizes'[k] = size
      BY <2>1 DEF Sizes
    <3>3. SumFunctionOnSet(Sizes', kept) = SumFunctionOnSet(Sizes, kept)
      BY <2>7, <3>1, SumAgrees
    <3> HIDE DEF kept
    <3>4. SumFunctionOnSet(Sizes', kept \cup {k}) = Sizes'[k] + SumFunctionOnSet(Sizes', kept)
      BY <1>1, <2>3, <2>7, <3>1, <3>2, SumAdd
    <3> QED
      BY <3>2, <3>3, <3>4
  <2>11. /\ cacheBytes = SumFunctionOnSet(Sizes, S)
         /\ cacheBytes' = cacheBytes - SumFunctionOnSet(Sizes, S \ kept) + size
         /\ SumFunctionOnSet(Sizes, kept) + size <= MaxBytes
    BY <1>0, <2>1, <2>2, DnsBytes DEF Summed, Sizes
  <2>12. /\ cacheBytes' = SumFunctionOnSet(Sizes', kept \cup {k})
         /\ cacheBytes' \in Nat /\ cacheBytes' <= MaxBytes
    BY <1>0, <1>1, <2>8, <2>9, <2>10, <2>11
  <2>13. Cardinality(kept \cup {k}) <= MaxEntries
    BY <1>0, <2>2, <2>7, DnsCardinality
  <2>14. Summed'
    <3>1. cacheBytes' = SumFunctionOnSet([j \in Keys |-> cache'[j].size], kept \cup {k})
      BY <2>12 DEF Sizes
    <3> QED
      BY <2>5, <2>7, <2>12, <2>13, <3>1 DEF Summed
  <2>15. \A j \in Keys : j # k =>
           due'[j] <= due[j] /\ (cache[j] = Dns!NoEntry => cache'[j] = Dns!NoEntry)
    BY <1>0, <2>1, <2>3 DEF DnsTypes, Dns!Cached
  <2>16. Due'
    <3>1. /\ cache'[k].expires = Dns!End(ttl) /\ due'[k] = Dns!End(ttl) /\ cache'[k].ttl = ttl
          /\ Dns!End(ttl) <= dnsNow + ttl * Second
      BY <1>0, <1>1, <2>1, Lifetimes DEF Dns!End, DnsTypes
    <3>2. ASSUME NEW j \in kept
          PROVE  /\ due'[j] = cache'[j].expires
                 /\ cache'[j].expires <= dnsNow + cache'[j].ttl * Second
      <4>1. cache'[j] = cache[j] /\ due'[j] = due[j]
        BY <2>1, <2>3, <3>2
      <4> QED
        BY <1>0, <2>3, <3>2, <4>1 DEF Due
    <3>3. ASSUME NEW j \in Keys, j \notin kept \cup {k} PROVE due'[j] <= dnsNow
      <4>1. CASE j \in V
        BY <1>0, <2>1, <3>3, <4>1 DEF DnsTypes
      <4>2. CASE j \notin V /\ j \in S
        <5>1. due'[j] = due[j] /\ due[j] = cache[j].expires /\ ~(dnsNow < cache[j].expires)
          BY <1>0, <2>1, <3>3, <4>2 DEF Due
        <5> QED
          BY <1>0, <3>3, <5>1 DEF DnsTypes
      <4>3. CASE j \notin V /\ j \notin S
        BY <1>0, <2>1, <3>3, <4>3 DEF Due
      <4> QED
        BY <4>1, <4>2, <4>3
    <3> QED
      BY <2>3, <2>5, <3>1, <3>2, <3>3 DEF Due
  <2> QED
    BY <2>4, <2>12, <2>14, <2>15, <2>16
<1> QED
  BY <1>3, <1>4 DEF Dns!Store

\* The end of a flight tells its followers, and nobody else leads or follows it.
LEMMA FlightOver ==
  ASSUME DnsInv, NEW c \in Callers, call[c].at = "end", NEW ttl \in Nat, Dns!Result(c, ttl),
         inflight' = [inflight EXCEPT ![call[c].key] = Dns!Nobody],
         dnsNow' = dnsNow,
         \A j \in Keys : j # call[c].key =>
              due'[j] <= due[j] /\ (cache[j] = Dns!NoEntry => cache'[j] = Dns!NoEntry),
         due' \in [Keys -> Nat]
  PROVE  /\ inflight' \in [Keys -> Callers \cup {Dns!Nobody}]
         /\ call' \in [Callers -> [at : {"idle", "race", "end", "wait", "done"},
                           key : Keys \cup {Dns!Idle.key},
                           res : {"none", "cached", "flown", "failed", "ctx"},
                           since : Nat, until : Nat]]
         /\ \A d \in Callers : IF call'[d].at = "idle" THEN call'[d].res = "none"
                                                       ELSE call'[d].key \in Keys
         /\ Led'
<1>0. DnsTypes /\ Led
  BY DEF DnsInv
<1> DEFINE k == call[c].key
           Call == [at : {"idle", "race", "end", "wait", "done"},
                    key : Keys \cup {Dns!Idle.key},
                    res : {"none", "cached", "flown", "failed", "ctx"},
                    since : Nat, until : Nat]
<1>1. k \in Keys /\ inflight[k] = c /\ call[c].res # "none" /\ Dns!Nobody \notin Callers
      /\ Dns!End(ttl) \in Nat
  BY <1>0, NetworkAssumption, Lifetimes DEF DnsTypes, Led, Dns!NobodyAssumption, Dns!End
<1>2. \A j \in Keys : inflight'[j] = IF j = k THEN Dns!Nobody ELSE inflight[j]
  BY <1>0 DEF DnsTypes
<1>3. \A d \in Callers : call[d] \in Call
  BY <1>0 DEF DnsTypes
<1>4. /\ call' = [d \in Callers |-> call'[d]]
      /\ call'[c] = [call[c] EXCEPT !.at = "done", !.until = Dns!End(ttl)]
      /\ \A d \in Dns!Followers(c) \ {c} :
           call'[d] = [call[d] EXCEPT !.res = call[c].res, !.until = Dns!End(ttl)]
      /\ \A d \in Callers \ Dns!Followers(c) : d # c => call'[d] = call[d]
  BY DEF Dns!Result, Dns!Followers
<1>5. c \notin Dns!Followers(c) /\ Dns!Followers(c) \subseteq Callers
  BY DEF Dns!Followers
<1>6. /\ call'[c] \in Call /\ call'[c].at = "done" /\ call'[c].key = k
  BY <1>1, <1>3, <1>4
<1>7. ASSUME NEW d \in Dns!Followers(c)
      PROVE  /\ call'[d] \in Call /\ call'[d].at = call[d].at /\ call'[d].key = call[d].key
             /\ call'[d].res # "none" /\ call[d].at = "wait"
  <2>1. call'[d] = [call[d] EXCEPT !.res = call[c].res, !.until = Dns!End(ttl)]
    BY <1>4, <1>5
  <2>2. call[d] \in Call /\ call[d].at = "wait"
    BY <1>3 DEF Dns!Followers
  <2>3. call[c].res \in {"none", "cached", "flown", "failed", "ctx"}
    BY <1>3
  <2> QED
    BY <1>1, <2>1, <2>2, <2>3
<1>8. call' \in [Callers -> Call]
  <2>1. \A d \in Callers : call'[d] \in Call
    BY ZenonT(60), <1>3, <1>4, <1>6, <1>7
  <2> HIDE DEF Call
  <2> QED
    BY <1>4, <2>1
<1>9. \A d \in Callers : IF call'[d].at = "idle" THEN call'[d].res = "none"
                                                 ELSE call'[d].key \in Keys
  <2> TAKE d \in Callers
  <2>1. CASE d = c
    BY <1>1, <1>6, <2>1
  <2>2. CASE d \in Dns!Followers(c)
    <3>1. call[d].key \in Keys
      BY <1>0, <1>5, <1>7, <2>2 DEF DnsTypes
    <3> QED
      BY <1>7, <2>2, <3>1
  <2>3. CASE d # c /\ d \notin Dns!Followers(c)
    <3>1. call'[d] = call[d]
      BY <1>4, <2>3
    <3> QED
      BY <1>0, <3>1 DEF DnsTypes
  <2> QED
    BY <2>1, <2>2, <2>3
<1>10. \A j \in Keys : inflight'[j] # Dns!Nobody =>
         /\ call'[inflight'[j]].at \in {"race", "end"} /\ call'[inflight'[j]].key = j
         /\ cache'[j] = Dns!NoEntry
  <2> SUFFICES ASSUME NEW j \in Keys, inflight'[j] # Dns!Nobody
               PROVE  /\ call'[inflight'[j]].at \in {"race", "end"}
                      /\ call'[inflight'[j]].key = j /\ cache'[j] = Dns!NoEntry
    OBVIOUS
  <2>1. j # k /\ inflight'[j] = inflight[j] /\ inflight[j] \in Callers
    BY <1>0, <1>2 DEF DnsTypes
  <2>2. /\ call[inflight[j]].at \in {"race", "end"} /\ call[inflight[j]].key = j
        /\ cache[j] = Dns!NoEntry
    BY <1>0, <2>1 DEF Led
  <2>3. inflight[j] # c /\ inflight[j] \notin Dns!Followers(c)
    BY <2>1, <2>2 DEF Dns!Followers
  <2> QED
    BY ZenonT(60), <1>4, <2>1, <2>2, <2>3
<1>11. ASSUME NEW d \in Callers
       PROVE  /\ call'[d].at \in {"race", "end"} =>
                   inflight'[call'[d].key] = d /\ call'[d].since >= due'[call'[d].key]
              /\ call'[d].at = "end" => call'[d].res # "none"
              /\ call'[d].at = "wait" /\ call'[d].res = "none" =>
                   inflight'[call'[d].key] # Dns!Nobody
  <2>1. CASE d = c \/ d \in Dns!Followers(c)
    BY <1>6, <1>7, <2>1
  <2>2. CASE d # c /\ d \notin Dns!Followers(c)
    <3>1. call'[d] = call[d] /\ call[d].since \in Nat
      BY <1>3, <1>4, <2>2
    <3>2. CASE call[d].at \in {"race", "end"}
      <4>1. /\ call[d].key \in Keys /\ inflight[call[d].key] = d
            /\ call[d].since >= due[call[d].key]
        BY <1>0, <3>2 DEF DnsTypes, Led
      <4>2. call[d].key # k
        BY <1>1, <2>2, <4>1
      <4>3. due'[call[d].key] <= due[call[d].key] /\ due'[call[d].key] \in Nat
            /\ due[call[d].key] \in Nat
        BY <1>0, <4>1, <4>2 DEF DnsTypes
      <4> QED
        BY <1>0, <1>2, <3>1, <3>2, <4>1, <4>2, <4>3 DEF Led
    <3>3. CASE call[d].at \notin {"race", "end"}
      <4>1. ASSUME call[d].at = "wait", call[d].res = "none"
            PROVE  inflight'[call[d].key] # Dns!Nobody
        <5>1. call[d].key \in Keys /\ call[d].key # k
          BY <1>0, <2>2, <4>1 DEF DnsTypes, Dns!Followers
        <5> QED
          BY <1>0, <1>2, <4>1, <5>1 DEF Led
      <4> QED
        BY <3>1, <3>3, <4>1
    <3> QED
      BY <3>2, <3>3
  <2> QED
    BY <2>1, <2>2
<1>12. Led'
  BY <1>10, <1>11 DEF Led, Dns!Nobody, Dns!NoEntry
<1>13. inflight' \in [Keys -> Callers \cup {Dns!Nobody}]
  BY <1>0 DEF DnsTypes
<1> QED
  BY <1>8, <1>9, <1>12, <1>13

LEMMA DnsFlightEnds ==
  ASSUME DnsInv, NEW c \in Callers, Dns!FlightFails(c) \/ Dns!FlightLands(c)
  PROVE  DnsInv'
<1>0. /\ DnsTypes /\ Summed /\ Led /\ Due /\ call[c].at = "end"
      /\ MaxTTL \in Nat
  BY NetworkAssumption DEF DnsInv, Dns!FlightFails, Dns!FlightLands, Dns!DnsAssumption
<1>1. /\ call[c].key \in Keys /\ cache[call[c].key] = Dns!NoEntry
  <2>1. call[c].key \in Keys /\ inflight[call[c].key] = c /\ c # Dns!Nobody
    BY <1>0, NetworkAssumption DEF DnsTypes, Led, Dns!NobodyAssumption
  <2> QED
    BY <1>0, <2>1 DEF Led
<1>2. CASE Dns!FlightFails(c)
  <2>1. /\ UNCHANGED <<dnsNow, cache, cacheBytes, due>> /\ Dns!Result(c, 0)
        /\ inflight' = [inflight EXCEPT ![call[c].key] = Dns!Nobody]
    BY <1>2 DEF Dns!FlightFails, Dns!endRest
  <2>2. Dns!Cached' = Dns!Cached
    BY <2>1 DEF Dns!Cached
  <2>3. Summed' /\ Due'
    BY <1>0, <2>1, <2>2 DEF Summed, Due
  <2>4. due' \in [Keys -> Nat] /\ \A j \in Keys : due'[j] <= due[j]
    BY <1>0, <2>1 DEF DnsTypes
  <2>5. DnsTypes' /\ Led'
    BY <1>0, <2>1, <2>4, FlightOver DEF DnsTypes
  <2> QED
    BY <2>3, <2>5 DEF DnsInv
<1>3. CASE Dns!FlightLands(c)
  <2>1. PICK ttl \in 0..MaxTTL, size \in 1..MaxSize :
          Dns!Store(call[c].key, ttl, size) /\ Dns!Result(c, ttl)
    BY <1>3 DEF Dns!FlightLands
  <2>2. dnsNow' = dnsNow /\ inflight' = [inflight EXCEPT ![call[c].key] = Dns!Nobody]
    BY <1>3 DEF Dns!FlightLands, Dns!endRest
  <2>3. /\ cache' \in [Keys -> [size : Nat, ttl : Nat, expires : Nat]]
        /\ cacheBytes' \in Nat /\ due' \in [Keys -> Nat]
        /\ Summed' /\ Due'
        /\ \A j \in Keys : j # call[c].key =>
             due'[j] <= due[j] /\ (cache[j] = Dns!NoEntry => cache'[j] = Dns!NoEntry)
    BY <1>1, <2>1, <2>2, Stored
  <2>4. ttl \in Nat
    BY <1>0
  <2>5. DnsTypes' /\ Led'
    BY <1>0, <2>1, <2>2, <2>3, <2>4, FlightOver DEF DnsTypes
  <2> QED
    BY <2>3, <2>5 DEF DnsInv
<1> QED
  BY <1>2, <1>3

LEMMA DnsCloses ==
  ASSUME DnsInv, Dns!CloseClears \/ Dns!Tick PROVE DnsInv'
<1>0. DnsTypes /\ Summed /\ Led /\ Due
  BY DEF DnsInv
<1>1. CASE Dns!CloseClears
  <2>1. /\ cache' = [k \in Keys |-> Dns!NoEntry] /\ cacheBytes' = 0
        /\ due' = [k \in Keys |-> 0] /\ UNCHANGED <<dnsNow, inflight, call>>
    BY <1>1 DEF Dns!CloseClears, Dns!callVars
  <2>2. Dns!Cached' = {}
    BY <2>1 DEF Dns!Cached, Dns!NoEntry
  <2>3. IsFiniteSet({}) /\ Cardinality({}) = 0 /\ MaxBytes \in Nat /\ MaxEntries \in Nat
    BY FS_EmptySet, NetworkAssumption DEF Dns!DnsAssumption
  <2>4. SumFunctionOnSet([k \in Keys |-> cache'[k].size], {}) = 0
    BY SumEmpty
  <2>5. Summed'
    BY <2>1, <2>2, <2>3, <2>4 DEF Summed
  <2>6. DnsTypes'
    BY <1>0, <2>1 DEF DnsTypes, Dns!NoEntry
  <2>7. Due'
    BY <1>0, <2>1, <2>2 DEF Due, DnsTypes
  <2>8. Led'
    <3>1. \A k \in Keys : cache'[k] = Dns!NoEntry /\ due'[k] = 0
      BY <2>1
    <3> QED
      BY <1>0, <2>1, <3>1 DEF Led, DnsTypes, Dns!Nobody, Dns!NoEntry
  <2> QED
    BY <2>5, <2>6, <2>7, <2>8 DEF DnsInv
<1>2. CASE Dns!Tick
  <2>1. dnsNow' = dnsNow + 1 /\ UNCHANGED <<cache, cacheBytes, inflight, call, due>>
    BY <1>2 DEF Dns!Tick, Dns!callVars
  <2>2. Dns!Cached' = Dns!Cached
    BY <2>1 DEF Dns!Cached
  <2>3. Due'
    <3>1. \A k \in Keys : /\ cache[k].ttl * Second \in Nat
                          /\ cache[k].expires \in Nat /\ dnsNow \in Nat /\ due[k] \in Nat
      BY <1>0, Lifetimes DEF DnsTypes
    <3> QED
      BY <1>0, <2>1, <2>2, <3>1 DEF Due
  <2> QED
    BY <1>0, <2>1, <2>2, <2>3 DEF DnsInv, DnsTypes, Summed, Led, Dns!Nobody, Dns!NoEntry
<1> QED
  BY <1>1, <1>2

LEMMA DnsStep == DnsInv /\ [Dns!Next]_dnsVars => DnsInv'
<1> SUFFICES ASSUME DnsInv, [Dns!Next]_dnsVars PROVE DnsInv'
  OBVIOUS
<1>1. CASE UNCHANGED dnsVars
  <2>1. UNCHANGED <<dnsNow, cache, cacheBytes, inflight, call, due>>
    BY <1>1 DEF dnsVars
  <2>2. DnsTypes'
    BY <2>1 DEF DnsInv, DnsTypes
  <2> QED
    BY <2>1, <2>2, CallsGoOn
<1>2. ASSUME NEW c \in Callers,
             \/ \E k \in Keys : Dns!Ask(c, k)
             \/ Dns!Lookup(c) \/ Dns!WaitEnds(c) \/ Dns!Return(c) \/ Dns!Cancel(c)
      PROVE  DnsInv'
  BY <1>2, DnsAsks, DnsWaits, DnsFlightEnds DEF Dns!Lookup
<1>3. CASE Dns!CloseClears \/ Dns!Tick
  BY <1>3, DnsCloses
<1>4. CASE Dns!CloseCancels
  <2>1. UNCHANGED <<dnsNow, cache, cacheBytes, inflight, call, due>>
    BY <1>4 DEF Dns!CloseCancels, Dns!callVars
  <2>2. DnsTypes'
    BY <2>1 DEF DnsInv, DnsTypes
  <2> QED
    BY <2>1, <2>2, CallsGoOn
<1> QED
  BY <1>1, <1>2, <1>3, <1>4 DEF Dns!Next

LEMMA DnsSound == DnsInv => Dns!BytesExact /\ Dns!OneRace /\ Dns!FollowersLed
<1> SUFFICES ASSUME DnsInv PROVE Dns!BytesExact /\ Dns!OneRace /\ Dns!FollowersLed
  OBVIOUS
<1>0. DnsTypes /\ Summed /\ Led
  BY DEF DnsInv
<1>1. Dns!BytesExact
  BY <1>0, DnsBytes, DnsCardinality DEF Summed, Dns!BytesExact
<1>2. Dns!OneRace
  BY <1>0 DEF Led, Dns!OneRace
<1>3. Dns!FollowersLed
  <2> SUFFICES ASSUME NEW c \in Callers, call[c].at = "wait", call[c].res = "none"
               PROVE  /\ inflight[call[c].key] # Dns!Nobody
                      /\ call[inflight[call[c].key]].at \in {"race", "end"}
                      /\ call[inflight[call[c].key]].key = call[c].key
    BY DEF Dns!FollowersLed
  <2>1. call[c].key \in Keys /\ inflight[call[c].key] # Dns!Nobody
    BY <1>0 DEF DnsTypes, Led
  <2> QED
    BY <1>0, <2>1 DEF Led
<1> QED
  BY <1>1, <1>2, <1>3

Tells(c) ==
  due[call'[c].key] <= call'[c].until /\ call'[c].until < due[call'[c].key] + Second

\* A hit tells the time for which the answer is due, and less than a second more.
LEMMA DnsHands ==
  ASSUME DnsInv, [Dns!Next]_dnsVars, NEW c \in Callers, call[c].at = "idle",
         call'[c].res = "cached"
  PROVE  Tells(c)
<1>0. DnsTypes /\ Due
  BY DEF DnsInv
<1>1. ASSUME NEW k \in Keys, Dns!Hit(c, k) PROVE Tells(c)
  BY <1>0, <1>1, HitTells DEF Tells, DnsTypes
<1>2. call'[c] # call[c]
  BY <1>0 DEF DnsTypes
<1>3. ASSUME NEW d \in Callers, d # c,
             \/ \E k \in Keys : Dns!Ask(d, k)
             \/ Dns!WaitEnds(d) \/ Dns!Return(d) \/ Dns!Cancel(d)
             \/ (\E p \in Providers : Dns!ProviderReturns(d, p))
             \/ Dns!TakeResult(d) \/ Dns!RaceCancelled(d)
      PROVE  call'[c] = call[c]
  BY <1>0, <1>3 DEF DnsTypes, Dns!Ask, Dns!Hit, Dns!Join, Dns!Lead, Dns!WaitEnds, Dns!Return,
       Dns!Cancel, Dns!ProviderReturns, Dns!TakeResult, Dns!RaceCancelled, Dns!RaceEnds,
       Dns!waitRest, Dns!raceRest
<1>4. ASSUME NEW d \in Callers, Dns!FlightFails(d) \/ Dns!FlightLands(d)
      PROVE  call'[c] = call[c]
  <2>1. c # d /\ c \notin Dns!Followers(d)
    BY <1>4 DEF Dns!FlightFails, Dns!FlightLands, Dns!Followers
  <2>2. \E ttl : Dns!Result(d, ttl)
    BY <1>4 DEF Dns!FlightFails, Dns!FlightLands
  <2> QED
    BY <2>1, <2>2 DEF Dns!Result
<1>5. ASSUME \/ Dns!WaitEnds(c) \/ Dns!Return(c) \/ Dns!Cancel(c)
             \/ (\E p \in Providers : Dns!ProviderReturns(c, p))
             \/ Dns!TakeResult(c) \/ Dns!RaceCancelled(c)
      PROVE  FALSE
  BY <1>5 DEF Dns!WaitEnds, Dns!Return, Dns!Cancel, Dns!ProviderReturns, Dns!TakeResult,
       Dns!RaceCancelled
<1>6. ASSUME NEW k \in Keys, Dns!Join(c, k) \/ Dns!Lead(c, k) PROVE FALSE
  BY <1>0, <1>6 DEF DnsTypes, Dns!Join, Dns!Lead
<1>7. CASE Dns!CloseCancels \/ Dns!CloseClears \/ Dns!Tick \/ UNCHANGED dnsVars
  BY <1>2, <1>7 DEF Dns!CloseCancels, Dns!CloseClears, Dns!Tick, Dns!callVars, dnsVars
<1>8. ASSUME NEW d \in Callers,
             \/ \E k \in Keys : Dns!Ask(d, k)
             \/ Dns!Lookup(d) \/ Dns!WaitEnds(d) \/ Dns!Return(d) \/ Dns!Cancel(d)
      PROVE  Tells(c)
  BY <1>1, <1>2, <1>3, <1>4, <1>5, <1>6, <1>8 DEF Dns!Lookup, Dns!Ask
<1> QED
  BY <1>7, <1>8 DEF Dns!Next

LEMMA DnsVars == UNCHANGED dnsVars <=> UNCHANGED Dns!vars
BY DEF dnsVars, Dns!vars, Dns!callVars

-----------------------------------------------------------------------------
(* The UDP association                                                     *)

Active == {"out", "write", "fin"}
Busy   == {w \in Workers : worker[w].at # "idle"}
Token(w) == [key |-> Head(worker[w].todo), by |-> w, exp |-> worker[w].exp]
Job == [at : {"idle", "resolve", "next", "out", "write", "fin", "ended"},
        todo : Seq(Targets), exp : Nat, ok : BOOLEAN]

UdpTypes ==
  /\ now \in Nat /\ ctxDone \in BOOLEAN /\ phase \in Udp!Phase
  /\ queue \in Seq(Targets)
  /\ worker \in [Workers -> Job]
  /\ \A w \in Workers : worker[w].at \in Active => worker[w].todo # <<>>
  /\ committed \in [Targets -> Nat] /\ owed \in [Targets -> Nat]
  /\ pending \subseteq [key : Targets, by : Workers, exp : Nat]
  /\ received \in Nat /\ uploaded \in Nat /\ dropped \in Nat
  /\ sock \in [Udp!Sockets -> {"none", "open", "closed"}]
  /\ reader \in [Udp!Sockets -> {"none", "read", "ended"} \cup Targets]

\* A pending token is that of a worker that is sending, and such a worker has its token as
\* long as nobody evicted it and it has not expired.
Tokens ==
  /\ \A g \in pending : worker[g.by].at \in Active /\ g = Token(g.by) /\ g.by \notin lost
  /\ \A w \in Workers : worker[w].at \in Active /\ worker[w].exp > now /\ w \notin lost =>
       Token(w) \in pending

\* What is committed is what is owed, except for what has expired.
Owing ==
  \A k \in Targets : committed[k] = owed[k] \/ (committed[k] <= now /\ owed[k] <= now)

\* Every datagram is somewhere until the association ends.
Counts ==
  /\ IsFiniteSet(Busy)
  /\ ~ctxDone => received = uploaded + dropped + Len(queue) + Cardinality(Busy)

\* How far the shutdown has got tells what is over.
Ends ==
  /\ phase \notin {"read", "cancel"} => ctxDone
  /\ phase \notin {"read", "cancel", "close"} => ~clientOpen
  /\ phase \in {"close2", "wait", "done"} => \A w \in Workers : worker[w].at = "ended"
  /\ phase \in {"wait", "done"} => \A s \in Udp!Sockets : sock[s] # "open"
  /\ phase = "done" => \A s \in Udp!Sockets : reader[s] \in {"none", "ended"}
  /\ \A w \in Workers : worker[w].at = "ended" => phase \notin {"read", "cancel"}

UdpInv == UdpTypes /\ Tokens /\ Owing /\ Counts /\ Ends

LEMMA UdpCardinality ==
  \A S : Udp!Cardinality(S) = Cardinality(S) /\ Udp!IsFiniteSet(S) = IsFiniteSet(S)
BY DEF Udp!Cardinality, Cardinality, Udp!IsFiniteSet, IsFiniteSet

\* The orders in which the targets of a datagram can be tried
LEMMA Candidates ==
  ASSUME NEW t \in Udp!SetToAllKPermutations(Targets) PROVE t \in Seq(Targets)
<1>1. IsFiniteSet(Targets)
  BY NetworkAssumption, UdpCardinality DEF Udp!UdpAssumption
<1>2. PICK s \in SUBSET Targets : t \in Udp!SetToSeqs(s)
  BY DEF Udp!SetToAllKPermutations
<1>3. Udp!Cardinality(s) \in Nat
  BY <1>1, UdpCardinality, FS_Subset, FS_CardinalityType
<1>4. t \in [1..Udp!Cardinality(s) -> s]
  BY <1>2 DEF Udp!SetToSeqs
<1> QED
  BY <1>3, <1>4

LEMMA UdpStart == Udp!Init => UdpInv
<1> SUFFICES ASSUME Udp!Init PROVE UdpInv
  OBVIOUS
<1>1. Busy = {} /\ IsFiniteSet({}) /\ Cardinality({}) = 0
  BY FS_EmptySet DEF Udp!Init, Busy, Udp!Rest
<1>2. UdpTypes
  <2>1. Udp!Rest \in Job /\ Udp!Rest.at \notin Active
    <3>1. <<>> \in Seq(Targets)
      OBVIOUS
    <3> QED
      BY <3>1 DEF Udp!Rest, Job, Active
  <2>2. worker \in [Workers -> Job] /\ \A w \in Workers : worker[w].at \notin Active
    BY <2>1 DEF Udp!Init
  <2>3. /\ sock \in [Udp!Sockets -> {"none", "open", "closed"}]
        /\ reader \in [Udp!Sockets -> {"none", "read", "ended"} \cup Targets]
    BY DEF Udp!Init
  <2>4. queue \in Seq(Targets)
    BY DEF Udp!Init
  <2> QED
    BY <2>2, <2>3, <2>4 DEF Udp!Init, UdpTypes, Udp!Phase
<1>3. Tokens /\ Owing /\ Ends
  BY DEF Udp!Init, Tokens, Owing, Ends, Udp!Rest, Active
<1>4. Counts
  BY <1>1 DEF Counts, Udp!Init
<1> QED
  BY <1>2, <1>3, <1>4 DEF UdpInv

\* Nothing happens to the tokens when a worker that is sending keeps its target.
LEMMA TokensStay ==
  ASSUME UdpTypes, Tokens, UNCHANGED <<pending, lost, now>>,
         \A w \in Workers : worker'[w].at \in Active <=> worker[w].at \in Active,
         \A w \in Workers : worker[w].at \in Active =>
           worker'[w].todo = worker[w].todo /\ worker'[w].exp = worker[w].exp
  PROVE  Tokens'
BY DEF UdpTypes, Tokens, Token

\* What the steps of the loop, of time and of the readers leave alone
LEMMA UdpLoop ==
  ASSUME UdpInv,
         \/ \E s \in Sources : Udp!Datagram(s)
         \/ Udp!Loop \/ Udp!LoopFails \/ Udp!Cancel \/ Udp!AfterFunc
  PROVE  UdpInv'
<1>0. UdpTypes /\ Tokens /\ Owing /\ Counts /\ Ends
  BY DEF UdpInv
<1> USE DEF Udp!loopRest, Udp!endRest, Udp!grantVars, Udp!countVars
<1>1. UNCHANGED <<now, worker, reader, committed, pending, owed, lost, uploaded>>
  BY DEF Udp!Datagram, Udp!Loop, Udp!LoopLeaves, Udp!LoopCancels, Udp!LoopCloses, Udp!LoopJoins,
         Udp!LoopClosesAgain, Udp!LoopWaits, Udp!LoopFails, Udp!Cancel, Udp!AfterFunc
<1>2. Tokens' /\ Owing' /\ Busy' = Busy
  BY <1>0, <1>1, TokensStay DEF Owing, Busy
<1>3. ASSUME NEW s \in Sources, Udp!Datagram(s) PROVE UdpInv'
  <2>1. /\ UNCHANGED <<ctxDone, clientOpen, sock>>
        /\ phase = "read" /\ received' = received + 1
    BY <1>3 DEF Udp!Datagram
  <2>2. \/ dropped' = dropped + 1 /\ UNCHANGED <<queue, phase>>
        \/ \E k \in Targets : queue' = Append(queue, k) /\ UNCHANGED <<dropped, phase>>
        \/ ctxDone /\ phase' = "cancel" /\ UNCHANGED <<queue, dropped>>
    BY <1>3 DEF Udp!Datagram
  <2>3. queue' \in Seq(Targets) /\ phase' \in Udp!Phase /\ received' \in Nat /\ dropped' \in Nat
    <3>1. \A k \in Targets : Append(queue, k) \in Seq(Targets)
      BY <1>0 DEF UdpTypes
    <3>2. queue' \in Seq(Targets)
      BY <1>0, <2>2, <3>1 DEF UdpTypes
    <3>3. phase' \in Udp!Phase
      BY <1>0, <2>2 DEF UdpTypes, Udp!Phase
    <3>4. received' \in Nat /\ dropped' \in Nat
      BY <1>0, <2>1, <2>2 DEF UdpTypes
    <3> QED
      BY <3>2, <3>3, <3>4
  <2>4. UdpTypes'
    BY <1>0, <1>1, <2>1, <2>3 DEF UdpTypes
  <2>5. ~ctxDone => received' = uploaded + dropped' + Len(queue') + Cardinality(Busy)
    <3>1. Cardinality(Busy) \in Nat
      BY <1>0, FS_CardinalityType DEF Counts
    <3>2. \A k \in Targets : Len(Append(queue, k)) = Len(queue) + 1 /\ Len(queue) \in Nat
      BY <1>0 DEF UdpTypes
    <3>3. ASSUME ~ctxDone, dropped' = dropped + 1, queue' = queue
          PROVE  received' = uploaded + dropped' + Len(queue') + Cardinality(Busy)
      <4>1. Len(queue) \in Nat
        BY <1>0 DEF UdpTypes
      <4> QED
        BY <1>0, <2>1, <3>1, <3>3, <4>1 DEF UdpTypes, Counts
    <3>4. ASSUME ~ctxDone, NEW k \in Targets, queue' = Append(queue, k), dropped' = dropped
          PROVE  received' = uploaded + dropped' + Len(queue') + Cardinality(Busy)
      <4>1. Len(queue') = Len(queue) + 1 /\ Len(queue) \in Nat
        BY <3>2, <3>4
      <4> QED
        BY <1>0, <2>1, <3>1, <3>4, <4>1 DEF UdpTypes, Counts
    <3> QED
      BY <2>2, <3>3, <3>4
  <2>6. Counts'
    BY <1>0, <1>1, <1>2, <2>1, <2>5 DEF Counts
  <2>7. Ends'
    BY <1>0, <1>1, <2>1, <2>2 DEF Ends
  <2> QED
    BY <1>2, <2>4, <2>6, <2>7 DEF UdpInv
<1>4. CASE Udp!Loop \/ Udp!LoopFails \/ Udp!Cancel \/ Udp!AfterFunc
  <2>1. UNCHANGED <<received, dropped, queue>> /\ (ctxDone => ctxDone') /\ ctxDone' \in BOOLEAN
    BY <1>0, <1>4 DEF UdpTypes, Udp!Loop, Udp!LoopLeaves, Udp!LoopCancels, Udp!LoopCloses,
         Udp!LoopJoins, Udp!LoopClosesAgain, Udp!LoopWaits, Udp!LoopFails, Udp!Cancel,
         Udp!AfterFunc
  <2>2. Counts'
    BY <1>0, <1>1, <1>2, <2>1 DEF Counts
  <2>3. sock' = sock \/ Udp!CloseSockets
    BY <1>4 DEF Udp!Loop, Udp!LoopLeaves, Udp!LoopCancels, Udp!LoopCloses,
         Udp!LoopJoins, Udp!LoopClosesAgain, Udp!LoopWaits, Udp!LoopFails, Udp!Cancel,
         Udp!AfterFunc
  <2>4. /\ sock' \in [Udp!Sockets -> {"none", "open", "closed"}]
        /\ \A s \in Udp!Sockets : sock[s] # "open" => sock'[s] # "open"
        /\ Udp!CloseSockets => \A s \in Udp!Sockets : sock'[s] # "open"
    BY <1>0, <2>3 DEF UdpTypes, Udp!CloseSockets
  <2>5. phase' \in Udp!Phase
    BY <1>0, <1>4 DEF UdpTypes, Udp!Phase, Udp!Loop, Udp!LoopLeaves, Udp!LoopCancels,
         Udp!LoopCloses, Udp!LoopJoins, Udp!LoopClosesAgain, Udp!LoopWaits, Udp!LoopFails,
         Udp!Cancel, Udp!AfterFunc
  <2>6. UdpTypes'
    BY <1>0, <1>1, <2>1, <2>4, <2>5 DEF UdpTypes
  <2>7. Ends'
    <3>1. CASE Udp!LoopLeaves \/ Udp!LoopFails
      BY <1>0, <1>1, <3>1 DEF Ends, Udp!LoopLeaves, Udp!LoopFails
    <3>2. CASE Udp!LoopCancels
      BY <1>0, <1>1, <3>2 DEF Ends, Udp!LoopCancels
    <3>3. CASE Udp!LoopCloses
      BY <1>0, <1>1, <3>3 DEF Ends, Udp!LoopCloses, Udp!CloseSockets
    <3>4. CASE Udp!LoopJoins
      BY <1>0, <1>1, <3>4 DEF Ends, Udp!LoopJoins
    <3>5. CASE Udp!LoopClosesAgain
      BY <1>0, <1>1, <2>4, <3>5 DEF Ends, Udp!LoopClosesAgain, Udp!CloseSockets
    <3>6. CASE Udp!LoopWaits
      BY <1>0, <1>1, <3>6 DEF Ends, Udp!LoopWaits
    <3>7. CASE Udp!Cancel
      BY <1>0, <1>1, <3>7 DEF Ends, Udp!Cancel
    <3>8. CASE Udp!AfterFunc
      BY <1>0, <1>1, <2>4, <3>8 DEF Ends, Udp!AfterFunc, Udp!CloseSockets
    <3> QED
      BY <1>4, <3>1, <3>2, <3>3, <3>4, <3>5, <3>6, <3>7, <3>8 DEF Udp!Loop
  <2> QED
    BY <1>2, <2>2, <2>6, <2>7 DEF UdpInv
<1> QED
  BY <1>3, <1>4

LEMMA UdpTime == ASSUME UdpInv, Udp!Tick PROVE UdpInv'
<1>0. UdpTypes /\ Tokens /\ Owing /\ Counts /\ Ends
  BY DEF UdpInv
<1>1. /\ now' = now + 1 /\ now \in Nat
      /\ UNCHANGED <<ctxDone, phase, clientOpen, queue, worker, sock, reader, committed, pending,
                     owed, lost, received, uploaded, dropped>>
  BY <1>0 DEF UdpTypes, Udp!Tick, Udp!grantVars, Udp!countVars
<1>2. \A w \in Workers : worker[w].exp > now' => worker[w].exp > now
  BY <1>0, <1>1 DEF UdpTypes, Job
<1>3. Tokens'
  BY <1>0, <1>1, <1>2 DEF Tokens, Token
<1>4. Owing'
  BY <1>0, <1>1 DEF Owing, UdpTypes
<1> QED
  BY <1>0, <1>1, <1>3, <1>4 DEF UdpInv, UdpTypes, Counts, Ends, Busy

LEMMA UdpReaders ==
  ASSUME UdpInv, NEW s \in Udp!Sockets,
         Udp!Read(s) \/ \E k \in Targets : Udp!Response(s, k)
  PROVE  UdpInv'
<1>0. UdpTypes /\ Tokens /\ Owing /\ Counts /\ Ends
  BY DEF UdpInv
<1> USE DEF Udp!readRest, Udp!grantVars, Udp!countVars
<1>1. UNCHANGED <<now, ctxDone, phase, clientOpen, queue, worker, sock, received, uploaded,
                  dropped, owed, lost>>
  BY DEF Udp!Read, Udp!ReaderEnds, Udp!Deliver, Udp!Response
<1>2. reader' \in [Udp!Sockets -> {"none", "read", "ended"} \cup Targets]
  BY <1>0 DEF UdpTypes, Udp!Read, Udp!ReaderEnds, Udp!Deliver, Udp!Response
<1>3. Counts'
  BY <1>0, <1>1 DEF Counts, Busy
<1>4. Ends'
  <2>1. reader[s] \notin {"none", "ended"}
    BY NetworkAssumption DEF Udp!NobodyAssumption, Udp!Read, Udp!ReaderEnds, Udp!Deliver,
       Udp!Response
  <2>2. phase # "done"
    BY <1>0, <2>1 DEF Ends
  <2> QED
    BY <1>0, <1>1, <2>2 DEF Ends
<1>5. CASE Udp!Read(s)
  <2>1. UNCHANGED <<committed, pending>>
    BY <1>5 DEF Udp!Read, Udp!ReaderEnds, Udp!Deliver
  <2>2. UdpTypes'
    BY <1>0, <1>1, <1>2, <2>1 DEF UdpTypes
  <2>3. Tokens' /\ Owing'
    BY <1>0, <1>1, <2>1, TokensStay DEF Owing
  <2> QED
    BY <1>3, <1>4, <2>2, <2>3 DEF UdpInv
<1>6. ASSUME NEW k \in Targets, Udp!Response(s, k) PROVE UdpInv'
  <2>1. /\ committed' = [j \in Targets |-> IF j \in {k} /\ committed[j] <= now THEN 0
                                           ELSE committed[j]]
        /\ pending' = {g \in pending : g.key \notin {k} \/ g.exp > now}
    BY <1>6 DEF Udp!Response, Udp!PrunedUntil, Udp!PrunedPending
  <2>2. UdpTypes'
    <3>1. committed' \in [Targets -> Nat] /\ pending' \subseteq pending
      BY <1>0, <2>1 DEF UdpTypes
    <3> QED
      BY <1>0, <1>1, <1>2, <3>1 DEF UdpTypes
  <2>3. Owing'
    BY <1>0, <1>1, <2>1 DEF Owing, UdpTypes
  <2>4. Tokens'
    <3>1. \A w \in Workers : worker[w].at \in Active /\ worker[w].exp > now /\ w \notin lost =>
            Token(w) \in pending'
      BY <1>0, <2>1 DEF Tokens, Token
    <3> QED
      BY <1>0, <1>1, <2>1, <3>1 DEF Tokens, Token
  <2> QED
    BY <1>3, <1>4, <2>2, <2>3, <2>4 DEF UdpInv
<1> QED
  BY <1>5, <1>6

\* What a step of one worker has in common with every other: the types of what it assigns,
\* how far the shutdown can be, and how many workers are busy after it.
LEMMA WorkerMoves ==
  ASSUME UdpInv, NEW w \in Workers, NEW j \in Job, worker' = [worker EXCEPT ![w] = j],
         worker[w].at # "ended",
         j.at \in Active => j.todo # <<>>,
         j.at = "ended" => phase \notin {"read", "cancel"},
         UNCHANGED <<now, ctxDone, phase, clientOpen, received>>,
         queue' \in Seq(Targets), uploaded' \in Nat, dropped' \in Nat,
         committed' \in [Targets -> Nat], owed' \in [Targets -> Nat],
         pending' \subseteq [key : Targets, by : Workers, exp : Nat],
         sock' \in [Udp!Sockets -> {"none", "open", "closed"}],
         reader' \in [Udp!Sockets -> {"none", "read", "ended"} \cup Targets]
  PROVE  /\ UdpTypes' /\ Ends' /\ IsFiniteSet(Busy')
         /\ Cardinality(Busy) \in Nat
         /\ (worker[w].at = "idle") = (j.at = "idle") => Cardinality(Busy') = Cardinality(Busy)
         /\ worker[w].at = "idle" /\ j.at # "idle" =>
              Cardinality(Busy') = Cardinality(Busy) + 1
         /\ worker[w].at # "idle" /\ j.at = "idle" =>
              Cardinality(Busy') = Cardinality(Busy) - 1
         /\ worker'[w] = j /\ \A v \in Workers : v # w => worker'[v] = worker[v]
<1>0. UdpTypes /\ Counts /\ Ends
  BY DEF UdpInv
<1>1. /\ worker' \in [Workers -> Job]
      /\ worker'[w] = j /\ \A v \in Workers : v # w => worker'[v] = worker[v]
  BY <1>0 DEF UdpTypes
<1>2. UdpTypes'
  BY <1>0, <1>1 DEF UdpTypes
<1>3. Ends'
  <2>1. phase \notin {"close2", "wait", "done"}
    BY <1>0 DEF Ends
  <2> QED
    BY <1>0, <1>1, <2>1 DEF Ends
<1>4. IsFiniteSet(Busy)
  BY <1>0 DEF Counts
<1>5. CASE (worker[w].at = "idle") = (j.at = "idle")
  <2>1. Busy' = Busy
    BY <1>1, <1>5 DEF Busy
  <2> QED
    BY <1>1, <1>2, <1>3, <1>4, <1>5, <2>1, FS_CardinalityType
<1>6. CASE worker[w].at = "idle" /\ j.at # "idle"
  <2>1. Busy' = Busy \cup {w} /\ w \notin Busy
    BY <1>1, <1>6 DEF Busy
  <2> QED
    BY <1>1, <1>2, <1>3, <1>4, <1>6, <2>1, FS_CardinalityType, FS_AddElement
<1>7. CASE worker[w].at # "idle" /\ j.at = "idle"
  <2>1. Busy' = Busy \ {w} /\ w \in Busy
    BY <1>1, <1>7 DEF Busy
  <2> QED
    BY <1>1, <1>2, <1>3, <1>4, <1>7, <2>1, FS_CardinalityType, FS_RemoveElement
<1> QED
  BY <1>5, <1>6, <1>7

LEMMA RestIsJob == Udp!Rest \in Job /\ Udp!Rest.at = "idle"
<1>1. <<>> \in Seq(Targets)
  OBVIOUS
<1> QED
  BY <1>1 DEF Udp!Rest, Job

LEMMA UdpTakes ==
  ASSUME UdpInv, NEW w \in Workers,
         Udp!Take(w) \/ Udp!Resolve(w) \/ Udp!SendGivesUp(w)
  PROVE  UdpInv'
<1>0. UdpTypes /\ Tokens /\ Owing /\ Counts /\ Ends
  BY DEF UdpInv
<1> USE DEF Udp!workRest, Udp!grantVars
<1>1. UNCHANGED <<now, ctxDone, phase, clientOpen, received, sock, reader, committed, pending,
                  owed, lost, uploaded>>
  BY DEF Udp!Take, Udp!Resolve, Udp!SendGivesUp
<1>2. queue' \in Seq(Targets) /\ dropped' \in Nat
  <2>1. queue # <<>> => Tail(queue) \in Seq(Targets)
    BY <1>0 DEF UdpTypes
  <2> QED
    <3>1. CASE Udp!Take(w)
      BY <1>0, <2>1, <3>1 DEF UdpTypes, Udp!Take
    <3>2. CASE Udp!Resolve(w)
      <4>1. queue' = queue /\ dropped' \in {dropped, dropped + 1}
        BY <3>2 DEF Udp!Resolve
      <4> QED
        BY <1>0, <4>1 DEF UdpTypes
    <3>3. CASE Udp!SendGivesUp(w)
      BY <1>0, <3>3 DEF UdpTypes, Udp!SendGivesUp
    <3> QED
      BY <3>1, <3>2, <3>3
<1>3. worker[w] \in Job /\ worker[w].at \notin Active \cup {"ended"}
  BY <1>0 DEF UdpTypes, Udp!Take, Udp!Resolve, Udp!SendGivesUp, Active
<1>4. PICK j \in Job :
        /\ worker' = [worker EXCEPT ![w] = j] /\ j.at \notin Active
        /\ j.at = "ended" => phase \notin {"read", "cancel"}
        /\ ~ctxDone => \/ /\ worker[w].at = "idle" /\ j.at # "idle"
                          /\ Len(queue) = Len(queue') + 1 /\ dropped' = dropped
                       \/ /\ worker[w].at # "idle" /\ j.at # "idle"
                          /\ queue' = queue /\ dropped' = dropped
                       \/ /\ worker[w].at # "idle" /\ j.at = "idle"
                          /\ queue' = queue /\ dropped' = dropped + 1
  <2>1. CASE Udp!Take(w)
    <3>1. CASE queue # <<>> /\ ctxDone
      <4>1. worker' = [worker EXCEPT ![w] = worker[w]]
        BY <1>0, <2>1, <3>1 DEF Udp!Take, UdpTypes
      <4> QED
        BY <1>3, <2>1, <3>1, <4>1 DEF Udp!Take
    <3>2. CASE queue # <<>> /\ ~ctxDone
      <4> DEFINE j == [Udp!Rest EXCEPT !.at = "resolve"]
      <4>1. j \in Job /\ j.at = "resolve"
        BY RestIsJob DEF Job
      <4>2. Len(queue) = Len(Tail(queue)) + 1
        BY <1>0, <3>2 DEF UdpTypes
      <4>3. worker' = [worker EXCEPT ![w] = j] /\ queue' = Tail(queue) /\ dropped' = dropped
            /\ worker[w].at = "idle"
        BY <2>1, <3>2 DEF Udp!Take
      <4> QED
        BY <4>1, <4>2, <4>3 DEF Active
    <3>3. CASE queue = <<>>
      <4> DEFINE j == [worker[w] EXCEPT !.at = "ended"]
      <4>1. j \in Job /\ j.at = "ended"
        BY <1>3 DEF Job
      <4>2. worker' = [worker EXCEPT ![w] = j] /\ phase \notin {"read", "cancel"}
        BY <2>1, <3>3 DEF Udp!Take, Udp!Goto
      <4>3. ctxDone
        BY <1>0, <4>2 DEF Ends
      <4> QED
        BY <4>1, <4>2, <4>3 DEF Active
    <3> QED
      BY <3>1, <3>2, <3>3
  <2>2. CASE Udp!Resolve(w)
    <3>1. worker[w].at # "idle" /\ queue' = queue
      BY <2>2 DEF Udp!Resolve
    <3>2. CASE /\ Udp!Restart(w)
               /\ dropped' = dropped + 1 \/ (ctxDone /\ UNCHANGED dropped)
      BY <3>1, <3>2, RestIsJob DEF Udp!Restart, Active
    <3>3. ASSUME NEW t \in Udp!SetToAllKPermutations(Targets), dropped' = dropped,
                 worker' = [worker EXCEPT ![w] = [Udp!Rest EXCEPT !.at = "next", !.todo = t]]
          PROVE  \E j \in Job :
                   /\ worker' = [worker EXCEPT ![w] = j] /\ j.at = "next"
      <4> DEFINE j == [Udp!Rest EXCEPT !.at = "next", !.todo = t]
      <4>1. j \in Job /\ j.at = "next"
        BY Candidates, RestIsJob DEF Job
      <4> QED
        BY <3>3, <4>1
    <3> QED
      BY <2>2, <3>1, <3>2, <3>3 DEF Udp!Resolve, Active
  <2>3. CASE Udp!SendGivesUp(w)
    BY <2>3, RestIsJob DEF Udp!SendGivesUp, Udp!Restart, Active
  <2> QED
    BY <2>1, <2>2, <2>3
<1>5. /\ UdpTypes' /\ Ends' /\ IsFiniteSet(Busy')
      /\ Cardinality(Busy) \in Nat
      /\ (worker[w].at = "idle") = (j.at = "idle") => Cardinality(Busy') = Cardinality(Busy)
      /\ worker[w].at = "idle" /\ j.at # "idle" => Cardinality(Busy') = Cardinality(Busy) + 1
      /\ worker[w].at # "idle" /\ j.at = "idle" => Cardinality(Busy') = Cardinality(Busy) - 1
      /\ worker'[w] = j /\ \A v \in Workers : v # w => worker'[v] = worker[v]
  <2>1. /\ uploaded' \in Nat /\ committed' \in [Targets -> Nat] /\ owed' \in [Targets -> Nat]
        /\ pending' \subseteq [key : Targets, by : Workers, exp : Nat]
        /\ sock' \in [Udp!Sockets -> {"none", "open", "closed"}]
        /\ reader' \in [Udp!Sockets -> {"none", "read", "ended"} \cup Targets]
    BY <1>0, <1>1 DEF UdpTypes
  <2> QED
    BY <1>1, <1>2, <1>3, <1>4, <2>1, WorkerMoves
<1>6. Tokens'
  <2>1. /\ \A v \in Workers : worker'[v].at \in Active <=> worker[v].at \in Active
        /\ \A v \in Workers : worker[v].at \in Active =>
             worker'[v].todo = worker[v].todo /\ worker'[v].exp = worker[v].exp
    <3>1. worker'[w].at \notin Active /\ worker[w].at \notin Active
      BY <1>3, <1>4, <1>5
    <3>2. \A v \in Workers : v # w => worker'[v] = worker[v]
      BY <1>5
    <3> QED
      BY <3>1, <3>2
  <2> QED
    BY <1>0, <1>1, <2>1, TokensStay
<1>7. Counts'
  <2>1. /\ received \in Nat /\ uploaded \in Nat /\ dropped \in Nat
        /\ Len(queue) \in Nat /\ Len(queue') \in Nat
    BY <1>0, <1>2 DEF UdpTypes
  <2> QED
    BY SMTT(30), <1>0, <1>1, <1>4, <1>5, <2>1 DEF Counts
<1>8. Owing'
  BY <1>0, <1>1 DEF Owing
<1> QED
  BY <1>5, <1>6, <1>7, <1>8 DEF UdpInv

LEMMA UdpSends ==
  ASSUME UdpInv, NEW w \in Workers, Udp!Outbound(w) \/ Udp!Write(w)
  PROVE  UdpInv'
<1>0. UdpTypes /\ Tokens /\ Owing /\ Counts /\ Ends
  BY DEF UdpInv
<1> USE DEF Udp!workRest, Udp!grantVars
<1>1. UNCHANGED <<now, ctxDone, phase, clientOpen, received, queue, committed, pending,
                  owed, lost, uploaded, dropped>>
  BY DEF Udp!Outbound, Udp!Write
<1>2. worker[w] \in Job /\ worker[w].at \in Active
  BY <1>0 DEF UdpTypes, Udp!Outbound, Udp!Write, Active
<1>3. PICK a \in {"write", "fin"}, ok \in BOOLEAN :
        worker' = [worker EXCEPT ![w] = [worker[w] EXCEPT !.at = a, !.ok = ok]]
  <2>1. worker[w].ok \in BOOLEAN
    BY <1>2 DEF Job
  <2>2. CASE Udp!Goto(w, "write")
    <3>1. [worker[w] EXCEPT !.at = "write"]
            = [worker[w] EXCEPT !.at = "write", !.ok = worker[w].ok]
      BY <1>2 DEF Job
    <3> QED
      BY <2>1, <2>2, <3>1 DEF Udp!Goto
  <2>3. CASE \E ok \in BOOLEAN :
               worker' = [worker EXCEPT ![w] = [worker[w] EXCEPT !.at = "fin", !.ok = ok]]
    BY <2>3
  <2> QED
    BY <2>2, <2>3 DEF Udp!Outbound, Udp!Write
<1>4. /\ sock' \in [Udp!Sockets -> {"none", "open", "closed"}]
      /\ reader' \in [Udp!Sockets -> {"none", "read", "ended"} \cup Targets]
  BY <1>0 DEF UdpTypes, Udp!Outbound, Udp!Write
<1> DEFINE j == [worker[w] EXCEPT !.at = a, !.ok = ok]
<1>5. /\ j \in Job /\ j.at = a /\ j.todo = worker[w].todo /\ j.exp = worker[w].exp
      /\ worker[w].todo # <<>>
  BY <1>0, <1>2 DEF Job, UdpTypes
<1>6. worker' = [worker EXCEPT ![w] = j]
  BY <1>3
<1> HIDE DEF j
<1>7. /\ UdpTypes' /\ Ends' /\ IsFiniteSet(Busy')
      /\ Cardinality(Busy') = Cardinality(Busy)
      /\ worker'[w] = j /\ \A v \in Workers : v # w => worker'[v] = worker[v]
  <2>1. /\ queue' \in Seq(Targets) /\ uploaded' \in Nat /\ dropped' \in Nat
        /\ committed' \in [Targets -> Nat] /\ owed' \in [Targets -> Nat]
        /\ pending' \subseteq [key : Targets, by : Workers, exp : Nat]
    BY <1>0, <1>1 DEF UdpTypes
  <2>2. worker[w].at \notin {"idle", "ended"} /\ j.at \notin {"idle", "ended"}
    BY <1>2, <1>5 DEF Active
  <2> QED
    BY <1>1, <1>4, <1>5, <1>6, <2>1, <2>2, WorkerMoves
<1>8. Tokens'
  <2>1. /\ \A v \in Workers : worker'[v].at \in Active <=> worker[v].at \in Active
        /\ \A v \in Workers : worker[v].at \in Active =>
             worker'[v].todo = worker[v].todo /\ worker'[v].exp = worker[v].exp
    BY <1>2, <1>5, <1>7 DEF Active
  <2> QED
    BY <1>0, <1>1, <2>1, TokensStay
<1> QED
  BY <1>0, <1>1, <1>7, <1>8 DEF UdpInv, Counts, Owing

\* Pruning touches only what has expired.
LEMMA PruneCommitted ==
  ASSUME NEW S, NEW c \in [Targets -> Nat], UdpTypes
  PROVE  /\ Udp!PrunedUntil(S, c) \in [Targets -> Nat]
         /\ \A j \in Targets :
              Udp!PrunedUntil(S, c)[j] = c[j] \/ (c[j] <= now /\ Udp!PrunedUntil(S, c)[j] = 0)
         /\ \A j \in Targets : j \notin S => Udp!PrunedUntil(S, c)[j] = c[j]
<1>1. Udp!PrunedUntil(S, c) = [k \in Targets |-> IF k \in S /\ c[k] <= now THEN 0 ELSE c[k]]
  BY DEF Udp!PrunedUntil
<1>2. Udp!PrunedUntil(S, c) \in [Targets -> Nat]
  BY <1>1
<1>3. ASSUME NEW j \in Targets
      PROVE  /\ \/ Udp!PrunedUntil(S, c)[j] = c[j]
                \/ c[j] <= now /\ Udp!PrunedUntil(S, c)[j] = 0
             /\ j \notin S => Udp!PrunedUntil(S, c)[j] = c[j]
  BY <1>1
<1> QED
  BY <1>2, <1>3

LEMMA PrunePending ==
  ASSUME NEW S, NEW p, UdpTypes
  PROVE  /\ Udp!PrunedPending(S, p) \subseteq p
         /\ \A g \in p : g.exp > now => g \in Udp!PrunedPending(S, p)
BY DEF Udp!PrunedPending

\* A new grant takes the place of what has expired, and of at most one target.
LEMMA GrantBegins ==
  ASSUME UdpTypes, NEW w \in Workers, NEW k \in Targets, Udp!BeginGrant(w, k)
  PROVE  \E V \in SUBSET Targets, p \in SUBSET pending, c \in [Targets -> Nat] :
           /\ \A g \in pending : g.exp > now => g \in p
           /\ \A j \in Targets : c[j] = committed[j] \/ (committed[j] <= now /\ c[j] = 0)
           /\ committed' = [j \in Targets |-> IF j \in V THEN 0 ELSE c[j]]
           /\ owed' = [j \in Targets |-> IF j \in V THEN 0 ELSE owed[j]]
           /\ pending' = {g \in p : g.key \notin V}
                            \cup {[key |-> k, by |-> w, exp |-> now + TTL]}
           /\ lost' = (lost \cup {g.by : g \in {x \in p : x.key \in V}}) \ {w}
<1> DEFINE c1 == Udp!PrunedUntil({k}, committed)
           p1 == Udp!PrunedPending({k}, pending)
           full == /\ k \notin Udp!KnownIn(c1, p1)
                   /\ Udp!Cardinality(Udp!KnownIn(c1, p1)) >= MaxTargets
           c2 == IF full THEN Udp!PrunedUntil(Targets, c1) ELSE c1
           p2 == IF full THEN Udp!PrunedPending(Targets, p1) ELSE p1
           E  == IF full /\ Udp!Cardinality(Udp!KnownIn(c2, p2)) >= MaxTargets
                 THEN {{e} : e \in Udp!Oldest(c2, p2)} ELSE {{}}
<1>1. \E V \in E :
       /\ committed' = [j \in Targets |-> IF j \in V THEN 0 ELSE c2[j]]
       /\ pending' = {g \in p2 : g.key \notin V}
                       \cup {[key |-> k, by |-> w, exp |-> now + TTL]}
       /\ owed' = [j \in Targets |-> IF j \in V THEN 0 ELSE owed[j]]
       /\ lost' = (lost \cup {g.by : g \in {x \in p2 : x.key \in V}}) \ {w}
  BY DEF Udp!BeginGrant
<1>2. committed \in [Targets -> Nat] /\ E \subseteq SUBSET Targets
  BY DEF UdpTypes, Udp!Oldest, Udp!KnownIn
<1>3. /\ c1 \in [Targets -> Nat] /\ p1 \subseteq pending
      /\ \A g \in pending : g.exp > now => g \in p1
      /\ \A j \in Targets : c1[j] = committed[j] \/ (committed[j] <= now /\ c1[j] = 0)
  <2>1. /\ c1 \in [Targets -> Nat]
        /\ \A j \in Targets : c1[j] = committed[j] \/ (committed[j] <= now /\ c1[j] = 0)
    BY <1>2, PruneCommitted
  <2>2. p1 \subseteq pending /\ \A g \in pending : g.exp > now => g \in p1
    BY PrunePending
  <2> QED
    BY <2>1, <2>2
<1> HIDE DEF c1, p1, full, E
<1>4. /\ c2 \in [Targets -> Nat] /\ p2 \subseteq p1
      /\ \A g \in p1 : g.exp > now => g \in p2
      /\ \A j \in Targets : c2[j] = c1[j] \/ (c1[j] <= now /\ c2[j] = 0)
  <2>1. /\ Udp!PrunedUntil(Targets, c1) \in [Targets -> Nat]
        /\ \A j \in Targets :
             \/ Udp!PrunedUntil(Targets, c1)[j] = c1[j]
             \/ c1[j] <= now /\ Udp!PrunedUntil(Targets, c1)[j] = 0
    BY <1>3, PruneCommitted
  <2>2. /\ Udp!PrunedPending(Targets, p1) \subseteq p1
        /\ \A g \in p1 : g.exp > now => g \in Udp!PrunedPending(Targets, p1)
    BY PrunePending
  <2> QED
    BY <1>3, <2>1, <2>2
<1> HIDE DEF c2, p2
<1>5. /\ p2 \in SUBSET pending
      /\ \A g \in pending : g.exp > now => g \in p2
  BY <1>3, <1>4
<1>6. \A j \in Targets : c2[j] = committed[j] \/ (committed[j] <= now /\ c2[j] = 0)
  <2>1. \A j \in Targets : committed[j] \in Nat /\ c1[j] \in Nat /\ c2[j] \in Nat
    BY <1>2, <1>3, <1>4
  <2>2. now \in Nat
    BY DEF UdpTypes
  <2> QED
    BY <1>3, <1>4, <2>1, <2>2
<1>7. PICK V \in E :
       /\ committed' = [j \in Targets |-> IF j \in V THEN 0 ELSE c2[j]]
       /\ pending' = {g \in p2 : g.key \notin V}
                       \cup {[key |-> k, by |-> w, exp |-> now + TTL]}
       /\ owed' = [j \in Targets |-> IF j \in V THEN 0 ELSE owed[j]]
       /\ lost' = (lost \cup {g.by : g \in {x \in p2 : x.key \in V}}) \ {w}
  BY <1>1
<1>8. V \in SUBSET Targets
  BY <1>2
<1> QED
  BY <1>4, <1>5, <1>6, <1>7, <1>8

LEMMA UdpBegins == ASSUME UdpInv, NEW w \in Workers, Udp!SendBegins(w) PROVE UdpInv'
<1>0. UdpTypes /\ Tokens /\ Owing /\ Counts /\ Ends
  BY DEF UdpInv
<1> USE DEF Udp!workRest
<1>1. /\ UNCHANGED <<now, ctxDone, phase, clientOpen, received, queue, uploaded, dropped,
                     sock, reader>>
      /\ worker[w].at = "next" /\ worker[w].todo # <<>>
  BY DEF Udp!SendBegins
<1> DEFINE k == Head(worker[w].todo)
           a == IF chained THEN "write" ELSE "out"
           j == [worker[w] EXCEPT !.at = a, !.exp = now + TTL]
<1>2. worker[w] \in Job /\ k \in Targets
  <2>1. worker[w] \in Job
    BY <1>0 DEF UdpTypes
  <2>2. worker[w].todo \in Seq(Targets)
    BY <2>1 DEF Job
  <2> QED
    BY <1>1, <2>1, <2>2
<1>3. TTL \in Nat /\ now \in Nat
  BY <1>0, NetworkAssumption DEF Udp!UdpAssumption, UdpTypes
<1>4. /\ j \in Job /\ j.at = a /\ j.todo = worker[w].todo /\ j.exp = now + TTL
      /\ a \in Active
  <2>1. a \in {"write", "out"}
    OBVIOUS
  <2> HIDE DEF a
  <2>2. now + TTL \in Nat
    BY <1>3
  <2>3. a \in Active /\ j \in Job
    BY <1>2, <2>1, <2>2 DEF Job, Active
  <2>4. j.at = a /\ j.todo = worker[w].todo /\ j.exp = now + TTL
    BY <1>2 DEF Job
  <2> QED
    BY <2>3, <2>4
<1>5. worker' = [worker EXCEPT ![w] = j] /\ Udp!BeginGrant(w, k)
  BY DEF Udp!SendBegins
<1>6. k = Head(j.todo)
  BY <1>4
<1> HIDE DEF k, a, j
<1>7. PICK V \in SUBSET Targets, p \in SUBSET pending, c \in [Targets -> Nat] :
        /\ \A g \in pending : g.exp > now => g \in p
        /\ \A i \in Targets : c[i] = committed[i] \/ (committed[i] <= now /\ c[i] = 0)
        /\ committed' = [i \in Targets |-> IF i \in V THEN 0 ELSE c[i]]
        /\ owed' = [i \in Targets |-> IF i \in V THEN 0 ELSE owed[i]]
        /\ pending' = {g \in p : g.key \notin V}
                         \cup {[key |-> k, by |-> w, exp |-> now + TTL]}
        /\ lost' = (lost \cup {g.by : g \in {x \in p : x.key \in V}}) \ {w}
  BY <1>0, <1>2, <1>5, GrantBegins
<1>8. /\ committed' \in [Targets -> Nat] /\ owed' \in [Targets -> Nat]
      /\ pending' \subseteq [key : Targets, by : Workers, exp : Nat]
  <2>1. owed \in [Targets -> Nat] /\ pending \subseteq [key : Targets, by : Workers, exp : Nat]
    BY <1>0 DEF UdpTypes
  <2>2. committed' \in [Targets -> Nat] /\ owed' \in [Targets -> Nat]
    BY <1>7, <2>1
  <2>3. [key |-> k, by |-> w, exp |-> now + TTL] \in [key : Targets, by : Workers, exp : Nat]
    BY <1>2, <1>3
  <2>4. {g \in p : g.key \notin V} \subseteq pending
    BY <1>7
  <2> QED
    BY <1>7, <2>1, <2>2, <2>3, <2>4
<1>9. /\ UdpTypes' /\ Ends' /\ IsFiniteSet(Busy')
      /\ Cardinality(Busy') = Cardinality(Busy)
      /\ worker'[w] = j /\ \A v \in Workers : v # w => worker'[v] = worker[v]
  <2>1. /\ queue' \in Seq(Targets) /\ uploaded' \in Nat /\ dropped' \in Nat
        /\ sock' \in [Udp!Sockets -> {"none", "open", "closed"}]
        /\ reader' \in [Udp!Sockets -> {"none", "read", "ended"} \cup Targets]
    BY <1>0, <1>1 DEF UdpTypes
  <2>2. worker[w].at \notin {"idle", "ended"} /\ j.at \notin {"idle", "ended"}
        /\ j.todo # <<>>
    BY <1>1, <1>4 DEF Active
  <2> QED
    BY <1>1, <1>4, <1>5, <1>8, <2>1, <2>2, WorkerMoves
<1>10. Owing'
  <2> SUFFICES ASSUME NEW i \in Targets
               PROVE  \/ committed'[i] = owed'[i]
                      \/ committed'[i] <= now' /\ owed'[i] <= now'
    BY DEF Owing
  <2>1. committed[i] \in Nat /\ owed[i] \in Nat /\ c[i] \in Nat
    BY <1>0 DEF UdpTypes
  <2>2. /\ committed'[i] = IF i \in V THEN 0 ELSE c[i]
        /\ owed'[i] = IF i \in V THEN 0 ELSE owed[i]
    BY <1>7
  <2> QED
    BY <1>0, <1>1, <1>3, <1>7, <2>1, <2>2 DEF Owing
<1>11. Tokens'
  <2> DEFINE new == [key |-> k, by |-> w, exp |-> now + TTL]
  <2>1. Token(w)' = new
    BY <1>4, <1>6, <1>9 DEF Token
  <2>2. \A v \in Workers : v # w => Token(v)' = Token(v)
    BY <1>9 DEF Token
  <2>3. ASSUME NEW g \in pending' PROVE worker'[g.by].at \in Active /\ g = Token(g.by)'
                                        /\ g.by \notin lost'
    <3>1. CASE g = new
      BY <1>4, <1>7, <1>9, <2>1, <3>1
    <3>2. CASE g # new
      <4>1. g \in p /\ g \in pending /\ g.key \notin V
        BY <1>7, <2>3, <3>2
      <4>2. /\ worker[g.by].at \in Active /\ g = Token(g.by) /\ g.by \notin lost
            /\ g.by \in Workers
        BY <1>0, <4>1 DEF Tokens, UdpTypes
      <4>3. g.by # w
        BY <1>1, <4>2 DEF Active
      <4>4. ASSUME NEW x \in p, x.key \in V, x.by = g.by PROVE FALSE
        <5>1. x = Token(x.by)
          BY <1>0, <4>4 DEF Tokens
        <5> QED
          BY <4>1, <4>2, <4>4, <5>1
      <4> QED
        BY <1>7, <1>9, <2>2, <4>2, <4>3, <4>4
    <3> QED
      BY <3>1, <3>2
  <2>4. ASSUME NEW v \in Workers, worker'[v].at \in Active, worker'[v].exp > now',
               v \notin lost'
        PROVE  Token(v)' \in pending'
    <3>1. CASE v = w
      BY <1>7, <2>1, <3>1
    <3>2. CASE v # w
      <4>1. worker'[v] = worker[v] /\ v \notin lost
        BY <1>7, <1>9, <2>4, <3>2
      <4>2. Token(v) \in pending /\ Token(v).exp = worker[v].exp /\ Token(v).by = v
        BY <1>0, <1>1, <2>4, <4>1 DEF Tokens, Token
      <4>3. Token(v) \in p
        BY <1>1, <1>7, <2>4, <4>1, <4>2
      <4>4. Token(v).key \notin V
        BY <1>7, <2>4, <3>2, <4>2, <4>3
      <4> QED
        BY <1>7, <2>2, <3>2, <4>3, <4>4
    <3> QED
      BY <3>1, <3>2
  <2> QED
    BY <2>3, <2>4 DEF Tokens
<1> QED
  BY <1>0, <1>1, <1>9, <1>10, <1>11 DEF UdpInv, Counts

LEMMA UdpFinishes == ASSUME UdpInv, NEW w \in Workers, Udp!SendFinishes(w) PROVE UdpInv'
<1>0. UdpTypes /\ Tokens /\ Owing /\ Counts /\ Ends
  BY DEF UdpInv
<1> USE DEF Udp!workRest
<1>1. /\ UNCHANGED <<now, ctxDone, phase, clientOpen, received, queue, dropped, sock, reader>>
      /\ worker[w].at = "fin"
  BY DEF Udp!SendFinishes
<1>2. worker[w].at \in Active /\ worker[w].todo # <<>>
  BY <1>0, <1>1 DEF Active, UdpTypes
<1> DEFINE k == Head(worker[w].todo)
           ok == worker[w].ok
           mine == {g \in pending : g.key = k /\ g.by = w}
           c == [committed EXCEPT ![k] = IF ok /\ mine # {}
                                         THEN Udp!Later(@, worker[w].exp) ELSE @]
<1>3. worker[w] \in Job /\ k \in Targets /\ worker[w].exp \in Nat /\ ok \in BOOLEAN
  <2>1. worker[w] \in Job
    BY <1>0 DEF UdpTypes
  <2>2. worker[w].todo \in Seq(Targets)
    BY <2>1 DEF Job
  <2> QED
    BY <1>2, <2>1, <2>2 DEF Job
<1>4. /\ committed' = Udp!PrunedUntil({k}, c)
      /\ pending' = Udp!PrunedPending({k}, pending \ mine)
      /\ owed' = [owed EXCEPT ![k] = IF ok /\ w \notin lost
                                     THEN Udp!Later(@, worker[w].exp) ELSE @]
      /\ lost' = lost \ {w}
  BY DEF Udp!SendFinishes, Udp!FinishGrant
<1>5. \A a \in Nat, b \in Nat : Udp!Later(a, b) \in Nat
  BY DEF Udp!Later
<1>6. c \in [Targets -> Nat]
  BY <1>0, <1>3, <1>5 DEF UdpTypes
<1>7. owed' \in [Targets -> Nat]
  BY <1>0, <1>3, <1>4, <1>5 DEF UdpTypes
<1> HIDE DEF c
<1>8. /\ committed' \in [Targets -> Nat]
      /\ \A j \in Targets : committed'[j] = c[j] \/ (c[j] <= now /\ committed'[j] = 0)
  BY <1>0, <1>4, <1>6, PruneCommitted
<1>9. /\ pending' \subseteq pending \ mine
      /\ \A g \in pending \ mine : g.exp > now => g \in pending'
  BY <1>0, <1>4, PrunePending
<1>10. PICK j \in Job :
         /\ worker' = [worker EXCEPT ![w] = j] /\ j.at \notin Active \cup {"ended"}
         /\ \/ j.at = "idle" /\ uploaded' = uploaded + 1
            \/ j.at # "idle" /\ uploaded' = uploaded
  <2>1. CASE ok
    BY <2>1, RestIsJob DEF Udp!SendFinishes, Udp!Restart, Active
  <2>2. CASE ~ok
    <3> DEFINE j == [worker[w] EXCEPT !.at = "next", !.todo = Tail(worker[w].todo), !.exp = 0]
    <3>1. worker[w].todo \in Seq(Targets)
      BY <1>3 DEF Job
    <3>2. Tail(worker[w].todo) \in Seq(Targets)
      BY <1>2, <3>1
    <3>3. j \in Job /\ j.at = "next"
      BY <1>3, <3>2 DEF Job
    <3>4. worker' = [worker EXCEPT ![w] = j] /\ uploaded' = uploaded
      BY <2>2 DEF Udp!SendFinishes
    <3> QED
      BY <3>3, <3>4 DEF Active
  <2> QED
    BY <2>1, <2>2
<1>11. /\ UdpTypes' /\ Ends' /\ IsFiniteSet(Busy') /\ Cardinality(Busy) \in Nat
       /\ j.at # "idle" => Cardinality(Busy') = Cardinality(Busy)
       /\ j.at = "idle" => Cardinality(Busy') = Cardinality(Busy) - 1
       /\ worker'[w] = j /\ \A v \in Workers : v # w => worker'[v] = worker[v]
  <2>1. /\ queue' \in Seq(Targets) /\ uploaded' \in Nat /\ dropped' \in Nat
        /\ pending' \subseteq [key : Targets, by : Workers, exp : Nat]
        /\ sock' \in [Udp!Sockets -> {"none", "open", "closed"}]
        /\ reader' \in [Udp!Sockets -> {"none", "read", "ended"} \cup Targets]
    BY <1>0, <1>1, <1>9, <1>10 DEF UdpTypes
  <2>2. worker[w].at \notin {"idle", "ended"}
    BY <1>1
  <2> QED
    BY <1>1, <1>7, <1>8, <1>10, <2>1, <2>2, WorkerMoves
<1>12. Counts'
  <2>1. received \in Nat /\ uploaded \in Nat /\ dropped \in Nat /\ Len(queue) \in Nat
    BY <1>0 DEF UdpTypes
  <2> QED
    BY <1>0, <1>1, <1>10, <1>11, <2>1 DEF Counts
<1>13. Owing'
  <2> SUFFICES ASSUME NEW i \in Targets
               PROVE  \/ committed'[i] = owed'[i]
                      \/ committed'[i] <= now' /\ owed'[i] <= now'
    BY DEF Owing
  <2>1. /\ committed[i] \in Nat /\ owed[i] \in Nat /\ c[i] \in Nat /\ now \in Nat
        /\ committed'[i] \in Nat /\ owed'[i] \in Nat
    BY <1>0, <1>6, <1>7, <1>8 DEF UdpTypes
  <2>2. committed[i] = owed[i] \/ (committed[i] <= now /\ owed[i] <= now)
    BY <1>0 DEF Owing
  <2>3. committed'[i] = c[i] \/ (c[i] <= now /\ committed'[i] = 0)
    BY <1>8
  <2>4. c[i] = owed'[i] \/ (c[i] <= now /\ owed'[i] <= now)
    <3>1. CASE i # k \/ ~ok
      <4>1. c[i] = committed[i] /\ owed'[i] = owed[i]
        BY <1>0, <1>3, <1>4, <3>1 DEF UdpTypes, c
      <4> QED
        BY <2>2, <4>1
    <3>2. CASE i = k /\ ok
      <4>1. /\ c[k] = IF mine # {} THEN Udp!Later(committed[k], worker[w].exp)
                      ELSE committed[k]
            /\ owed'[k] = IF w \notin lost THEN Udp!Later(owed[k], worker[w].exp) ELSE owed[k]
        BY <1>0, <1>3, <1>4, <3>2 DEF UdpTypes, c
      <4>2. mine # {} => w \notin lost
        BY <1>0 DEF Tokens
      <4>3. w \notin lost /\ worker[w].exp > now => Token(w) \in mine
        BY <1>0, <1>2 DEF Tokens, Token
      <4> QED
        BY <1>3, <2>1, <2>2, <3>2, <4>1, <4>2, <4>3 DEF Udp!Later
    <3> QED
      BY <3>1, <3>2
  <2> QED
    BY <1>1, <2>1, <2>3, <2>4
<1>14. Tokens'
  <2>1. \A v \in Workers : v # w => Token(v)' = Token(v)
    BY <1>11 DEF Token
  <2>2. ASSUME NEW g \in pending' PROVE worker'[g.by].at \in Active /\ g = Token(g.by)'
                                        /\ g.by \notin lost'
    <3>1. g \in pending /\ g \notin mine
      BY <1>9
    <3>2. worker[g.by].at \in Active /\ g = Token(g.by) /\ g.by \notin lost /\ g.by \in Workers
      BY <1>0, <3>1 DEF Tokens, UdpTypes
    <3>3. g.by # w
      BY <3>1, <3>2 DEF Token
    <3> QED
      BY <1>4, <1>11, <2>1, <3>2, <3>3
  <2>3. ASSUME NEW v \in Workers, worker'[v].at \in Active, worker'[v].exp > now',
               v \notin lost'
        PROVE  Token(v)' \in pending'
    <3>1. v # w
      BY <1>10, <1>11, <2>3
    <3>2. worker'[v] = worker[v] /\ v \notin lost
      BY <1>4, <1>11, <2>3, <3>1
    <3>3. Token(v) \in pending /\ Token(v).exp = worker[v].exp /\ Token(v).by = v
      BY <1>0, <1>1, <2>3, <3>2 DEF Tokens, Token
    <3> QED
      BY <1>1, <1>9, <2>1, <2>3, <3>1, <3>2, <3>3
  <2> QED
    BY <2>2, <2>3 DEF Tokens
<1> QED
  BY <1>11, <1>12, <1>13, <1>14 DEF UdpInv

LEMMA UdpStep == UdpInv /\ [Udp!Next]_udpVars => UdpInv'
<1> SUFFICES ASSUME UdpInv, [Udp!Next]_udpVars PROVE UdpInv'
  OBVIOUS
<1>1. CASE UNCHANGED udpVars
  BY <1>1 DEF udpVars, UdpInv, UdpTypes, Tokens, Token, Owing, Counts, Busy, Ends
<1>2. ASSUME NEW w \in Workers, Udp!Work(w) PROVE UdpInv'
  BY <1>2, UdpTakes, UdpSends, UdpBegins, UdpFinishes DEF Udp!Work
<1>3. CASE \/ \E s \in Sources : Udp!Datagram(s)
           \/ Udp!Loop \/ Udp!LoopFails \/ Udp!Cancel \/ Udp!AfterFunc
  BY <1>3, UdpLoop
<1> QED
  BY <1>1, <1>2, <1>3, UdpTime, UdpReaders DEF Udp!Next

LEMMA UdpSound == UdpInv => Udp!GrantsExact /\ Udp!Accounted /\ Udp!NothingLeft
<1> SUFFICES ASSUME UdpInv PROVE Udp!GrantsExact /\ Udp!Accounted /\ Udp!NothingLeft
  OBVIOUS
<1>0. UdpTypes /\ Tokens /\ Owing /\ Counts /\ Ends
  BY DEF UdpInv
<1>1. Udp!GrantsExact
  <2> SUFFICES ASSUME NEW k \in Targets
               PROVE  Udp!TargetAllowed(k) <=>
                        \/ owed[k] > now
                        \/ \E w \in Workers : /\ worker[w].at \in Active
                                              /\ Head(worker[w].todo) = k
                                              /\ worker[w].exp > now /\ w \notin lost
    BY DEF Udp!GrantsExact, Active
  <2>1. committed[k] \in Nat /\ owed[k] \in Nat /\ now \in Nat
    BY <1>0 DEF UdpTypes
  <2>2. committed[k] > now <=> owed[k] > now
    BY <1>0, <2>1 DEF Owing
  <2>3. ASSUME NEW g \in pending, g.key = k, g.exp > now
        PROVE  \E w \in Workers : /\ worker[w].at \in Active /\ Head(worker[w].todo) = k
                                  /\ worker[w].exp > now /\ w \notin lost
    <3>1. g.by \in Workers /\ worker[g.by].at \in Active /\ g.by \notin lost
      BY <1>0, <2>3 DEF Tokens, UdpTypes
    <3>2. Head(worker[g.by].todo) = g.key /\ worker[g.by].exp = g.exp
      BY <1>0, <2>3 DEF Tokens, Token
    <3> QED
      BY <2>3, <3>1, <3>2
  <2>4. ASSUME NEW w \in Workers, worker[w].at \in Active, Head(worker[w].todo) = k,
               worker[w].exp > now, w \notin lost
        PROVE  \E g \in pending : g.key = k /\ g.exp > now
    BY <1>0, <2>4 DEF Tokens, Token
  <2> QED
    BY <2>2, <2>3, <2>4 DEF Udp!TargetAllowed
<1>2. Udp!Accounted
  BY <1>0, UdpCardinality DEF Counts, Busy, Udp!Accounted
<1>3. Udp!NothingLeft
  BY <1>0 DEF Ends, Udp!NothingLeft
<1> QED
  BY <1>1, <1>2, <1>3

LEMMA UdpVars == UNCHANGED udpVars <=> UNCHANGED Udp!vars
BY DEF udpVars, Udp!vars, Udp!grantVars, Udp!countVars

-----------------------------------------------------------------------------
\* Of an association alone: whose responses pass, where every datagram is, and what is left
\* at the end (udp.go:534-570, 595-682, 884-980).
THEOREM AssociationSound == Udp!Spec => [](Udp!GrantsExact /\ Udp!Accounted /\ Udp!NothingLeft)
<1>1. UdpInv /\ [Udp!Next]_Udp!vars => UdpInv'
  BY UdpStep, UdpVars
<1> QED
  BY <1>1, UdpStart, UdpSound, PTL DEF Udp!Spec

\* Of the cache of a resolver alone: its bytes, its races and whoever waits for them
\* (doh_cache.go:51-291).
THEOREM CacheIsSound == Dns!Spec => [](Dns!BytesExact /\ Dns!OneRace /\ Dns!FollowersLed)
<1>1. DnsInv /\ [Dns!Next]_Dns!vars => DnsInv'
  BY DnsStep, DnsVars
<1> QED
  BY <1>1, DnsStart, DnsSound, PTL DEF Dns!Spec

-----------------------------------------------------------------------------
(* The run's specification: one of the two moves                           *)

LEMMA NetworkStep ==
  /\ Init => UdpInv /\ DnsInv
  /\ UdpInv /\ DnsInv /\ [Next]_<<subject, udpVars, dnsVars>> => UdpInv' /\ DnsInv'
<1>1. Init => UdpInv /\ DnsInv
  BY UdpStart, DnsStart DEF Init
<1>2. ASSUME UdpInv, DnsInv, [Next]_<<subject, udpVars, dnsVars>> PROVE UdpInv' /\ DnsInv'
  <2>1. [Udp!Next]_udpVars /\ [Dns!Next]_dnsVars
    BY <1>2 DEF Next
  <2> QED
    BY <1>2, <2>1, UdpStep, DnsStep
<1> QED
  BY <1>1, <1>2

\* Exactly the targets a datagram was sent to less than a TTL ago may answer, and no
\* datagram is lost without being counted (udp.go:595-682, 884-980).
THEOREM NetworkExact == Spec => []Exact
<1>1. UdpInv => Exact
  BY UdpSound DEF Exact
<1> QED
  BY <1>1, NetworkStep, PTL DEF Spec

\* The bytes of the cache, one race for a question, and a leader for whoever waits
\* (doh_cache.go:51-140).
THEOREM NetworkCacheSound == Spec => []CacheSound
<1>1. DnsInv => CacheSound
  BY DnsSound DEF CacheSound
<1> QED
  BY <1>1, NetworkStep, PTL DEF Spec

\* A reader is of a socket that was opened.
Attached == \A s \in Udp!Sockets : reader[s] # "none" => sock[s] # "none"

LEMMA AttachedStays == UdpInv /\ Attached /\ [Udp!Next]_udpVars => Attached'
<1> SUFFICES ASSUME UdpInv, Attached, [Udp!Next]_udpVars, NEW s \in Udp!Sockets
             PROVE  reader'[s] # "none" => sock'[s] # "none"
  BY DEF Attached
<1>1. /\ reader[s] # "none" => sock[s] # "none"
      /\ {"none", "read", "ended"} \cap Targets = {}
  BY NetworkAssumption DEF Attached, Udp!NobodyAssumption
<1>2. /\ sock \in [Udp!Sockets -> {"none", "open", "closed"}]
      /\ reader \in [Udp!Sockets -> {"none", "read", "ended"} \cup Targets]
  BY DEF UdpInv, UdpTypes
<1>3. CASE UNCHANGED <<sock, reader>>
  BY <1>1, <1>3
<1>4. CASE Udp!CloseSockets /\ UNCHANGED reader
  BY <1>1, <1>2, <1>4 DEF Udp!CloseSockets
<1>5. ASSUME NEW w \in Workers, Udp!Outbound(w)
      PROVE  reader'[s] # "none" => sock'[s] # "none"
  BY <1>1, <1>2, <1>5 DEF Udp!Outbound
<1>6. ASSUME NEW r \in Udp!Sockets, Udp!ReaderEnds(r) \/ Udp!Deliver(r)
                                    \/ \E k \in Targets : Udp!Response(r, k)
      PROVE  reader'[s] # "none" => sock'[s] # "none"
  <2>1. UNCHANGED sock /\ reader[r] # "none"
    BY <1>1, <1>6 DEF Udp!ReaderEnds, Udp!Deliver, Udp!Response, Udp!readRest
  <2>2. \A q \in Udp!Sockets \ {r} : reader'[q] = reader[q]
    BY <1>2, <1>6 DEF Udp!ReaderEnds, Udp!Deliver, Udp!Response
  <2> QED
    BY <1>1, <2>1, <2>2
<1>7. CASE (\E c \in Sources : Udp!Datagram(c)) \/ Udp!LoopFails \/ Udp!Cancel \/ Udp!Tick
  BY <1>3, <1>7 DEF Udp!Datagram, Udp!LoopFails, Udp!Cancel, Udp!Tick, Udp!loopRest, Udp!endRest
<1>8. CASE Udp!Loop \/ Udp!AfterFunc
  BY <1>3, <1>4, <1>8 DEF Udp!Loop, Udp!AfterFunc, Udp!LoopLeaves, Udp!LoopCancels,
     Udp!LoopCloses, Udp!LoopJoins, Udp!LoopClosesAgain, Udp!LoopWaits, Udp!loopRest, Udp!endRest
<1>9. ASSUME NEW w \in Workers, Udp!Work(w) PROVE reader'[s] # "none" => sock'[s] # "none"
  <2>1. CASE Udp!Outbound(w)
    BY <1>5, <2>1
  <2>2. CASE ~ Udp!Outbound(w)
    BY <1>3, <1>9, <2>2 DEF Udp!Work, Udp!Take, Udp!Resolve, Udp!SendGivesUp, Udp!SendBegins,
       Udp!Write, Udp!SendFinishes
  <2> QED
    BY <2>1, <2>2
<1> QED
  BY <1>3, <1>6, <1>7, <1>8, <1>9 DEF Udp!Next, Udp!Read, udpVars

\* While an association ends it is the turn of its loop, of a worker or of a reader.
LEMMA UdpNeverStuck == UdpInv /\ Attached => Udp!NeverStuck
<1> SUFFICES ASSUME UdpInv, Attached, ctxDone, phase # "done"
             PROVE  \/ Udp!LoopsTurn
                    \/ \E w \in Workers : Udp!WorkersTurn(w)
                    \/ \E s \in Udp!Sockets : Udp!ReadersTurn(s)
  BY DEF Udp!NeverStuck
<1>1. UdpTypes /\ Ends
  BY DEF UdpInv
<1>2. phase \in {"read", "cancel", "close", "close2", "join", "wait"}
  BY <1>1 DEF UdpTypes, Udp!Phase
<1>3. CASE phase = "join"
  <2>1. \A w \in Workers : worker[w].at \in {"idle", "resolve", "next", "out", "write",
                                             "fin", "ended"}
    BY <1>1 DEF UdpTypes, Job
  <2> QED
    BY <1>3, <2>1 DEF Udp!LoopsTurn, Udp!WorkersTurn
<1>4. CASE phase = "wait"
  <2>1. ASSUME NEW s \in Udp!Sockets
        PROVE  reader[s] \in {"none", "ended"} \cup Targets
               \/ (reader[s] = "read" /\ sock[s] = "closed")
    BY <1>1, <1>4 DEF UdpTypes, Ends, Attached
  <2> QED
    BY <1>4, <2>1 DEF Udp!LoopsTurn, Udp!ReadersTurn
<1> QED
  BY <1>2, <1>3, <1>4 DEF Udp!LoopsTurn

\* The end of an association leaves no socket, reader or worker, and never waits for one that
\* cannot go on (udp.go:534-570, 1011-1026).
THEOREM NetworkEndsCleanly == Spec => []EndsCleanly
<1>1. Init => Attached
  BY DEF Init, Udp!Init, Attached
<1>2. UdpInv /\ Attached /\ [Next]_<<subject, udpVars, dnsVars>> => Attached'
  BY AttachedStays DEF Next
<1>3. UdpInv /\ Attached => EndsCleanly
  BY UdpSound, UdpNeverStuck DEF EndsCleanly
<1> QED
  BY <1>1, <1>2, <1>3, NetworkStep, PTL DEF Spec

\* What a hit hands out is said to be good as long as it is kept, and for less than a second
\* longer, for any length of a second in ticks (doh_cache.go:51-64, 128, 271-291).
THEOREM NetworkHitsAge == Spec => HitsAge
<1>1. DnsInv /\ [Next]_<<subject, udpVars, dnsVars>>
        => [\A c \in Callers :
              call[c].at = "idle" /\ call'[c].res = "cached" => Tells(c)]_Dns!vars
  <2>1. ASSUME DnsInv, [Next]_<<subject, udpVars, dnsVars>>,
               NEW c \in Callers, call[c].at = "idle", call'[c].res = "cached"
        PROVE  Tells(c)
    BY <2>1, DnsHands DEF Next
  <2> QED
    BY <2>1
<1> QED
  BY <1>1, NetworkStep, PTL DEF Spec, HitsAge, Dns!HitsAge, Tells
=============================================================================
