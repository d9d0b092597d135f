------------------------------ MODULE DnsCache ------------------------------
(***************************************************************************)
(* The DoH resolver of one server (internal/socks5/doh_cache.go, doh.go):  *)
(* a cache bounded in entries and bytes, one flight for concurrent misses  *)
(* of the same question, and the race of the configured providers.         *)
(*                                                                         *)
(* A key stands for what dnsCacheKey makes of a query with one question.   *)
(* Of a response only its size and its lifetime matter.                    *)
(***************************************************************************)
EXTENDS Integers, FiniteSets, Functions

CONSTANTS
  Keys, Callers, Providers,
  MaxEntries, MaxBytes,  \* maxDNSCacheEntries, maxDNSCacheBytes
  Second,                \* the ticks of the clock in a second: lifetimes are in seconds
  MaxTTL, MaxSize,       \* bounds: the lifetime and the size of a response
  MaxTime                \* bound: the clock

DnsAssumption ==
  /\ MaxEntries \in Nat \ {0} /\ MaxBytes \in Nat /\ Second \in Nat \ {0}
  /\ MaxTTL \in Nat /\ MaxSize \in Nat \ {0} /\ MaxTime \in Nat

Nobody == "nobody"
NobodyAssumption == Nobody \notin Callers

VARIABLES
  now,
  cache, cacheBytes,
  inflight,   \* the caller that leads the flight of each key, or Nobody
  call,       \* what each caller does: [at, key, res, until]
  ctxDone,    \* callers whose context is done: timeout, cancellation, shutdown
  race,       \* of a leader: what it knows of each provider
  closing,    \* progress of resolverClose
  due,        \* observer: until when the last stored answer of a key is good
  blame       \* observer: callers failed by a context other than their own

callVars == <<call, race>>
vars == <<now, cache, cacheBytes, inflight, callVars, ctxDone, closing, due, blame>>

NoEntry == [size |-> 0, ttl |-> 0, expires |-> 0]
\* The instant at which a lifetime that begins now ends
End(ttl) == now + ttl * Second
Horizon == 0..(MaxTime + MaxTTL * Second)
Idle    == [at |-> "idle", key |-> CHOOSE k \in Keys : TRUE, res |-> "none",
            since |-> 0, until |-> 0]
Unasked == [p \in Providers |-> "none"]

Cached == {k \in Keys : cache[k] # NoEntry}
BytesOf(c, S) == SumFunctionOnSet([k \in Keys |-> c[k].size], S)

\* res: what a call has got: an answer of the cache or of a flight, the error of a
\* race that failed, or the error of a context
TypeOK ==
  /\ now \in 0..MaxTime
  /\ cache \in [Keys -> [size : 0..MaxSize, ttl : 0..MaxTTL, expires : Horizon]]
  /\ cacheBytes \in Nat
  /\ inflight \in [Keys -> Callers \cup {Nobody}]
  /\ call \in [Callers -> [at : {"idle", "race", "end", "wait", "done"}, key : Keys,
                           res : {"none", "cached", "flown", "failed", "ctx"},
                           since : 0..MaxTime, until : Horizon]]
  /\ ctxDone \subseteq Callers
  /\ race \in [Callers -> [Providers -> {"none", "asked", "good", "bad", "seen"}]]
  /\ closing \in {"open", "cancelled", "cleared"}
  /\ due \in [Keys -> Horizon]
  /\ blame \subseteq Callers

-----------------------------------------------------------------------------
\* cachedQuery before it unlocks: a hit, a flight to wait for, or a new flight

askRest == <<now, ctxDone, closing, blame>>

\* Fault: a hit keeps the lifetimes of the stored response
HitUnaged(c, k) ==
  /\ now < cache[k].expires
  /\ call' = [call EXCEPT ![c] = [at |-> "done", key |-> k, res |-> "cached",
                                  since |-> now, until |-> End(cache[k].ttl)]]
  /\ UNCHANGED <<askRest, cache, cacheBytes, inflight, race, due>>

\* ageDNSResponse takes the whole seconds since the answer was stored off its lifetime
Hit(c, k) ==
  /\ now < cache[k].expires
  /\ LET storedAt == cache[k].expires - cache[k].ttl * Second
         seconds  == (now - storedAt) \div Second
     IN call' = [call EXCEPT ![c] =
                  [at |-> "done", key |-> k, res |-> "cached", since |-> now,
                   until |-> End(cache[k].ttl - seconds)]]
  /\ UNCHANGED <<askRest, cache, cacheBytes, inflight, race, due>>

\* A hit on an expired entry removes it
Expire(k) ==
  IF k \in Cached
  THEN /\ cache' = [cache EXCEPT ![k] = NoEntry]
       /\ cacheBytes' = cacheBytes - cache[k].size
  ELSE UNCHANGED <<cache, cacheBytes>>

Join(c, k) ==
  /\ now >= cache[k].expires /\ inflight[k] # Nobody
  /\ Expire(k)
  /\ call' = [call EXCEPT ![c] = [at |-> "wait", key |-> k, res |-> "none",
                                  since |-> now, until |-> 0]]
  /\ UNCHANGED <<askRest, inflight, race, due>>

\* Fault: a miss asks the providers itself, whoever asks them already
LeadAlways(c, k) ==
  /\ now >= cache[k].expires
  /\ Expire(k)
  /\ inflight' = [inflight EXCEPT ![k] = c]
  /\ call' = [call EXCEPT ![c] = [at |-> "race", key |-> k, res |-> "none",
                                  since |-> now, until |-> 0]]
  /\ race' = [race EXCEPT ![c] = [p \in Providers |-> "asked"]]
  /\ UNCHANGED <<askRest, due>>

\* The flight is registered; raceProviders starts one goroutine per provider
Lead(c, k) ==
  /\ now >= cache[k].expires /\ inflight[k] = Nobody
  /\ Expire(k)
  /\ inflight' = [inflight EXCEPT ![k] = c]
  /\ call' = [call EXCEPT ![c] = [at |-> "race", key |-> k, res |-> "none",
                                  since |-> now, until |-> 0]]
  /\ race' = [race EXCEPT ![c] = [p \in Providers |-> "asked"]]
  /\ UNCHANGED <<askRest, due>>

Ask(c, k) ==
  /\ call[c].at = "idle"
  /\ Hit(c, k) \/ Join(c, k) \/ Lead(c, k)

-----------------------------------------------------------------------------
(* The race of the providers                                               *)

raceRest == <<now, cache, cacheBytes, inflight, ctxDone, closing, due, blame>>

\* queryProvider: a validated answer, or failures of all its upstreams
ProviderReturns(c, p) ==
  /\ call[c].at = "race" /\ race[c][p] = "asked"
  /\ \E r \in {"good", "bad"} :
       race' = [race EXCEPT ![c] = [@ EXCEPT ![p] = r]]
  /\ UNCHANGED <<call, raceRest>>

RaceEnds(c, res) == call' = [call EXCEPT ![c] = [@ EXCEPT !.at = "end", !.res = res]]

\* raceProviders takes the results one by one: an answer wins, a failure is noted
TakeResult(c) ==
  /\ call[c].at = "race"
  /\ \E p \in Providers :
       /\ race[c][p] \in {"good", "bad"}
       /\ race' = [race EXCEPT ![c] = [@ EXCEPT ![p] = "seen"]]
       /\ IF race[c][p] = "good" THEN RaceEnds(c, "flown")
          ELSE IF \A q \in Providers \ {p} : race[c][q] = "seen"
          THEN RaceEnds(c, "failed") ELSE UNCHANGED call
  /\ UNCHANGED raceRest

RaceCancelled(c) ==
  /\ call[c].at = "race" /\ c \in ctxDone
  /\ RaceEnds(c, "ctx")
  /\ UNCHANGED <<race, raceRest>>

-----------------------------------------------------------------------------
(* The end of a flight                                                     *)

\* What storeCacheEntry evicts from the live entries: those that expire first, as
\* many as it takes to fit one more of this size
Evictions(live, size) ==
  LET Fits(S) == Cardinality(S) < MaxEntries /\ BytesOf(cache, S) + size <= MaxBytes
  IN {V \in SUBSET live :
        /\ \A v \in V, u \in live \ V : cache[v].expires <= cache[u].expires
        /\ Fits(live \ V)
        /\ V # {} => \E v \in V : /\ \A u \in V : cache[u].expires <= cache[v].expires
                                  /\ ~Fits((live \ V) \cup {v})}

\* Fault: the entries that make room are not subtracted
StoreLeaks(k, ttl, size) ==
  LET live == {j \in Cached : now < cache[j].expires} IN
  IF ttl = 0 \/ size > MaxBytes
  THEN UNCHANGED <<cache, cacheBytes>> /\ due' = [due EXCEPT ![k] = 0]
  ELSE \E V \in Evictions(live, size) :
         /\ cache' = [j \in Keys |->
              IF j = k THEN [size |-> size, ttl |-> ttl, expires |-> End(ttl)]
              ELSE IF j \in live \ V THEN cache[j] ELSE NoEntry]
         /\ cacheBytes' = cacheBytes - BytesOf(cache, Cached \ live) + size
         /\ due' = [j \in Keys |-> IF j = k THEN End(ttl)
                                   ELSE IF j \in V THEN 0 ELSE due[j]]

\* storeCacheEntry
Store(k, ttl, size) ==
  LET live == {j \in Cached : now < cache[j].expires} IN
  IF ttl = 0 \/ size > MaxBytes
  THEN UNCHANGED <<cache, cacheBytes>> /\ due' = [due EXCEPT ![k] = 0]
  ELSE \E V \in Evictions(live, size) :
         /\ cache' = [j \in Keys |->
              IF j = k THEN [size |-> size, ttl |-> ttl, expires |-> End(ttl)]
              ELSE IF j \in live \ V THEN cache[j] ELSE NoEntry]
         /\ cacheBytes' = cacheBytes - BytesOf(cache, Cached \ (live \ V)) + size
         /\ due' = [j \in Keys |-> IF j = k THEN End(ttl)
                                   ELSE IF j \in V THEN 0 ELSE due[j]]

Followers(c) == {d \in Callers : call[d].at = "wait" /\ call[d].key = call[c].key
                                 /\ call[d].res = "none"}

Result(c, ttl) ==
  call' = [d \in Callers |->
    IF d = c THEN [call[c] EXCEPT !.at = "done", !.until = End(ttl)]
    ELSE IF d \in Followers(c)
    THEN [call[d] EXCEPT !.res = call[c].res, !.until = End(ttl)]
    ELSE call[d]]

endRest == <<now, ctxDone, closing>>

\* Fault: the channel is closed only when there is an answer
FailureNotTold(c) ==
  /\ call[c].at = "end" /\ call[c].res # "flown"
  /\ call' = [call EXCEPT ![c] = [@ EXCEPT !.at = "done"]]
  /\ inflight' = [inflight EXCEPT ![call[c].key] = Nobody]
  /\ race' = [race EXCEPT ![c] = Unasked]
  /\ UNCHANGED <<endRest, blame, cache, cacheBytes, due>>

\* The leader stores the answer, removes the flight and closes its channel, under
\* the lock
FlightFails(c) ==
  /\ call[c].at = "end" /\ call[c].res # "flown"
  /\ Result(c, 0)
  /\ inflight' = [inflight EXCEPT ![call[c].key] = Nobody]
  /\ race' = [race EXCEPT ![c] = Unasked]
  /\ blame' = IF call[c].res = "ctx" THEN blame \cup (Followers(c) \ ctxDone) ELSE blame
  /\ UNCHANGED <<endRest, cache, cacheBytes, due>>

FlightLands(c) ==
  /\ call[c].at = "end" /\ call[c].res = "flown"
  /\ \E ttl \in 0..MaxTTL, size \in 1..MaxSize :
       Store(call[c].key, ttl, size) /\ Result(c, ttl)
  /\ inflight' = [inflight EXCEPT ![call[c].key] = Nobody]
  /\ race' = [race EXCEPT ![c] = Unasked]
  /\ UNCHANGED <<endRest, blame>>

Lookup(c) ==
  \/ \E p \in Providers : ProviderReturns(c, p)
  \/ TakeResult(c) \/ RaceCancelled(c) \/ FlightFails(c) \/ FlightLands(c)

-----------------------------------------------------------------------------
(* Waiting, returning, time and the shutdown                               *)

waitRest == <<now, cache, cacheBytes, inflight, race, closing, due>>

WaitEnds(c) ==
  /\ call[c].at = "wait"
  /\ \/ /\ call[c].res # "none"
        /\ call' = [call EXCEPT ![c] = [@ EXCEPT !.at = "done"]]
        /\ UNCHANGED blame
     \/ /\ c \in ctxDone
        /\ call' = [call EXCEPT ![c] =
              [@ EXCEPT !.at = "done", !.res = "ctx", !.until = 0]]
        /\ blame' = blame \ {c}
  /\ UNCHANGED <<waitRest, ctxDone>>

\* After a shutdown only the contexts of the sessions are left, which end too
Return(c) ==
  /\ call[c].at = "done"
  /\ call' = [call EXCEPT ![c] = Idle]
  /\ ctxDone' = IF closing = "open" THEN ctxDone \ {c} ELSE ctxDone
  /\ blame' = blame \ {c}
  /\ UNCHANGED waitRest

\* A lookup is cancelled or its timeout passes
Cancel(c) ==
  /\ call[c].at \in {"race", "wait"} /\ c \notin ctxDone
  /\ ctxDone' = ctxDone \cup {c}
  /\ UNCHANGED <<call, blame, waitRest>>

\* resolverClose: doh.cancel, then the cache is cleared under the lock
CloseCancels ==
  /\ closing = "open"
  /\ closing' = "cancelled"
  /\ ctxDone' = Callers
  /\ UNCHANGED <<now, cache, cacheBytes, inflight, callVars, due, blame>>

CloseClears ==
  /\ closing = "cancelled"
  /\ closing' = "cleared"
  /\ cache' = [k \in Keys |-> NoEntry] /\ cacheBytes' = 0
  /\ due' = [k \in Keys |-> 0]
  /\ UNCHANGED <<now, inflight, callVars, ctxDone, blame>>

Tick ==
  /\ now < MaxTime
  /\ now' = now + 1
  /\ UNCHANGED <<cache, cacheBytes, inflight, callVars, ctxDone, closing, due, blame>>

-----------------------------------------------------------------------------
Init ==
  /\ now = 0
  /\ cache = [k \in Keys |-> NoEntry] /\ cacheBytes = 0
  /\ inflight = [k \in Keys |-> Nobody]
  /\ call = [c \in Callers |-> Idle]
  /\ race = [c \in Callers |-> Unasked]
  /\ ctxDone = {} /\ closing = "open"
  /\ due = [k \in Keys |-> 0] /\ blame = {}

Next ==
  \/ \E c \in Callers :
       \/ \E k \in Keys : Ask(c, k)
       \/ Lookup(c) \/ WaitEnds(c) \/ Return(c) \/ Cancel(c)
  \/ CloseCancels \/ CloseClears \/ Tick

Spec == Init /\ [][Next]_vars

-----------------------------------------------------------------------------
\* cacheBytes is exactly what the entries hold, within both limits, although two
\* steps apart from each other subtract, evict and add (doh_cache.go:63, 102-138).
BytesExact ==
  /\ cacheBytes = BytesOf(cache, Cached)
  /\ cacheBytes <= MaxBytes /\ Cardinality(Cached) <= MaxEntries

\* Concurrent misses of one question are one race of the providers, the flight that
\* later callers find is that race, and none is started while an answer is good and
\* has not been evicted or cleared (README.md:401).
OneRace ==
  \A c \in Callers :
    call[c].at \in {"race", "end"}
      => /\ inflight[call[c].key] = c
         /\ call[c].since >= due[call[c].key]

\* However often and whenever a cached answer is handed out, it is said to be good as long
\* as it is kept and for less than a second longer, by as much as the seconds that have
\* passed are rounded down (doh_cache.go:277, against the exact time of 59 and 128).
HitsAge ==
  [][\A c \in Callers :
       call[c].at = "idle" /\ call'[c].res = "cached"
         => LET end == due[call'[c].key]
            IN end <= call'[c].until /\ call'[c].until < end + Second]_vars

\* A lookup that waits for another's is never left alone: as long as it has no
\* result, the caller it follows is under way and will bring one, whatever became
\* of its race (doh_cache.go:66-98).
FollowersLed ==
  \A c \in Callers :
    call[c].at = "wait" /\ call[c].res = "none" =>
      LET leader == inflight[call[c].key] IN
      leader # Nobody /\ call[leader].at \in {"race", "end"} /\ call[leader].key = call[c].key

\* The cancellation that ends a lookup is that of its own caller or of the server
\* (doh.go:449-450).  It does not hold: followers get that of their leader.
OwnCancellation == blame = {}

=============================================================================
