----------------------------- MODULE MCNetwork ------------------------------
(* What a server's datagrams need, for TLC: the UDP association and the      *)
(* cache of the DoH resolver.  They share no state, so that a behaviour is   *)
(* one of one of them: subject says which, and the variables of the other    *)
(* keep their initial values.                                                *)
EXTENDS Naturals, TLC

CONSTANTS
  Targets, IPv6Targets, Sources, Workers, QueueCap, MaxTargets, TTL, IdleTime, MaxTime,
  MaxDatagrams,
  Keys, Callers, Providers, MaxEntries, MaxBytes, Second, MaxTTL, MaxSize, MaxDnsTime

VARIABLES
  subject,
  chained, now, ctxDone, phase, after, clientAt, clientOpen, queue, worker, sock, reader,
  committed, pending, last, received, uploaded, dropped, owed, lost,
  dnsNow, cache, cacheBytes, inflight, call, dnsCtxDone, race, closing, due, blame

Udp == INSTANCE UdpAssociation WITH Idle <- IdleTime
Dns == INSTANCE DnsCache WITH now <- dnsNow, ctxDone <- dnsCtxDone, MaxTime <- MaxDnsTime

ASSUME NetworkAssumption ==
  /\ Udp!UdpAssumption /\ Udp!NobodyAssumption
  /\ Dns!DnsAssumption /\ Dns!NobodyAssumption

\* The callers of the cache have the names of the workers, so that one swap renames both
Symmetric == Permutations(Workers)

udpVars == <<chained, now, ctxDone, phase, after, clientAt, clientOpen, queue, worker,
             sock, reader, committed, pending, last, received, uploaded, dropped, owed,
             lost>>
dnsVars == <<dnsNow, cache, cacheBytes, inflight, call, dnsCtxDone, race, closing, due,
             blame>>

Init ==
  /\ subject \in {"udp", "dns"} /\ Udp!Init /\ Dns!Init
  /\ subject = "dns" => ~chained      \* one initial state is enough of what does not move

Next ==
  \/ subject = "udp" /\ Udp!Next /\ UNCHANGED <<subject, dnsVars>>
  \/ subject = "dns" /\ Dns!Next /\ UNCHANGED <<subject, udpVars>>

Spec == Init /\ [][Next]_<<subject, udpVars, dnsVars>>

\* Bound: the resolver is closed before the last instant
ClosedInTime == closing # "open" => dnsNow < MaxDnsTime

-----------------------------------------------------------------------------
(* The properties of the components, see there *)

\* The targets whose responses pass are those a datagram was sent to less than a TTL
\* ago, whatever was evicted or failed meanwhile (udp.go:884-980), and no datagram of
\* the client is lost without being counted (udp.go:595-682).
Exact == subject = "udp" => Udp!GrantsExact /\ Udp!Accounted

\* Nothing is left after the shutdown, and the shutdown never waits for something that
\* cannot come (udp.go:534-570, 1011-1026).
EndsCleanly == subject = "udp" => Udp!NothingLeft /\ Udp!NeverStuck

\* Whose turn it is, is what the actions say.
TurnsExact == subject = "udp" => Udp!TurnsExact

\* The bytes of the cache are those of its entries; there is one race for a question, and
\* whoever waits for it has somebody who will wake him (doh_cache.go:51-140).
CacheSound == subject = "dns" => Dns!BytesExact /\ Dns!OneRace /\ Dns!FollowersLed

\* A cached answer is said to be good to the second for as long as it is kept
\* (doh_cache.go:271-291).
HitsAge == Dns!HitsAge
=============================================================================
