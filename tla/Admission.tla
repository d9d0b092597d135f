----------------------------- MODULE Admission -----------------------------
(***************************************************************************)
(* The session budgets of one configured server: policy.Limiter counts all *)
(* sessions, policy.IPLimiter those of each client address, and both are   *)
(* shared by the SOCKS5 accept loop, the HTTP handlers and the generations *)
(* of a hot reload (internal/policy/access.go, socks5/server.go,           *)
(* httpproxy/server.go, manager.go setMax).                                *)
(*                                                                         *)
(* Each Acquire and each release is one step under the limiter's mutex.    *)
(* The budgets of UDP associations are a second pair of the same objects,  *)
(* taken and given back in the same order as those of an HTTP request.     *)
(***************************************************************************)
EXTENDS Integers, FiniteSets

CONSTANTS
  Sessions,    \* connections and requests
  Clients,     \* their source addresses
  Loops,       \* the SOCKS5 accept loops of the generations
  Ceilings     \* values of max_connections and max_connections_per_ip; 0: no limit

ASSUME AdmissionAssumption ==
  IsFiniteSet(Sessions) /\ Clients # {} /\ Ceilings \subseteq Nat /\ Ceilings # {}

VARIABLES
  ceiling,     \* Limiter.max
  ipCeiling,   \* IPLimiter.max
  active,      \* Limiter.active
  counts,      \* IPLimiter.counts
  at,          \* how far each session is
  client,      \* its source address
  via,         \* the accept loop it came through, or HTTP
  stopped,     \* loops of servers that refuse: acceptingStopped or closing
  pending      \* the per-address ceiling that setMax has yet to apply, or None

limits == <<ceiling, ipCeiling, pending>>
vars == <<limits, active, counts, at, client, via, stopped>>

None == -1
HTTP == "http"
ASSUME LoopsAssumption == HTTP \notin Loops

Away == "away"
At   == {Away, "arrived", "counted", "admitted", "served", "refused",
         "over", "dropped"}

TypeOK ==
  /\ ceiling \in Ceilings /\ ipCeiling \in Ceilings
  /\ active \in Nat
  /\ counts \in [Clients -> Nat]
  /\ at \in [Sessions -> At]
  /\ client \in [Sessions -> Clients]
  /\ via \in [Sessions -> Loops \cup {HTTP}]
  /\ stopped \subseteq Loops
  /\ pending \in Ceilings \cup {None}

\* Who has acquired a slot and not released it
Holders    == {s \in Sessions : at[s] \in {"admitted", "served", "refused"}}
HoldersOf(c) ==
  {s \in Sessions : client[s] = c
                    /\ at[s] \in {"counted", "admitted", "served", "over", "dropped"}}

Moves(s, l) == at' = [at EXCEPT ![s] = l]

-----------------------------------------------------------------------------
\* An accept loop handles one connection after the other.
Busy(l) ==
  \E t \in Sessions : via[t] = l /\ at[t] \in {"arrived", "counted", "admitted", "refused", "over"}

Arrives(s) ==
  /\ at[s] = Away
  /\ \E l \in Loops \cup {HTTP} :
       /\ l # HTTP => ~Busy(l) /\ l \notin stopped
       /\ via' = [via EXCEPT ![s] = l]
  /\ \E c \in Clients : client' = [client EXCEPT ![s] = c]
  /\ Moves(s, "arrived")
  /\ UNCHANGED <<limits, active, counts, stopped>>

\* IPLimiter.Acquire
AcquireClient(s) ==
  LET c == client[s] IN
  /\ at[s] = "arrived"
  /\ IF ipCeiling > 0 /\ counts[c] >= ipCeiling
     THEN Moves(s, Away) /\ UNCHANGED counts
     ELSE Moves(s, "counted") /\ counts' = [counts EXCEPT ![c] = @ + 1]
  /\ UNCHANGED <<limits, active, client, via, stopped>>

\* Fault: one session more than the ceiling
AcquireOneMore(s) ==
  /\ at[s] = "counted"
  /\ IF ceiling > 0 /\ active > ceiling
     THEN Moves(s, "over") /\ UNCHANGED active
     ELSE Moves(s, "admitted") /\ active' = active + 1
  /\ UNCHANGED <<limits, counts, client, via, stopped>>

\* Limiter.Acquire
AcquireCapacity(s) ==
  /\ at[s] = "counted"
  /\ IF ceiling > 0 /\ active >= ceiling
     THEN Moves(s, "over") /\ UNCHANGED active
     ELSE Moves(s, "admitted") /\ active' = active + 1
  /\ UNCHANGED <<limits, counts, client, via, stopped>>

\* Fault: the first release forgets the address
ReleasedForgets(c) == [counts EXCEPT ![c] = 0]

\* What a release does to the count of an address
Released(c) == [counts EXCEPT ![c] = IF @ <= 1 THEN 0 ELSE @ - 1]

\* Fault: the address keeps its slot
StartKeepsClient(s) ==
  /\ at[s] = "admitted"
  /\ Moves(s, IF via[s] \in stopped THEN "refused" ELSE "served")
  /\ UNCHANGED <<limits, active, counts, client, via, stopped>>

\* A SOCKS5 session is registered unless the server has stopped accepting, and
\* then gives the slot of its address back first; a request is served.
Start(s) ==
  /\ at[s] = "admitted"
  /\ IF via[s] \in stopped
     THEN Moves(s, "refused") /\ counts' = Released(client[s])
     ELSE Moves(s, "served") /\ UNCHANGED counts
  /\ UNCHANGED <<limits, active, client, via, stopped>>

\* The session is over and has given its slot of the total back
End(s) ==
  /\ at[s] \in {"served", "refused"}
  /\ active' = active - 1
  /\ Moves(s, IF at[s] = "served" THEN "dropped" ELSE Away)
  /\ UNCHANGED <<limits, counts, client, via, stopped>>

\* releaseClient
ReleaseClient(s) ==
  /\ at[s] \in {"over", "dropped"}
  /\ counts' = Released(client[s])
  /\ Moves(s, Away)
  /\ UNCHANGED <<limits, active, client, via, stopped>>

-----------------------------------------------------------------------------
(* setMax of a new generation: the total first, then the addresses         *)

sessionRest == <<active, counts, at, client, via, stopped>>

SetMax ==
  /\ pending = None
  /\ ceiling' \in Ceilings
  /\ pending' \in Ceilings
  /\ UNCHANGED <<ipCeiling, sessionRest>>

SetClientMax ==
  /\ pending # None
  /\ ipCeiling' = pending
  /\ pending' = None
  /\ UNCHANGED <<ceiling, sessionRest>>

\* StopAccepting of a generation that is replaced, or the end of its server
StopAccepting ==
  /\ \E l \in Loops : stopped' = stopped \cup {l}
  /\ UNCHANGED <<limits, active, counts, at, client, via>>

-----------------------------------------------------------------------------
Init ==
  /\ ceiling \in Ceilings /\ ipCeiling \in Ceilings /\ pending = None
  /\ active = 0 /\ counts = [c \in Clients |-> 0]
  /\ at = [s \in Sessions |-> Away]
  /\ client \in [Sessions -> Clients]
  /\ via = [s \in Sessions |-> HTTP] /\ stopped = {}

Session(s) ==
  \/ Arrives(s) \/ AcquireClient(s) \/ AcquireCapacity(s) \/ Start(s) \/ End(s)
  \/ ReleaseClient(s)

Next == (\E s \in Sessions : Session(s)) \/ SetMax \/ SetClientMax \/ StopAccepting

Spec == Init /\ [][Next]_vars

-----------------------------------------------------------------------------
\* Whatever path a session takes through admission, refusal and its end, the
\* counters are the numbers of sessions that hold a slot (access.go:173-192,
\* 210-242): no path leaks a slot or gives one back twice.
Exact ==
  /\ active = Cardinality(Holders)
  /\ \A c \in Clients : counts[c] = Cardinality(HoldersOf(c))

Total == INSTANCE Budget WITH holders <- Holders

\* The total is a budget: when a session is admitted, those that hold a slot,
\* whichever listener or generation they came through, are below the ceiling in
\* force (access.go:194-196).
TotalBudget == Total!Spec

\* So is the budget of each client address: nobody is counted against a ceiling
\* already reached (access.go:210-226).
ClientBudget ==
  [][\A s \in Sessions, c \in Clients :
       s \in HoldersOf(c)' /\ s \notin HoldersOf(c) /\ ipCeiling > 0 =>
         Cardinality(HoldersOf(c)') <= ipCeiling]_vars

=============================================================================
