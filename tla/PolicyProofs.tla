---------------------------- MODULE PolicyProofs ----------------------------
(***************************************************************************)
(* Proofs about the policy package.                                        *)
(*                                                                         *)
(* Admission, for every finite set of sessions, every set of addresses and *)
(* all ceilings: its type invariant, that the counters are exact, that the *)
(* total implements Budget, and that the ceiling of an address is kept.    *)
(*                                                                         *)
(* AccessRules, for every set of targets, number of ports and length of    *)
(* the rule list.  The argument for AnyPortExact: let p be any port and q  *)
(* the greatest candidate that is not above p.  A range that starts at or  *)
(* below p starts at or below q, because its start is a candidate; a range *)
(* that ends below p ends below q, because the port behind it is one.  So  *)
(* the same rules match p and q, and the first of them decides alike.      *)
(***************************************************************************)
EXTENDS Admission, AccessRules, FiniteSetTheorems, SumTheorems, TLAPS

BudgetInv == TypeOK /\ Exact

-----------------------------------------------------------------------------
(* The sets of holders                                                     *)

\* The holders are finite sets, counted by natural numbers.
LEMMA HoldersFinite ==
  /\ IsFiniteSet(Holders) /\ Cardinality(Holders) \in Nat
  /\ \A c \in Clients : IsFiniteSet(HoldersOf(c)) /\ Cardinality(HoldersOf(c)) \in Nat
<1>1. Holders \in SUBSET Sessions /\ \A c \in Clients : HoldersOf(c) \in SUBSET Sessions
  BY DEF Holders, HoldersOf
<1> QED
  BY <1>1, FS_Subset, FS_CardinalityType, AdmissionAssumption

\* A session that moves and keeps its address enters or leaves the sets of
\* holders as its new place says; nobody else is affected.
LEMMA HoldersMove ==
  ASSUME TypeOK, NEW s \in Sessions, NEW l, Moves(s, l), UNCHANGED client
  PROVE  /\ Holders' = IF l \in {"admitted", "served", "refused"}
                       THEN Holders \cup {s} ELSE Holders \ {s}
         /\ \A c \in Clients :
              HoldersOf(c)' =
                IF client[s] = c /\ l \in {"counted", "admitted", "served", "over", "dropped"}
                THEN HoldersOf(c) \cup {s} ELSE HoldersOf(c) \ {s}
BY DEF TypeOK, Moves, Holders, HoldersOf

\* As long as the sessions stay where they are, so do the holders.
LEMMA HoldersStay ==
  ASSUME UNCHANGED <<at, client>>
  PROVE  Holders' = Holders /\ \A c \in Clients : HoldersOf(c)' = HoldersOf(c)
BY DEF Holders, HoldersOf

\* The number of holders grows or shrinks by the session that moves.
LEMMA Counting ==
  ASSUME NEW S, IsFiniteSet(S), NEW s
  PROVE  /\ s \notin S => /\ Cardinality(S \cup {s}) = Cardinality(S) + 1
                          /\ S \ {s} = S
         /\ s \in S    => /\ Cardinality(S \ {s}) = Cardinality(S) - 1
                          /\ S \cup {s} = S
BY FS_AddElement, FS_RemoveElement

\* Giving a slot back that is held lowers the count of the address by one.
LEMMA ReleasedCount ==
  ASSUME BudgetInv, NEW c \in Clients, NEW s \in HoldersOf(c)
  PROVE  /\ Released(c) = [counts EXCEPT ![c] = counts[c] - 1]
         /\ counts[c] - 1 = Cardinality(HoldersOf(c) \ {s})
         /\ counts[c] - 1 \in Nat
<1>1. /\ IsFiniteSet(HoldersOf(c)) /\ counts[c] = Cardinality(HoldersOf(c))
      /\ counts[c] \in Nat
  BY HoldersFinite DEF BudgetInv, Exact, TypeOK
<1>2. IsFiniteSet(HoldersOf(c) \ {s})
  BY <1>1, FS_RemoveElement
<1>3. Cardinality(HoldersOf(c) \ {s}) = counts[c] - 1
  BY <1>1, Counting
<1>4. counts[c] - 1 \in Nat
  BY <1>2, <1>3, FS_CardinalityType
<1>5. counts[c] >= 1 /\ (counts[c] <= 1 => counts[c] - 1 = 0)
  BY <1>1, <1>4
<1> QED
  BY <1>3, <1>4, <1>5 DEF Released

-----------------------------------------------------------------------------
(* The invariant                                                           *)

\* No session holds a slot at the start.
LEMMA BudgetInit == Init => BudgetInv
<1> SUFFICES ASSUME Init PROVE BudgetInv
  OBVIOUS
<1>1. TypeOK
  BY DEF Init, TypeOK, Away, At, None
<1>2. Holders = {} /\ \A c \in Clients : HoldersOf(c) = {}
  BY DEF Init, Holders, HoldersOf, Away
<1> QED
  BY <1>1, <1>2, FS_EmptySet DEF Init, BudgetInv, Exact

\* Every step of a session, of setMax and of StopAccepting keeps the types and
\* the counts.
LEMMA BudgetStep == BudgetInv /\ [Next]_vars => BudgetInv'
<1> SUFFICES ASSUME BudgetInv, [Next]_vars PROVE BudgetInv'
  OBVIOUS
<1>t. TypeOK /\ Exact
  BY DEF BudgetInv
<1>f. /\ IsFiniteSet(Holders) /\ \A c \in Clients : IsFiniteSet(HoldersOf(c))
  BY HoldersFinite
<1>1. ASSUME NEW s \in Sessions, Arrives(s) PROVE BudgetInv'
  <2>1. PICK c \in Clients : client' = [client EXCEPT ![s] = c]
    BY <1>1 DEF Arrives
  <2>2. PICK l \in Loops \cup {HTTP} : via' = [via EXCEPT ![s] = l]
    BY <1>1 DEF Arrives
  <2>3. TypeOK'
    BY <1>1, <1>t, <2>1, <2>2 DEF Arrives, TypeOK, Moves, At, limits
  <2>4. Holders' = Holders /\ \A d \in Clients : HoldersOf(d)' = HoldersOf(d)
    BY <1>1, <1>t, <2>1 DEF Arrives, TypeOK, Moves, Holders, HoldersOf, Away
  <2> QED
    BY <1>1, <1>t, <2>3, <2>4 DEF BudgetInv, Exact, Arrives
<1>2. ASSUME NEW s \in Sessions, AcquireClient(s) PROVE BudgetInv'
  <2>0. client[s] \in Clients /\ UNCHANGED client
    BY <1>2, <1>t DEF TypeOK, AcquireClient
  <2>1. s \notin Holders /\ \A d \in Clients : s \notin HoldersOf(d)
    BY <1>2 DEF AcquireClient, Holders, HoldersOf
  <2>2. CASE ipCeiling > 0 /\ counts[client[s]] >= ipCeiling
    <3>1. Moves(s, Away) /\ UNCHANGED counts
      BY <1>2, <2>2 DEF AcquireClient
    <3>2. TypeOK'
      BY <1>2, <1>t, <3>1 DEF AcquireClient, TypeOK, Moves, At, limits
    <3>3. Holders' = Holders /\ \A d \in Clients : HoldersOf(d)' = HoldersOf(d)
      BY SMTT(30), <1>t, <2>0, <2>1, <3>1, HoldersMove DEF Away
    <3> QED
      BY <1>2, <1>t, <3>1, <3>2, <3>3 DEF BudgetInv, Exact, AcquireClient
  <2>3. CASE ~(ipCeiling > 0 /\ counts[client[s]] >= ipCeiling)
    <3>1. Moves(s, "counted") /\ counts' = [counts EXCEPT ![client[s]] = @ + 1]
      BY <1>2, <2>3 DEF AcquireClient
    <3>2. TypeOK'
      BY <1>2, <1>t, <2>0, <3>1 DEF AcquireClient, TypeOK, Moves, At, limits
    <3>3. /\ Holders' = Holders
          /\ \A d \in Clients : HoldersOf(d)' = IF client[s] = d THEN HoldersOf(d) \cup {s}
                                                ELSE HoldersOf(d)
      <4>1. /\ Holders' = Holders \ {s}
            /\ \A d \in Clients : HoldersOf(d)' = IF client[s] = d THEN HoldersOf(d) \cup {s}
                                                  ELSE HoldersOf(d) \ {s}
        BY <1>t, <2>0, <3>1, HoldersMove
      <4> QED
        BY <2>1, <4>1
    <3>4. ASSUME NEW d \in Clients PROVE counts'[d] = Cardinality(HoldersOf(d)')
      BY <1>t, <1>f, <2>0, <2>1, <3>1, <3>3, Counting DEF TypeOK, Exact
    <3> QED
      BY <1>2, <1>t, <3>2, <3>3, <3>4 DEF BudgetInv, Exact, AcquireClient
  <2> QED
    BY <2>2, <2>3
<1>3. ASSUME NEW s \in Sessions, AcquireCapacity(s) PROVE BudgetInv'
  <2>0. UNCHANGED <<client, counts>>
    BY <1>3 DEF AcquireCapacity
  <2>1. s \notin Holders /\ s \in HoldersOf(client[s])
    BY <1>3 DEF AcquireCapacity, Holders, HoldersOf
  <2>2. CASE ceiling > 0 /\ active >= ceiling
    <3>1. Moves(s, "over") /\ UNCHANGED active
      BY <1>3, <2>2 DEF AcquireCapacity
    <3>2. TypeOK'
      BY <1>3, <1>t, <3>1 DEF AcquireCapacity, TypeOK, Moves, At, limits
    <3>3. Holders' = Holders /\ \A d \in Clients : HoldersOf(d)' = HoldersOf(d)
      <4>1. /\ Holders' = Holders \ {s}
            /\ \A d \in Clients : HoldersOf(d)' = IF client[s] = d THEN HoldersOf(d) \cup {s}
                                                  ELSE HoldersOf(d) \ {s}
        BY <1>t, <2>0, <3>1, HoldersMove
      <4> QED
        BY <2>1, <4>1 DEF HoldersOf
    <3> QED
      BY <1>t, <2>0, <3>1, <3>2, <3>3 DEF BudgetInv, Exact
  <2>3. CASE ~(ceiling > 0 /\ active >= ceiling)
    <3>1. Moves(s, "admitted") /\ active' = active + 1
      BY <1>3, <2>3 DEF AcquireCapacity
    <3>2. TypeOK'
      BY <1>3, <1>t, <3>1 DEF AcquireCapacity, TypeOK, Moves, At, limits
    <3>3. Holders' = Holders \cup {s} /\ \A d \in Clients : HoldersOf(d)' = HoldersOf(d)
      <4>1. /\ Holders' = Holders \cup {s}
            /\ \A d \in Clients : HoldersOf(d)' = IF client[s] = d THEN HoldersOf(d) \cup {s}
                                                  ELSE HoldersOf(d) \ {s}
        BY <1>t, <2>0, <3>1, HoldersMove
      <4> QED
        BY <2>1, <4>1 DEF HoldersOf
    <3>4. active' = Cardinality(Holders')
      BY <1>t, <1>f, <2>1, <3>1, <3>3, Counting DEF Exact
    <3> QED
      BY <1>t, <2>0, <3>2, <3>3, <3>4 DEF BudgetInv, Exact
  <2> QED
    BY <2>2, <2>3
<1>4. ASSUME NEW s \in Sessions, Start(s) PROVE BudgetInv'
  <2>0. UNCHANGED <<client, active>> /\ client[s] \in Clients
    BY <1>4, <1>t DEF Start, TypeOK
  <2>1. s \in Holders /\ s \in HoldersOf(client[s])
    BY <1>4 DEF Start, Holders, HoldersOf
  <2>2. CASE via[s] \in stopped
    <3>1. Moves(s, "refused") /\ counts' = Released(client[s])
      BY <1>4, <2>2 DEF Start
    <3>2. /\ counts' = [counts EXCEPT ![client[s]] = counts[client[s]] - 1]
          /\ counts[client[s]] - 1 = Cardinality(HoldersOf(client[s]) \ {s})
          /\ counts[client[s]] - 1 \in Nat
      BY <2>0, <2>1, <3>1, ReleasedCount
    <3>3. TypeOK'
      BY <1>4, <1>t, <2>0, <3>1, <3>2 DEF Start, TypeOK, Moves, At, limits
    <3>4. Holders' = Holders /\ \A d \in Clients : HoldersOf(d)' = HoldersOf(d) \ {s}
      BY <1>t, <2>0, <2>1, <3>1, HoldersMove
    <3>5. ASSUME NEW d \in Clients PROVE counts'[d] = Cardinality(HoldersOf(d)')
      <4>1. CASE d = client[s]
        BY <1>t, <3>2, <3>4, <4>1 DEF TypeOK
      <4>2. CASE d # client[s]
        <5>1. HoldersOf(d) \ {s} = HoldersOf(d)
          BY <4>2 DEF HoldersOf
        <5> QED
          BY <1>t, <3>2, <3>4, <4>2, <5>1 DEF Exact, TypeOK
      <4> QED
        BY <4>1, <4>2
    <3> QED
      BY <1>t, <2>0, <3>3, <3>4, <3>5 DEF BudgetInv, Exact
  <2>3. CASE via[s] \notin stopped
    <3>1. Moves(s, "served") /\ UNCHANGED counts
      BY <1>4, <2>3 DEF Start
    <3>2. TypeOK'
      BY <1>4, <1>t, <3>1 DEF Start, TypeOK, Moves, At, limits
    <3>3. Holders' = Holders /\ \A d \in Clients : HoldersOf(d)' = HoldersOf(d)
      <4>1. /\ Holders' = Holders \cup {s}
            /\ \A d \in Clients : HoldersOf(d)' = IF client[s] = d THEN HoldersOf(d) \cup {s}
                                                  ELSE HoldersOf(d) \ {s}
        BY <1>t, <2>0, <3>1, HoldersMove
      <4> QED
        BY <2>1, <4>1 DEF HoldersOf
    <3> QED
      BY <1>t, <2>0, <3>1, <3>2, <3>3 DEF BudgetInv, Exact
  <2> QED
    BY <2>2, <2>3
<1>5. ASSUME NEW s \in Sessions, End(s) PROVE BudgetInv'
  <2>0. UNCHANGED <<client, counts>> /\ active' = active - 1
    BY <1>5 DEF End
  <2>1. s \in Holders
    BY <1>5 DEF End, Holders
  <2>2. IsFiniteSet(Holders \ {s}) /\ active' = Cardinality(Holders \ {s})
    BY <1>t, <1>f, <2>0, <2>1, Counting, FS_RemoveElement DEF Exact
  <2>3. active' \in Nat
    BY <2>2, FS_CardinalityType
  <2>4. PICK l \in {"dropped", Away} : Moves(s, l) /\ (l = "dropped" <=> at[s] = "served")
    BY <1>5 DEF End, Away
  <2>5. TypeOK'
    BY <1>5, <1>t, <2>3, <2>4 DEF End, TypeOK, Moves, At, Away, limits
  <2>6. Holders' = Holders \ {s} /\ \A d \in Clients : HoldersOf(d)' = HoldersOf(d)
    <3>1. /\ Holders' = Holders \ {s}
          /\ \A d \in Clients :
               HoldersOf(d)' = IF client[s] = d /\ l = "dropped" THEN HoldersOf(d) \cup {s}
                               ELSE HoldersOf(d) \ {s}
      BY <1>t, <2>0, <2>4, HoldersMove DEF Away
    <3>2. at[s] = "refused" => \A d \in Clients : s \notin HoldersOf(d)
      BY DEF HoldersOf
    <3>3. at[s] = "served" => s \in HoldersOf(client[s])
      BY DEF HoldersOf
    <3>4. \A d \in Clients : d # client[s] => s \notin HoldersOf(d)
      BY DEF HoldersOf
    <3>5. at[s] \in {"served", "refused"}
      BY <1>5 DEF End
    <3> QED
      BY <2>4, <3>1, <3>2, <3>3, <3>4, <3>5
  <2> QED
    BY <1>t, <2>0, <2>2, <2>5, <2>6 DEF BudgetInv, Exact
<1>6. ASSUME NEW s \in Sessions, ReleaseClient(s) PROVE BudgetInv'
  <2>0. UNCHANGED <<client, active>> /\ client[s] \in Clients
    BY <1>6, <1>t DEF ReleaseClient, TypeOK
  <2>1. s \notin Holders /\ s \in HoldersOf(client[s])
    BY <1>6 DEF ReleaseClient, Holders, HoldersOf
  <2>2. Moves(s, Away) /\ counts' = Released(client[s])
    BY <1>6 DEF ReleaseClient
  <2>3. /\ counts' = [counts EXCEPT ![client[s]] = counts[client[s]] - 1]
        /\ counts[client[s]] - 1 = Cardinality(HoldersOf(client[s]) \ {s})
        /\ counts[client[s]] - 1 \in Nat
    BY <2>0, <2>1, <2>2, ReleasedCount
  <2>4. TypeOK'
    BY <1>6, <1>t, <2>0, <2>2, <2>3 DEF ReleaseClient, TypeOK, Moves, At, limits
  <2>5. Holders' = Holders /\ \A d \in Clients : HoldersOf(d)' = HoldersOf(d) \ {s}
    BY <1>t, <2>0, <2>1, <2>2, HoldersMove DEF Away
  <2>6. ASSUME NEW d \in Clients PROVE counts'[d] = Cardinality(HoldersOf(d)')
    <3>1. CASE d = client[s]
      BY <1>t, <2>3, <2>5, <3>1 DEF TypeOK
    <3>2. CASE d # client[s]
      <4>1. HoldersOf(d) \ {s} = HoldersOf(d)
        BY <3>2 DEF HoldersOf
      <4> QED
        BY <1>t, <2>3, <2>5, <3>2, <4>1 DEF Exact, TypeOK
    <3> QED
      BY <3>1, <3>2
  <2> QED
    BY <1>t, <2>0, <2>4, <2>5, <2>6 DEF BudgetInv, Exact
<1>7. CASE SetMax \/ SetClientMax \/ StopAccepting
  <2>1. UNCHANGED <<at, client, active, counts>>
    BY <1>7 DEF SetMax, SetClientMax, StopAccepting, sessionRest
  <2>2. CASE SetMax
    BY <1>t, <2>1, <2>2, HoldersStay DEF SetMax, sessionRest, TypeOK, BudgetInv, Exact
  <2>3. CASE SetClientMax
    BY <1>t, <2>1, <2>3, HoldersStay DEF SetClientMax, sessionRest, TypeOK, BudgetInv, Exact
  <2>4. CASE StopAccepting
    BY <1>t, <2>1, <2>4, HoldersStay DEF StopAccepting, limits, TypeOK, BudgetInv, Exact
  <2> QED
    BY <1>7, <2>2, <2>3, <2>4
<1>8. CASE UNCHANGED vars
  BY <1>t, <1>8, HoldersStay DEF vars, limits, TypeOK, BudgetInv, Exact
<1> QED
  BY <1>1, <1>2, <1>3, <1>4, <1>5, <1>6, <1>7, <1>8 DEF Next, Session

\* The counters never leave their types: no release lowers one below zero
\* (access.go:184-191, 228-240).
THEOREM BudgetTypeCorrect == Spec => []TypeOK
<1>1. BudgetInv => TypeOK
  BY DEF BudgetInv
<1> QED
  BY <1>1, BudgetInit, BudgetStep, PTL DEF Spec

\* For any number of sessions and addresses and every change of the ceilings,
\* the counters are the numbers of sessions that hold a slot.
THEOREM CountersExact == Spec => []Exact
<1>1. BudgetInv => Exact
  BY DEF BudgetInv
<1> QED
  BY <1>1, BudgetInit, BudgetStep, PTL DEF Spec

-----------------------------------------------------------------------------
(* The ceilings                                                            *)

\* The instance counts with the same operator.
LEMMA SameCardinality == \A S : Total!Cardinality(S) = Cardinality(S)
BY DEF Total!Cardinality, Cardinality

\* Every step is a step of the budget, or leaves its holders and ceiling alone.
LEMMA TotalStep ==
  ASSUME BudgetInv, [Next]_vars
  PROVE  [Total!Next]_<<Holders, ceiling>>
<1>t. TypeOK /\ Exact
  BY DEF BudgetInv
<1>1. ASSUME NEW s \in Sessions, AcquireCapacity(s) PROVE Total!Next \/ UNCHANGED <<Holders, ceiling>>
  <2>0. UNCHANGED <<client, ceiling>>
    BY <1>1 DEF AcquireCapacity, limits
  <2>1. s \notin Holders
    BY <1>1 DEF AcquireCapacity, Holders
  <2>2. CASE ceiling > 0 /\ active >= ceiling
    <3>1. Moves(s, "over")
      BY <1>1, <2>2 DEF AcquireCapacity
    <3>2. Holders' = Holders \ {s}
      BY <1>t, <2>0, <3>1, HoldersMove
    <3> QED
      BY <2>0, <2>1, <3>2
  <2>3. CASE ~(ceiling > 0 /\ active >= ceiling)
    <3>1. Moves(s, "admitted")
      BY <1>1, <2>3 DEF AcquireCapacity
    <3>2. Holders' = Holders \cup {s}
      BY <1>t, <2>0, <3>1, HoldersMove
    <3>3. ceiling > 0 => Cardinality(Holders) < ceiling
      BY <1>t, <2>3, AdmissionAssumption DEF Exact, TypeOK
    <3>4. Total!Admit(s)
      BY <2>0, <2>1, <3>2, <3>3, SameCardinality DEF Total!Admit
    <3> QED
      BY <3>4 DEF Total!Next
  <2> QED
    BY <2>2, <2>3
<1>2. ASSUME NEW s \in Sessions, End(s) PROVE Total!Next
  <2>0. UNCHANGED <<client, ceiling>> /\ s \in Holders
    BY <1>2 DEF End, limits, Holders
  <2>1. PICK l \in {"dropped", Away} : Moves(s, l)
    BY <1>2 DEF End, Away
  <2>2. Holders' = Holders \ {s}
    BY <1>t, <2>0, <2>1, HoldersMove DEF Away
  <2>3. Total!Release(s)
    BY <2>0, <2>2 DEF Total!Release
  <2> QED
    BY <2>3 DEF Total!Next
<1>3. ASSUME NEW s \in Sessions, Arrives(s) \/ AcquireClient(s) \/ Start(s) \/ ReleaseClient(s)
      PROVE UNCHANGED <<Holders, ceiling>>
  BY <1>3, <1>t DEF TypeOK, Holders, Arrives, AcquireClient, Start, ReleaseClient, Moves,
                    Away, limits
<1>4. CASE SetMax
  <2>1. Holders' = Holders /\ ceiling' \in Ceilings
    BY <1>4, HoldersStay DEF SetMax, sessionRest
  <2>2. Total!SetMax
    BY <2>1 DEF Total!SetMax
  <2> QED
    BY <2>2 DEF Total!Next
<1>5. CASE SetClientMax \/ StopAccepting \/ UNCHANGED vars
  BY <1>5, HoldersStay DEF SetClientMax, StopAccepting, sessionRest, limits, vars
<1> QED
  BY <1>1, <1>2, <1>3, <1>4, <1>5 DEF Next, Session

\* Admission implements Budget: whichever listener, request or generation a
\* session comes through, it is admitted only while those that hold a slot are
\* fewer than the ceiling in force.
THEOREM TotalBudgetHolds == Spec => TotalBudget
<1>1. Init => Total!Init
  <2> SUFFICES ASSUME Init PROVE Total!Init
    OBVIOUS
  <2>1. Holders = {}
    BY DEF Init, Holders, Away
  <2> QED
    BY <2>1 DEF Init, Total!Init
<1>2. BudgetInv /\ [Next]_vars => [Total!Next]_<<Holders, ceiling>>
  BY TotalStep
<1> QED
  BY <1>1, <1>2, BudgetInit, BudgetStep, PTL DEF Spec, TotalBudget, Total!Spec

\* For every address: a session is counted for it only below the ceiling.
THEOREM ClientBudgetHolds == Spec => ClientBudget
<1> DEFINE Kept == \A s \in Sessions, c \in Clients :
       s \in HoldersOf(c)' /\ s \notin HoldersOf(c) /\ ipCeiling > 0 =>
         Cardinality(HoldersOf(c)') <= ipCeiling
<1>1. BudgetInv /\ [Next]_vars => Kept \/ UNCHANGED vars
  <2> SUFFICES ASSUME BudgetInv, [Next]_vars, NEW s \in Sessions, NEW c \in Clients,
                      s \in HoldersOf(c)', s \notin HoldersOf(c), ipCeiling > 0
               PROVE  Cardinality(HoldersOf(c)') <= ipCeiling
    OBVIOUS
  <2>t. TypeOK /\ Exact /\ IsFiniteSet(HoldersOf(c))
    BY HoldersFinite DEF BudgetInv
  <2>1. AcquireClient(s)
    <3>1. CASE \E t \in Sessions : Session(t)
      <4>1. PICK t \in Sessions : Session(t)
        BY <3>1
      <4>2. t = s
        BY <4>1, <2>t DEF Session, Arrives, AcquireClient, AcquireCapacity, Start, End,
                          ReleaseClient, Moves, TypeOK, HoldersOf
      <4>3. at[s] = "arrived" \/ client'[s] # client[s] \/ at'[s] \notin At
              \/ AcquireClient(s) \/ s \notin HoldersOf(c)'
        BY <4>1, <4>2, <2>t DEF Session, Arrives, AcquireClient, AcquireCapacity, Start,
                                End, ReleaseClient, Moves, TypeOK, HoldersOf, Away
      <4> QED
        BY <4>1, <4>2, <2>t DEF Session, Arrives, AcquireClient, AcquireCapacity, Start,
                                End, ReleaseClient, Moves, TypeOK, HoldersOf, Away
    <3>2. CASE SetMax \/ SetClientMax \/ StopAccepting \/ UNCHANGED vars
      <4>1. UNCHANGED <<at, client>>
        BY <3>2 DEF SetMax, SetClientMax, StopAccepting, sessionRest, vars
      <4> QED
        BY <4>1, HoldersStay
    <3> QED
      BY <3>1, <3>2 DEF Next
  <2>2. client[s] \in Clients /\ UNCHANGED client
    BY <2>1, <2>t DEF AcquireClient, TypeOK
  <2>3. CASE counts[client[s]] >= ipCeiling
    <3>1. Moves(s, Away)
      BY <2>1, <2>3 DEF AcquireClient
    <3>2. s \notin HoldersOf(c)'
      BY <2>t, <2>2, <3>1, HoldersMove DEF Away
    <3> QED
      BY <3>2
  <2>4. CASE counts[client[s]] < ipCeiling
    <3>0. ~(counts[client[s]] >= ipCeiling)
      BY <2>4, <2>2, <2>t, AdmissionAssumption DEF TypeOK
    <3>1. Moves(s, "counted")
      BY <2>1, <3>0 DEF AcquireClient
    <3>2. HoldersOf(c)' = HoldersOf(c) \cup {s} /\ client[s] = c
      BY <2>t, <2>2, <3>1, HoldersMove
    <3>3. Cardinality(HoldersOf(c)') = counts[c] + 1
      BY <2>t, <3>2, Counting DEF Exact
    <3> QED
      BY <2>t, <2>4, <3>2, <3>3, AdmissionAssumption DEF TypeOK
  <2>5. counts[client[s]] \in Nat /\ ipCeiling \in Nat
    BY <2>t, <2>2, AdmissionAssumption DEF TypeOK
  <2> QED
    BY <2>3, <2>4, <2>5
<1> QED
  BY <1>1, BudgetInit, BudgetStep, PTL DEF Spec, ClientBudget

-----------------------------------------------------------------------------
(* The access rules                                                        *)

\* The list stays a list of well-formed rules, as NewAccess compiles it.
THEOREM RulesTypeCorrect == RulesSpec => []RulesTypeOK
<1>1. RulesInit => RulesTypeOK
  BY DEF RulesInit, RulesTypeOK
<1>2. RulesTypeOK /\ [RulesNext]_rulesVars => RulesTypeOK'
  <2> SUFFICES ASSUME RulesTypeOK, [RulesNext]_rulesVars PROVE RulesTypeOK'
    OBVIOUS
  <2>1. ASSUME NEW r \in Rule, AddRule(r) PROVE RulesTypeOK'
    <3>1. rules \in Seq(Rule) /\ rules' = Append(rules, r) /\ WellFormed(r)
      BY <2>1 DEF RulesTypeOK, AddRule
    <3>2. rules' \in Seq(Rule) /\ Len(rules') = Len(rules) + 1
      BY <3>1
    <3>3. ASSUME NEW i \in 1..Len(rules') PROVE WellFormed(rules'[i])
      <4>1. CASE i \in 1..Len(rules)
        <5>1. rules'[i] = rules[i]
          BY <3>1, <4>1
        <5> QED BY <4>1, <5>1 DEF RulesTypeOK
      <4>2. CASE i = Len(rules) + 1
        BY <3>1, <4>2
      <4> QED BY <3>1, <3>2, <4>1, <4>2
    <3> QED BY <2>1, <3>2, <3>3 DEF RulesTypeOK, AddRule, WellFormed
  <2>2. CASE UNCHANGED rulesVars
    BY <2>2 DEF RulesTypeOK, WellFormed, rulesVars
  <2> QED BY <2>1, <2>2 DEF RulesNext
<1> QED BY <1>1, <1>2, PTL DEF RulesSpec

-----------------------------------------------------------------------------
\* What RulesTypeOK says of a ranged rule: its range lies within the ports.
LEMMA RangeOfRule ==
  ASSUME RulesTypeOK, NEW t \in Targets, NEW i \in Ranged(t)
  PROVE  /\ i \in 1..Len(rules)
         /\ rules[i].portMin \in Port
         /\ rules[i].portMax \in Port
         /\ rules[i].portMin <= rules[i].portMax
<1>1. i \in 1..Len(rules) /\ rules[i].portMin # 0
  BY DEF Ranged
<1>2. rules[i] \in Rule /\ WellFormed(rules[i])
  BY <1>1 DEF RulesTypeOK
<1>3. rules[i].portMin \in 0..MaxPort /\ rules[i].portMax \in 0..MaxPort
  BY <1>2 DEF Rule
<1>4. rules[i].portMin \in 1..rules[i].portMax
  BY <1>1, <1>2 DEF WellFormed
<1> QED BY <1>1, <1>3, <1>4, AccessAssumption DEF Port

\* Every candidate is a port that a request may name.
LEMMA CandidatesArePorts ==
  ASSUME RulesTypeOK, NEW t \in Targets, NEW c \in Candidates(t)
  PROVE  c \in Port
<1>1. CASE c = 1
  BY <1>1, AccessAssumption DEF Port
<1>2. ASSUME NEW i \in Ranged(t), c = rules[i].portMin PROVE c \in Port
  BY <1>2, RangeOfRule
<1>3. ASSUME NEW i \in Ranged(t), rules[i].portMax < MaxPort, c = rules[i].portMax + 1
      PROVE  c \in Port
  BY <1>3, RangeOfRule, AccessAssumption DEF Port
<1> QED BY <1>1, <1>2, <1>3 DEF Candidates

\* Below every port lies a greatest candidate.
LEMMA GreatestCandidate ==
  ASSUME RulesTypeOK, NEW t \in Targets, NEW p \in Port
  PROVE  \E q \in Candidates(t) : q <= p /\ \A c \in Candidates(t) : c <= p => c <= q
<1> DEFINE T == {n \in Nat : \E c \in Candidates(t) : c <= p /\ n = p - c}
<1>1. p \in Nat /\ 1 <= p
  BY AccessAssumption DEF Port
<1>2. \A c \in Candidates(t) : c \in Nat
  BY CandidatesArePorts, AccessAssumption DEF Port
<1>3. 1 \in Candidates(t)
  BY DEF Candidates
<1>4. p - 1 \in T
  BY <1>1, <1>3
<1>5. PICK n \in T : \A m \in T : n <= m
  BY <1>4, LeastNatural, Zenon
<1>6. PICK q \in Candidates(t) : q <= p /\ n = p - q
  BY <1>5
<1>7. ASSUME NEW c \in Candidates(t), c <= p PROVE c <= q
  <2>1. p - c \in T
    BY <1>1, <1>2, <1>7
  <2>2. n <= p - c
    BY <1>5, <2>1
  <2> QED BY <1>1, <1>2, <1>6, <2>2
<1> QED BY <1>6, <1>7

\* The greatest candidate below a port is matched by the rules that match it.
LEMMA SameHits ==
  ASSUME RulesTypeOK, NEW t \in Targets, NEW p \in Port,
         NEW q \in Candidates(t), q <= p,
         \A c \in Candidates(t) : c <= p => c <= q
  PROVE  Hits(t, q) = Hits(t, p)
<1>1. p \in Int /\ q \in Int
  BY CandidatesArePorts, AccessAssumption DEF Port
<1>2. ASSUME NEW i \in Ranged(t)
      PROVE  MatchesPort(rules[i], q) <=> MatchesPort(rules[i], p)
  <2> DEFINE low == rules[i].portMin
             high == rules[i].portMax
  <2>1. low \in Port /\ high \in Port /\ low <= high
    BY <1>2, RangeOfRule
  <2>2. low \in Int /\ high \in Int /\ low # 0
    BY <2>1, AccessAssumption DEF Port
  <2>3. low <= p => low <= q
    BY <1>2 DEF Candidates
  <2>4. high < p => high < q
    <3>1. SUFFICES ASSUME high < p PROVE high < q
      OBVIOUS
    <3>2. high < MaxPort /\ high + 1 <= p
      BY <1>1, <2>2, <3>1, AccessAssumption DEF Port
    <3>3. high + 1 \in Candidates(t)
      BY <1>2, <3>2 DEF Candidates
    <3>4. high + 1 <= q
      BY <3>2, <3>3
    <3> QED BY <1>1, <2>2, <3>4
  <2>5. (q \in low..high) <=> (p \in low..high)
    BY <1>1, <2>2, <2>3, <2>4
  <2> QED BY <2>2, <2>5 DEF MatchesPort
<1>3. ASSUME NEW i \in 1..Len(rules), t \in rules[i].targets, i \notin Ranged(t)
      PROVE  MatchesPort(rules[i], q) /\ MatchesPort(rules[i], p)
  BY <1>3 DEF Ranged, MatchesPort
<1> QED BY <1>2, <1>3 DEF Hits

\* A decision depends on the port only through the rules that match it.
LEMMA SameDecision ==
  ASSUME NEW t, NEW p, NEW q, Hits(t, q) = Hits(t, p)
  PROVE  AllowTarget(t, q) = AllowTarget(t, p)
BY DEF AllowTarget, FirstHit

\* In every list of rules the boundaries decide for all ports.
LEMMA BoundariesDecide ==
  ASSUME RulesTypeOK PROVE AnyPortExact
<1> SUFFICES ASSUME NEW t \in Targets
             PROVE  AllowTargetOnAnyPort(t) <=> \E port \in Port : AllowTarget(t, port)
  BY DEF AnyPortExact
<1>1. AllowTargetOnAnyPort(t) => \E port \in Port : AllowTarget(t, port)
  BY CandidatesArePorts DEF AllowTargetOnAnyPort
<1>2. ASSUME NEW p \in Port, AllowTarget(t, p) PROVE AllowTargetOnAnyPort(t)
  <2>1. PICK q \in Candidates(t) : q <= p /\ \A c \in Candidates(t) : c <= p => c <= q
    BY GreatestCandidate
  <2>2. Hits(t, q) = Hits(t, p)
    BY <2>1, SameHits
  <2>3. AllowTarget(t, q)
    BY <1>2, <2>2, SameDecision
  <2> QED BY <2>3 DEF AllowTargetOnAnyPort
<1> QED BY <1>1, <1>2

\* AllowTargetOnAnyPort, which tries a handful of ports, answers for all 65535:
\* a BIND request is turned away only if no peer could have been accepted.
THEOREM AnyPortDecides == RulesSpec => []AnyPortExact
<1>1. RulesTypeOK => AnyPortExact
  BY BoundariesDecide
<1> QED BY <1>1, RulesTypeCorrect, PTL

-----------------------------------------------------------------------------
\* The first rule that matches is one that matches, and none before it does.
LEMMA FirstHitIsLeast ==
  ASSUME NEW t, NEW p, Hits(t, p) # {}
  PROVE  FirstHit(t, p) \in Hits(t, p) /\ \A j \in Hits(t, p) : FirstHit(t, p) <= j
<1>1. Hits(t, p) \in SUBSET Nat
  BY DEF Hits
<1>2. \E i \in Hits(t, p) : \A j \in Hits(t, p) : i <= j
  BY <1>1, LeastNatural, Zenon
<1> QED BY <1>2, Zenon DEF FirstHit

\* An appended rule leaves a decision alone that an earlier rule has made.
LEMMA AppendKeepsDecision ==
  ASSUME RulesTypeOK, NEW r \in Rule, AddRule(r),
         NEW t \in Targets, NEW p \in Port, Hits(t, p) # {}
  PROVE  AllowTarget(t, p)' = AllowTarget(t, p)
<1> DEFINE first == FirstHit(t, p)
<1>1. rules \in Seq(Rule) /\ rules' = Append(rules, r)
  BY DEF RulesTypeOK, AddRule
<1>2. Len(rules) \in Nat /\ Len(rules') = Len(rules) + 1
      /\ \A i \in 1..Len(rules) : rules'[i] = rules[i]
  BY <1>1
<1>3. first \in Hits(t, p) /\ \A j \in Hits(t, p) : first <= j
  BY FirstHitIsLeast
<1>4. first \in 1..Len(rules)
  BY <1>3 DEF Hits
<1>5. Hits(t, p) \subseteq Hits(t, p)'
  BY <1>2 DEF Hits, MatchesPort
<1>6. Hits(t, p)' \subseteq Hits(t, p) \cup {Len(rules) + 1}
  BY <1>2 DEF Hits, MatchesPort
<1>7. \A j \in Hits(t, p)' : first <= j
  BY <1>2, <1>3, <1>4, <1>6
<1> HIDE DEF first
<1>8. \A i \in Hits(t, p)' : (\A j \in Hits(t, p)' : i <= j) => i = first
  <2> TAKE i \in Hits(t, p)'
  <2> HAVE \A j \in Hits(t, p)' : i <= j
  <2>1. i <= first /\ first <= i
    BY <1>3, <1>5, <1>7
  <2>2. i \in Int /\ first \in Int
    BY <1>4 DEF Hits
  <2> QED BY <2>1, <2>2
<1>9. FirstHit(t, p)' = first
  <2>1. first \in Hits(t, p)'
    BY <1>3, <1>5
  <2> QED BY <1>7, <1>8, <2>1, Zenon DEF FirstHit
<1>10. AllowTarget(t, p)' = rules'[first].allow
  <2>1. Hits(t, p)' # {}
    BY <1>3, <1>5
  <2> QED BY <1>9, <2>1 DEF AllowTarget
<1>11. AllowTarget(t, p) = rules[first].allow
  BY DEF AllowTarget, first
<1> QED BY <1>2, <1>4, <1>10, <1>11

\* The order of the list is the order of precedence: a rule that is added
\* behind the others only decides what none of them matched.
THEOREM LaterRulesYield == RulesSpec => AppendedRuleYields
<1> DEFINE Kept == \A t \in Targets, port \in Port :
                     Hits(t, port) # {} => AllowTarget(t, port)' = AllowTarget(t, port)
<1>1. RulesTypeOK /\ [RulesNext]_rulesVars => [Kept]_rulesVars
  BY AppendKeepsDecision DEF RulesNext
<1> QED BY <1>1, RulesTypeCorrect, PTL DEF RulesSpec, AppendedRuleYields
=============================================================================
