------------------------------- MODULE Budget -------------------------------
(***************************************************************************)
(* What a limiter of internal/policy promises: those who hold a slot are   *)
(* never more than the ceiling when another one is admitted, and the       *)
(* ceiling can change while slots are held.                                *)
(***************************************************************************)
EXTENDS Integers, FiniteSets

CONSTANTS Sessions, Ceilings    \* the ceiling 0 stands for no limit

VARIABLES holders, ceiling

Init == holders = {} /\ ceiling \in Ceilings

Admit(s) ==
  /\ s \notin holders
  /\ ceiling > 0 => Cardinality(holders) < ceiling
  /\ holders' = holders \cup {s}
  /\ UNCHANGED ceiling

Release(s) ==
  /\ s \in holders
  /\ holders' = holders \ {s}
  /\ UNCHANGED ceiling

SetMax ==
  /\ ceiling' \in Ceilings
  /\ UNCHANGED holders

Next == (\E s \in Sessions : Admit(s) \/ Release(s)) \/ SetMax

Spec == Init /\ [][Next]_<<holders, ceiling>>
=============================================================================
