---------------------------- MODULE AccessRules ----------------------------
(***************************************************************************)
(* The target rules of an access policy (internal/policy/access.go): an    *)
(* ordered list, the first rule that matches decides, and a default.  A    *)
(* target is a pair of requested host and resolved address; which targets  *)
(* a rule's pattern matches is abstracted to a set.                        *)
(*                                                                         *)
(* A policy is immutable once compiled.  The state is the list as it is    *)
(* being written, so that every list is a state; BIND requests that leave  *)
(* the port open are decided by AllowTargetOnAnyPort (socks5/bind.go).     *)
(***************************************************************************)
EXTENDS Integers, Sequences

CONSTANTS
  Targets,     \* targets that are asked about
  MaxPort,     \* 65535 in the code
  MaxRules     \* bound: rules in a list

ASSUME AccessAssumption == MaxPort \in Nat \ {0} /\ MaxRules \in Nat

VARIABLES
  rules,         \* Access.rules
  defaultAllow   \* Access.defaultAllow

rulesVars == <<rules, defaultAllow>>

Port == 1..MaxPort

\* A parsed rule: the ports are a range, or portMin = 0 for every port.
Rule == [allow : BOOLEAN, targets : SUBSET Targets,
         portMin : 0..MaxPort, portMax : 0..MaxPort]
WellFormed(r) ==
  (r.portMin = 0 /\ r.portMax = 0) \/ r.portMin \in 1..r.portMax

RulesTypeOK ==
  /\ rules \in Seq(Rule)
  /\ \A i \in 1..Len(rules) : WellFormed(rules[i])
  /\ defaultAllow \in BOOLEAN

-----------------------------------------------------------------------------
MatchesPort(r, port) == r.portMin = 0 \/ port \in r.portMin..r.portMax

\* The rules that match, and the first of them
Hits(t, port) ==
  {i \in 1..Len(rules) : MatchesPort(rules[i], port) /\ t \in rules[i].targets}

FirstHit(t, port) == CHOOSE i \in Hits(t, port) : \A j \in Hits(t, port) : i <= j

AllowTarget(t, port) ==
  IF Hits(t, port) = {} THEN defaultAllow ELSE rules[FirstHit(t, port)].allow

\* The rules with a port range that match a target
Ranged(t) == {i \in 1..Len(rules) : t \in rules[i].targets /\ rules[i].portMin # 0}

\* Fault: the first port behind a range is not tried
CandidatesInside(t) == {1} \cup {rules[i].portMin : i \in Ranged(t)}

\* The ports at which a decision may change
Candidates(t) ==
  {1} \cup {rules[i].portMin : i \in Ranged(t)}
      \cup {rules[i].portMax + 1 : i \in {j \in Ranged(t) : rules[j].portMax < MaxPort}}

AllowTargetOnAnyPort(t) == \E port \in Candidates(t) : AllowTarget(t, port)

-----------------------------------------------------------------------------
\* One more rule in the list that NewAccess compiles
AddRule(r) ==
  /\ Len(rules) < MaxRules
  /\ WellFormed(r)
  /\ rules' = Append(rules, r)
  /\ UNCHANGED defaultAllow

RulesInit == rules = <<>> /\ defaultAllow \in BOOLEAN

RulesNext == \E r \in Rule : AddRule(r)

RulesSpec == RulesInit /\ [][RulesNext]_rulesVars

-----------------------------------------------------------------------------
\* The finite set of boundaries decides for all ports: a BIND that leaves its
\* port open is refused only if no peer could be accepted, and accepted only if
\* some peer can (access.go:98-100).
AnyPortExact ==
  \A t \in Targets : AllowTargetOnAnyPort(t) <=> \E port \in Port : AllowTarget(t, port)

\* A rule at the end of the list decides only what the default decided before:
\* the order of declaration is the order of precedence (access.go:16-17, 87-92).
AppendedRuleYields ==
  [][\A t \in Targets, port \in Port :
       Hits(t, port) # {} => AllowTarget(t, port)' = AllowTarget(t, port)]_rulesVars

=============================================================================
