------------------------------ MODULE MCPolicy ------------------------------
(* The policy package for TLC: the session budgets and the access rules.     *)
(* They share no state, so that a behaviour is one of one of them: subject   *)
(* says which, and the variables of the other keep their initial values.     *)
EXTENDS Admission, AccessRules, TLC

VARIABLE subject

Symmetric == Permutations(Sessions) \cup Permutations(Clients) \cup Permutations(Loops)

PolicyInit ==
  /\ subject \in {"budgets", "rules"}
  /\ Init /\ RulesInit
  /\ subject = "budgets" => defaultAllow = FALSE
  /\ subject = "rules" => /\ ceiling = 0 /\ ipCeiling = 0
                          /\ \A s, t \in Sessions : client[s] = client[t]

PolicyNext ==
  \/ subject = "budgets" /\ Next /\ UNCHANGED <<subject, rulesVars>>
  \/ subject = "rules" /\ RulesNext /\ UNCHANGED <<subject, vars>>

PolicySpec == PolicyInit /\ [][PolicyNext]_<<subject, vars, rulesVars>>
=============================================================================
