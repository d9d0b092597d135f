----------------------------- MODULE MCManager -----------------------------
(* Instances of Manager for TLC. *)
EXTENDS Manager

\* The configuration with an HTTP listener allows one session, the one without it two
MCLimit == [v \in Versions |-> IF v \in HTTPVersions THEN 1 ELSE 2]

\* Bound: the signal with a write of the configuration or with a failure, not with both
SignalWithOne == halted => saves + faults <= 1

\* Bound: a write of the configuration, a failure, or the end of the process, not two of them
OneDisturbance == saves + faults + (IF halted \/ closed THEN 1 ELSE 0) <= 1
=============================================================================
