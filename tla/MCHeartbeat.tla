---------------------------- MODULE MCHeartbeat ----------------------------
(* Instances of Heartbeat for TLC.  The sessions are the subject of         *)
(* MCManager; a budget of 0 leaves them out.                                *)
EXTENDS Heartbeat

MCLimit == [v \in Versions |-> 0]

\* No signal; without sessions a drain needs no timeout; Close meets at most two
\* generations; the one recovery is not over its cooldown, after which a heartbeat that
\* goes on failing could only ask for another
Quiet ==
  /\ ~halted
  /\ closer = "open" => expired = {}
  /\ closer = "open" \/ ngen <= 2
  /\ restarts = 0 \/ cooling # {}
=============================================================================
