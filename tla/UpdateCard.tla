----------------------------- MODULE UpdateCard -----------------------------
(* The card that checks for an update, installs it, and watches the agent    *)
(* across the restart of the service (web/src/components/UpdateCard.tsx).    *)
(* Answers are what the server was when it answered; they arrive in any      *)
(* order.  As in Console, what is set is rendered some time later: info was  *)
(* set last, shown is the operation the effect was run for.  SelfUpdate has  *)
(* the agent itself.                                                         *)
EXTENDS Naturals

CONSTANTS
  MaxInstalls,  \* bound: operations, of this card and of others
  MaxChecks,    \* bound: clicks on the check button
  MaxRestarts   \* bound: restarts of the service

UpdateCardAssumption == MaxInstalls \in Nat /\ MaxChecks \in Nat /\ MaxRestarts \in Nat

VARIABLES
  op, installs, up, restarts,  \* the agent's operation; whether the service answers
  checked,                     \* a newer release was found, and can be installed
  info, shown,                 \* the card's information, and what was rendered of it
  initial, check, install,     \* the first query, the two buttons
  loop, late, answer,          \* the poll of the current effect, its deadline, its answer
  busy, failed, restarting,    \* loading; the error shown; "the service is restarting"
  checks

serverVars == <<op, installs, up, restarts, checked>>
askVars == <<initial, check, install, checks>>
loopVars == <<loop, late, answer>>
vars == <<serverVars, info, shown, askVars, loopVars, busy, failed, restarting>>

States == {"none", "queued", "running", "succeeded", "failed"}
Info(o, r) == [op |-> o, ready |-> r, known |-> TRUE]
Unknown == [op |-> "none", ready |-> FALSE, known |-> FALSE]
Infos == {Unknown} \cup {Info(o, r) : o \in States, r \in BOOLEAN}
Asked == [kind |-> "asked", info |-> Unknown]
Idle == [kind |-> "idle", info |-> Unknown]
Lost == [kind |-> "lost", info |-> Unknown]
Told(i) == [kind |-> "told", info |-> i]

Running(o) == o \in {"queued", "running"}
UnderWay == Running(shown)

Init ==
  /\ op = "none" /\ installs = 0 /\ up = TRUE /\ restarts = 0 /\ checked \in BOOLEAN
  /\ info = Unknown /\ shown = "none"
  /\ initial = Asked /\ check = Idle /\ install = "idle" /\ checks = 0
  /\ loop = "off" /\ late = FALSE /\ answer = Idle
  /\ busy = FALSE /\ failed = FALSE /\ restarting = FALSE

-----------------------------------------------------------------------------
(* The service and its agent *)

\* What the agent does: SelfUpdate
AgentRuns == op = "queued" /\ op' = "running"
AgentEnds == op = "running" /\ op' \in {"succeeded", "failed"}

Agent ==
  /\ AgentRuns \/ AgentEnds
  /\ UNCHANGED <<installs, up, restarts, checked>>
  /\ UNCHANGED <<info, shown, askVars, loopVars, busy, failed, restarting>>

\* Another administrator's card
OtherInstalls ==
  /\ up /\ ~Running(op) /\ installs < MaxInstalls
  /\ op' = "queued" /\ installs' = installs + 1
  /\ UNCHANGED <<up, restarts, checked>>
  /\ UNCHANGED <<info, shown, askVars, loopVars, busy, failed, restarting>>

Restart ==
  /\ \/ up /\ op = "running" /\ restarts < MaxRestarts
        /\ up' = FALSE /\ restarts' = restarts + 1
     \/ ~up /\ up' = TRUE /\ UNCHANGED restarts
  /\ UNCHANGED <<op, installs, checked>>
  /\ UNCHANGED <<info, shown, askVars, loopVars, busy, failed, restarting>>

\* An answer to GET /api/update, with refresh=1 after a look at the releases
Answers(release) ==
  IF up THEN Told(Info(op, release)) ELSE Lost

-----------------------------------------------------------------------------
(* React *)

\* The effect of [running]: the old poll is stopped, whatever it waits for, and a
\* new one begins
Commit ==
  /\ shown # info.op /\ shown' = info.op
  /\ IF Running(info.op) = UnderWay THEN UNCHANGED loopVars
     ELSE /\ loop' = (IF Running(info.op) THEN "timer" ELSE "off")
          /\ late' = FALSE /\ answer' = Idle
  /\ UNCHANGED <<serverVars, info, askVars, busy, failed, restarting>>

-----------------------------------------------------------------------------
(* useQuery('/api/update') and the check button *)

InitialAnswered ==
  /\ initial = Asked /\ initial' = Answers(checked)
  /\ UNCHANGED <<serverVars, info, shown, check, install, checks, loopVars, busy, failed,
                 restarting>>
InitialTold ==
  /\ initial.kind = "told" /\ initial' = Idle /\ info' = initial.info
  /\ UNCHANGED <<serverVars, shown, check, install, checks, loopVars, busy, failed, restarting>>

Check ==
  /\ ~busy /\ initial.kind \in {"idle", "lost"} /\ ~UnderWay /\ checks < MaxChecks
  /\ busy' = TRUE /\ failed' = FALSE /\ check' = Asked /\ checks' = checks + 1
  /\ UNCHANGED <<serverVars, info, shown, initial, install, loopVars, restarting>>

\* The releases are looked up first: a refresh takes seconds, and may find nothing new
CheckAnswered ==
  /\ check = Asked /\ checked' \in {checked, TRUE} /\ (~up => checked' = checked)
  /\ check' = Answers(checked')
  /\ UNCHANGED <<op, installs, up, restarts>>
  /\ UNCHANGED <<info, shown, initial, install, checks, loopVars, busy, failed, restarting>>

CheckTold ==
  /\ check.kind \in {"told", "lost"} /\ check' = Idle /\ busy' = FALSE
  /\ IF check.kind = "told" THEN info' = check.info /\ UNCHANGED failed
                            ELSE failed' = TRUE /\ UNCHANGED info
  /\ UNCHANGED <<serverVars, shown, initial, install, checks, loopVars, restarting>>

-----------------------------------------------------------------------------
(* The install button, its question, and the POST *)

Install ==
  /\ install = "idle" /\ info.ready /\ shown = info.op /\ ~UnderWay /\ install' = "question"
  /\ UNCHANGED <<serverVars, info, shown, initial, check, checks, loopVars, busy, failed,
                 restarting>>

InstallDecided ==
  /\ install = "question" /\ install' \in {"idle", "sent"}
  /\ UNCHANGED <<serverVars, info, shown, initial, check, checks, loopVars, busy, failed,
                 restarting>>

\* One operation at a time: the controller refuses while another one is under way
InstallAnswered ==
  /\ install = "sent"
  /\ IF up /\ ~Running(op) /\ installs < MaxInstalls
       THEN op' = "queued" /\ installs' = installs + 1 /\ install' = "accepted"
       ELSE install' = "refused" /\ UNCHANGED <<op, installs>>
  /\ UNCHANGED <<up, restarts, checked>>
  /\ UNCHANGED <<info, shown, initial, check, checks, loopVars, busy, failed, restarting>>

\* A refusal leaves the question open
InstallTold ==
  /\ \/ install = "accepted" /\ install' = "idle" /\ info' = [info EXCEPT !.op = "queued"]
     \/ install = "refused" /\ install' = "question" /\ UNCHANGED info
  /\ UNCHANGED <<serverVars, shown, initial, check, checks, loopVars, busy, failed, restarting>>

-----------------------------------------------------------------------------
(* poll() *)

Poll ==
  /\ loop = "timer" /\ loop' = "asked" /\ answer' = Asked
  /\ UNCHANGED <<serverVars, info, shown, askVars, late, busy, failed, restarting>>

PollAnswered ==
  /\ answer = Asked /\ answer' = Answers(checked)
  /\ UNCHANGED <<serverVars, info, shown, askVars, loop, late, busy, failed, restarting>>

\* Fault: the catch returns
PollsOnUnlessLost ==
  IF answer.kind = "lost" THEN loop' = "ended" /\ UNCHANGED failed
  ELSE IF late THEN loop' = "ended" /\ failed' = TRUE
  ELSE loop' = "timer" /\ UNCHANGED failed

\* after an answer that does not end it: until five minutes are over
PollsOn ==
  IF late THEN loop' = "ended" /\ failed' = TRUE
          ELSE loop' = "timer" /\ UNCHANGED failed

PollTold ==
  /\ answer.kind \in {"told", "lost"} /\ answer' = Idle
  /\ info' = (IF answer.kind = "told" THEN answer.info ELSE info)
  /\ restarting' = (answer.kind = "lost")
  /\ IF answer.kind = "told" /\ answer.info.op \in {"succeeded", "failed"}
       THEN loop' = "ended" /\ UNCHANGED failed
       ELSE PollsOn
  /\ UNCHANGED <<serverVars, shown, askVars, late, busy>>

\* Five minutes since the effect was run
Deadline ==
  /\ loop \in {"timer", "asked"} /\ ~late /\ late' = TRUE
  /\ UNCHANGED <<serverVars, info, shown, askVars, loop, answer, busy, failed, restarting>>

Next ==
  \/ Agent \/ OtherInstalls \/ Restart \/ Commit
  \/ InitialAnswered \/ InitialTold \/ Check \/ CheckAnswered \/ CheckTold
  \/ Install \/ InstallDecided \/ InstallAnswered \/ InstallTold
  \/ Poll \/ PollAnswered \/ PollTold \/ Deadline

Spec == Init /\ [][Next]_vars

\* React renders, timers fire, the network answers or fails, five minutes go by
FairSpec ==
  /\ Spec
  /\ WF_vars(Commit) /\ WF_vars(InitialAnswered) /\ WF_vars(InitialTold)
  /\ WF_vars(Poll) /\ WF_vars(PollAnswered) /\ WF_vars(PollTold) /\ WF_vars(Deadline)

-----------------------------------------------------------------------------
(* Properties *)

TypeOK ==
  /\ op \in States /\ installs \in 0..MaxInstalls /\ up \in BOOLEAN
  /\ info \in Infos /\ shown \in States /\ loop \in {"off", "timer", "asked", "ended"}
  /\ install \in {"idle", "question", "sent", "accepted", "refused"}
  /\ busy \in BOOLEAN /\ failed \in BOOLEAN /\ restarting \in BOOLEAN /\ late \in BOOLEAN

\* A card that says an update is under way ends saying what became of it, or that it has
\* waited too long, whatever restarts the service goes through.  It does not where the check
\* button is used as well: the answer to a check that was asked before is applied after, or
\* together with, the poll's last one, and shows an operation that nobody watches any more.
UpdateSeen == UnderWay /\ checks = 0 ~> ~UnderWay \/ failed \/ checks > 0
=============================================================================
