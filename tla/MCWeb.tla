------------------------------- MODULE MCWeb --------------------------------
(* What else the web interface keeps, for TLC: the login sessions with the    *)
(* overview sockets, the automatic update, and the card of the console that   *)
(* follows an update.  They share no state that is modelled, so that a        *)
(* behaviour is one of one of them: subject says which, and the variables of  *)
(* the others keep their initial values.                                      *)
EXTENDS WebSession

CONSTANTS Calls, MaxInstalls, MaxChecks, MaxRestarts

VARIABLES
  subject,
  agent, busy, status, updateHandler, answer, job, call, seen, during, started,
  updateFaults,
  op, installs, up, restarts, checked, info, shown, initial, check, install, checks, loop,
  late, polled, loading, failed, restarting

Update == INSTANCE SelfUpdate WITH handler <- updateHandler, faults <- updateFaults
Card == INSTANCE UpdateCard WITH answer <- polled, busy <- loading

ASSUME WebAssumption ==
  /\ SessionAssumption /\ NobodyAssumption
  /\ Update!FaultsAssumption /\ Card!UpdateCardAssumption

updateVars == <<agent, busy, status, updateHandler, answer, job, call, seen, during,
                started, updateFaults>>
cardVars == <<op, installs, up, restarts, checked, info, shown, initial, check, install,
              checks, loop, late, polled, loading, failed, restarting>>
allVars == <<subject, vars, updateVars, cardVars>>

WebInit ==
  /\ subject \in {"sessions", "update", "card"}
  /\ Init /\ Update!Init /\ Card!Init
  /\ subject # "card" => ~checked     \* one initial state is enough of what does not move

WebNext ==
  \/ subject = "sessions" /\ Next /\ UNCHANGED <<subject, updateVars, cardVars>>
  \/ subject = "update" /\ Update!Next /\ UNCHANGED <<subject, vars, cardVars>>
  \/ subject = "card" /\ Card!Next /\ UNCHANGED <<subject, vars, updateVars>>

WebSpec == WebInit /\ [][WebNext]_allVars

\* The fairness of each component, see there
WebFairSpec ==
  /\ WebSpec
  /\ \A h \in Handlers : WF_vars(subject = "sessions" /\ Handle(h))
  /\ \A t \in Tokens :
       /\ WF_vars(subject = "sessions" /\ Validates(t))
       /\ WF_vars(subject = "sessions" /\ (ValidationErases(t) \/ Caches(t)))
       /\ WF_vars(subject = "sessions" /\ Pushes(t))
  /\ WF_updateVars(subject = "update" /\ Update!Exits)
  /\ WF_updateVars(subject = "update" /\ Update!Serves)
  /\ \A c \in Calls : WF_updateVars(subject = "update" /\ Update!Works(c))
  /\ WF_cardVars(subject = "card" /\ Card!Commit)
  /\ WF_cardVars(subject = "card" /\ Card!InitialAnswered)
  /\ WF_cardVars(subject = "card" /\ Card!InitialTold)
  /\ WF_cardVars(subject = "card" /\ Card!Poll)
  /\ WF_cardVars(subject = "card" /\ Card!PollAnswered)
  /\ WF_cardVars(subject = "card" /\ Card!PollTold)
  /\ WF_cardVars(subject = "card" /\ Card!Deadline)

-----------------------------------------------------------------------------
(* RevokedStays is that of WebSession.  The properties of the others, see there: *)

\* One update at a time, whoever asks at the same time, whoever reads the status while it
\* runs sees it in progress, and an answer to a request for an update tells what was done
\* (selfupdate/agent.go:212-222, 238-240, selfupdate/client.go:52-69).
UpdateInOrder ==
  subject = "update" => Update!OneUpdate /\ Update!ProgressShown /\ Update!AnswerTrue

\* The socket of a session that was revoked is closed, and after every update the
\* agent is able to run another one (webui/server.go:229-230, selfupdate/agent.go:212).
EndsWhatItMust ==
  /\ subject = "sessions" => RevokedCloses
  /\ subject = "update" => Update!AgentReturns

\* The card watches the update it shows, and says in the end what became of it or that it
\* waited in vain (web/src/components/UpdateCard.tsx:88-120).
UpdateSeen == subject = "card" => Card!UpdateSeen
=============================================================================
