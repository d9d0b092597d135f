----------------------------- MODULE SelfUpdate ----------------------------
(***************************************************************************)
(* The automatic update (internal/selfupdate): the web process asks, the   *)
(* privileged agent runs the installer.  The two share a socket and a      *)
(* status file, which only the agent writes and which outlives it.  One    *)
(* process of the agent runs one update: its busy flag is never reset, the *)
(* process ends when the installer has, and its supervisor starts another. *)
(***************************************************************************)
EXTENDS Naturals, FiniteSets

CONSTANTS
  Calls,       \* calls of Controller.Trigger
  MaxFaults    \* bound: deaths of the agent and failed writes of the status

FaultsAssumption == MaxFaults \in Nat

VARIABLES
  agent,       \* "down", "serving" or "exiting"
  busy,        \* Agent.busy
  status,      \* state in the status file
  handler,     \* handleConnection of a call: "none", "received" or "queueing"
  answer,      \* the agent's response to a call
  job,         \* the update that a call started, and where it is
  call,        \* where a call of Trigger is, or what it returned
  seen,        \* the state a call read from the status file
  during,      \* calls during which the agent was busy at some time
  started,     \* calls whose update was started
  faults       \* faults so far

files == <<status, faults>>
process == <<agent, busy, handler, job>>
clients == <<call, seen, during>>
vars == <<process, files, clients, answer, started>>

States == {"none", "queued", "running", "failed", "succeeded"}
InProgress == {"queued", "running"}
Jobs == {"sleeping", "running", "failed", "succeeded"}
Active == {c \in Calls : job[c] \in {"sleeping", "running"}}
Returned == {"scheduled", "inProgress", "unsupported", "noUpdate", "error"}

TypeOK ==
  /\ agent \in {"down", "serving", "exiting"} /\ busy \in BOOLEAN
  /\ status \in States /\ seen \in [Calls -> States]
  /\ handler \in [Calls -> {"none", "received", "queueing"}]
  /\ answer \in [Calls -> {"none", "ok", "busy", "rejected"}]
  /\ job \in [Calls -> Jobs \cup {"none", "over"}]
  /\ call \in [Calls -> Returned \cup {"ready", "deciding", "sending"}]
  /\ during \subseteq Calls /\ started \subseteq Calls
  /\ faults \in 0..MaxFaults
  /\ \A c \in Calls : handler[c] = "queueing" \/ job[c] \in Jobs => busy
  /\ busy => agent # "down"

Fault == faults < MaxFaults /\ faults' = faults + 1

-----------------------------------------------------------------------------
(* Controller.Trigger *)

\* Status: the status file is read first
ReadsStatus(c) ==
  /\ call[c] = "ready"
  /\ call' = [call EXCEPT ![c] = "deciding"]
  /\ seen' = [seen EXCEPT ![c] = status]
  /\ during' = IF busy THEN during \cup {c} ELSE during
  /\ UNCHANGED <<process, files, answer, started>>

\* The ping, the check of the release, and then the state that was read
Decides(c) ==
  /\ call[c] = "deciding"
  /\ \E next \in {"unsupported", "noUpdate", "error", "inProgress", "sending"} :
       /\ next = "inProgress" => seen[c] \in InProgress
       /\ next = "sending" => seen[c] \notin InProgress /\ agent = "serving"
       /\ call' = [call EXCEPT ![c] = next]
       /\ handler' = [handler EXCEPT ![c] = IF next = "sending" THEN "received" ELSE @]
  /\ UNCHANGED <<agent, busy, job, files, seen, during, answer, started>>

\* The response, or the end of the two seconds that the client waits
Receives(c) ==
  /\ call[c] = "sending"
  /\ \/ answer[c] = "ok"       /\ call' = [call EXCEPT ![c] = "scheduled"]
     \/ answer[c] = "busy"     /\ call' = [call EXCEPT ![c] = "inProgress"]
     \/ call' = [call EXCEPT ![c] = "error"]
  /\ UNCHANGED <<process, files, seen, during, answer, started>>

-----------------------------------------------------------------------------
(* handleConnection *)

Answers(c, response) ==
  /\ answer' = [answer EXCEPT ![c] = response]
  /\ handler' = [handler EXCEPT ![c] = "none"]

\* Fault: the flag is read but not set
HandlesTwice(c) ==
  /\ agent # "down" /\ handler[c] = "received"
  /\ \/ busy /\ Answers(c, "busy")
     \/ ~busy /\ handler' = [handler EXCEPT ![c] = "queueing"] /\ UNCHANGED answer
  /\ during' = during \cup {d \in Calls : call[d] \in {"deciding", "sending"}}
  /\ UNCHANGED <<agent, busy, job, files, call, seen, started>>

\* busy.CompareAndSwap
Handles(c) ==
  /\ agent # "down" /\ handler[c] = "received"
  /\ \/ busy /\ Answers(c, "busy") /\ UNCHANGED <<busy, during>>
     \/ /\ ~busy
        /\ busy' = TRUE
        /\ during' = during \cup {d \in Calls : call[d] \in {"deciding", "sending"}}
        /\ handler' = [handler EXCEPT ![c] = "queueing"]
        /\ UNCHANGED answer
  /\ UNCHANGED <<agent, job, files, call, seen, started>>

Starts(c) ==
  /\ job' = [job EXCEPT ![c] = "sleeping"]
  /\ started' = started \cup {c}

\* Fault: the response goes out whether or not the update is started
QueuesAnswersFirst(c) ==
  /\ agent # "down" /\ handler[c] = "queueing"
  /\ \/ status' = "queued" /\ Starts(c) /\ UNCHANGED <<busy, faults>>
     \/ Fault /\ busy' = FALSE /\ UNCHANGED <<status, job, started>>
  /\ Answers(c, "ok")
  /\ UNCHANGED <<agent, clients>>

\* The update is published as queued before it is started.
Queues(c) ==
  /\ agent # "down" /\ handler[c] = "queueing"
  /\ \/ /\ status' = "queued"
        /\ Starts(c)
        /\ Answers(c, "ok")
        /\ UNCHANGED <<busy, faults>>
     \/ /\ Fault
        /\ busy' = FALSE
        /\ Answers(c, "rejected")
        /\ UNCHANGED <<status, job, started>>
  /\ UNCHANGED <<agent, clients>>

-----------------------------------------------------------------------------
(* performUpdate *)

\* An error of this write, and of the last one, is only logged.
Writes(state) == \/ status' = state /\ UNCHANGED faults
                 \/ Fault /\ UNCHANGED status

Runs(c) ==
  /\ job[c] = "sleeping"
  /\ job' = [job EXCEPT ![c] = "running"]
  /\ Writes("running")
  /\ UNCHANGED <<agent, busy, handler, clients, answer, started>>

\* The installer, which has fifteen minutes
Installs(c) ==
  /\ job[c] = "running"
  /\ \E how \in {"failed", "succeeded"} : job' = [job EXCEPT ![c] = how]
  /\ UNCHANGED <<agent, busy, handler, files, clients, answer, started>>

\* Fault: the listener stays open
RecordsOnly(c) ==
  /\ job[c] \in {"failed", "succeeded"}
  /\ Writes(job[c])
  /\ job' = [job EXCEPT ![c] = "over"]
  /\ UNCHANGED <<agent, busy, handler, clients, answer, started>>

\* The result is published and the listener closed: serve returns.
Records(c) ==
  /\ job[c] \in {"failed", "succeeded"}
  /\ Writes(job[c])
  /\ job' = [job EXCEPT ![c] = "over"]
  /\ agent' = "exiting"
  /\ UNCHANGED <<busy, handler, clients, answer, started>>

-----------------------------------------------------------------------------
(* The process of the agent *)

Ends ==
  /\ agent' = "down"
  /\ busy' = FALSE
  /\ handler' = [c \in Calls |-> "none"]
  /\ job' = [c \in Calls |-> IF job[c] = "none" THEN "none" ELSE "over"]
  /\ UNCHANGED <<status, clients, answer, started>>

Exits == agent = "exiting" /\ Ends /\ UNCHANGED faults

\* It is killed, stopped by a signal, or fails to accept.
Dies == agent = "serving" /\ Ends /\ Fault

\* The supervisor starts the agent again.
Serves ==
  /\ agent = "down"
  /\ agent' = "serving"
  /\ UNCHANGED <<busy, handler, job, files, clients, answer, started>>

-----------------------------------------------------------------------------
Init ==
  /\ agent = "serving" /\ busy = FALSE /\ status = "none"
  /\ handler = [c \in Calls |-> "none"] /\ answer = [c \in Calls |-> "none"]
  /\ job = [c \in Calls |-> "none"] /\ call = [c \in Calls |-> "ready"]
  /\ seen = [c \in Calls |-> "none"]
  /\ during = {} /\ started = {} /\ faults = 0

Works(c) == Handles(c) \/ Queues(c) \/ Runs(c) \/ Installs(c) \/ Records(c)

Next ==
  \/ \E c \in Calls : ReadsStatus(c) \/ Decides(c) \/ Receives(c) \/ Works(c)
  \/ Exits \/ Dies \/ Serves

Spec == Init /\ [][Next]_vars

\* The agent's goroutines run, the installer ends, the supervisor restarts.
Fairness ==
  /\ WF_vars(Exits) /\ WF_vars(Serves) /\ \A c \in Calls : WF_vars(Works(c))

FairSpec == Spec /\ Fairness

-----------------------------------------------------------------------------
\* One update at a time, whoever asks at the same time (agent.go:212-222).
OneUpdate == Cardinality(Active) <= 1

\* While an update runs, every reader of the status file sees it in progress,
\* even if a write of the status fails (agent.go:216-221, 238-240, controller.go:64).
ProgressShown == Active # {} => status \in InProgress

\* An answer tells what was done: scheduled means that the update was started,
\* a refusal that it was not; an error leaves it open (client.go:52-69).
AnswerTrue ==
  \A c \in Calls :
    /\ call[c] = "scheduled" => c \in started
    /\ call[c] \in {"inProgress", "unsupported", "noUpdate"} => c \notin started

\* The agent is able to run an update again and again.
AgentReturns == []<>(agent = "serving" /\ ~busy)

\* What ErrUpdateInProgress says (checker.go:26): an update is already in
\* progress, at some time during the call that is refused.
RefusedRightly == \A c \in Calls : call[c] = "inProgress" => c \in during

=============================================================================
