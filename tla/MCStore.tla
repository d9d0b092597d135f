------------------------------ MODULE MCStore -------------------------------
(* What is kept of the servers in the store, for TLC: their traffic, and     *)
(* their configuration.  The two share no state, so that a behaviour is one  *)
(* of one of them: subject says which, and the variables of the other keep   *)
(* their initial values.  "alone" is the configuration API with failing      *)
(* database operations and without reloads by heartbeats and recoveries,     *)
(* "reloads" the opposite.                                                   *)
EXTENDS Metrics, TLC

CONSTANTS MaxIds, Addrs, Handlers, Background, MaxRequests, MaxReloads

VARIABLES
  subject, row, nextId, inst, pc, req, rel, holder, editor, requests, reloads, dbFailures,
  deleted

MCLimit == [v \in Versions |-> 1]

Conf == INSTANCE Configuration WITH faults <- dbFailures

ASSUME StoreAssumption == Conf!ConfigurationAssumption /\ Conf!NamesAssumption

confVars == <<row, nextId, inst, pc, req, rel, holder, editor, requests, reloads, dbFailures,
              deleted>>

HandlerSymmetry == Permutations(Handlers)

StoreInit ==
  /\ subject \in {"traffic", "alone", "reloads"}
  /\ MInit /\ Conf!Init
  /\ subject = "traffic" => row[1] = [on |-> FALSE, addr |-> "a"]
  /\ subject # "traffic" => stored.on

StoreNext ==
  \/ subject = "traffic" /\ MNext /\ UNCHANGED <<subject, confVars>>
  \/ subject = "alone" /\ Conf!Next /\ reloads' = 0 /\ UNCHANGED <<subject, mVars>>
  \/ subject = "reloads" /\ Conf!Next /\ dbFailures' = 0 /\ UNCHANGED <<subject, mVars>>

StoreSpec == StoreInit /\ [][StoreNext]_<<subject, mVars, confVars>>

-----------------------------------------------------------------------------
\* The rows decide what runs: when nobody is changing anything, what runs is what is
\* stored, every failure on the way having been compensated (webui/server.go:464-482,
\* 534-543, manager.go:323-336); and what was deleted stays stopped, whatever Reload was
\* waiting or under way (webui/server.go:485-509).
RowsDecide ==
  /\ subject = "alone" => Conf!RunsWhatIsStored
  /\ Conf!DeletedStaysStopped

\* A request that is refused has left the row as it found it, and one that is answered
\* with success has stored what it was asked to store, unless a heartbeat or a
\* recovery reloads meanwhile (webui/server.go:464-482, 534-543, README.md:453).
AnswersMatchRow ==
  [][subject = "alone" =>
       \A h \in Handlers : Conf!RefusedKept(h) /\ Conf!AnsweredStored(h)]_confVars
=============================================================================
