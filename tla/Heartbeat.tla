------------------------------ MODULE Heartbeat ------------------------------
(***************************************************************************)
(* The heartbeat goroutine of each generation (heartbeat.go) and the       *)
(* recovery of its modem through Vohive it may start, on top of the        *)
(* lifecycle of module Manager.  Both call Reload for their own server, so *)
(* both compete for m.transition with the administrator's calls.  The      *)
(* heartbeat goroutine belongs to inst.wg, for which a call that stops a   *)
(* generation waits while it holds m.transition; a recovery belongs to     *)
(* m.vohiveRecoveryWG, for which only Close waits.                         *)
(*                                                                         *)
(* The server has a Vohive device, and Vohive is enabled.                  *)
(***************************************************************************)
EXTENDS Manager

CONSTANTS
  Threshold,      \* vohive.consecutive_failures
  MaxRestarts     \* bound: recoveries started in a behaviour

ASSUME HeartbeatAssumption == Threshold \in Nat \ {0} /\ MaxRestarts \in Nat

VARIABLES
  hb,         \* what each generation's heartbeat goroutine does
  hbStopped,  \* generations whose heartbeatCancel was called by itself
  healthy,    \* the result of the probe in progress; FALSE when there is none
  prev,       \* heartbeatPrevHealthy
  failures,   \* heartbeatConsecutiveFailures, up to Threshold
  fast,       \* m.vohiveHealth.fastRefCount
  rec,        \* the recovery goroutine of each generation
  cooling,    \* generations whose lastVohiveAttempt is less than cooldown ago
  restarts,
  writer,     \* observer: the generation that wrote heartbeat_status last
  caller      \* who made the lifecycle call that holds m.transition

hbVars  == <<hb, hbStopped, healthy, prev, failures, fast, writer>>
recVars == <<rec, cooling, restarts>>
hVars == <<vars, hbVars, recVars, caller>>

HbState  == {"off", "tick", "probe", "save", "result", "want", "reload", "ended"}
RecState == {"none", "restart", "want", "reload", "confirm"}
Admin    == <<"admin", None>>

HeartbeatTypeOK ==
  /\ hb \in [Gen -> HbState]
  /\ hbStopped \subseteq Gen
  /\ healthy \in [Gen -> BOOLEAN]
  /\ prev \in [Gen -> {"unknown", "good", "bad"}]
  /\ failures \in [Gen -> 0..Threshold]
  /\ fast \in 0..MaxGen
  /\ rec \in [Gen -> RecState]
  /\ cooling \subseteq Gen
  /\ restarts \in 0..MaxRestarts
  /\ writer \in Gen \cup {None}
  /\ caller \in {Admin} \cup ({"hb", "rec"} \X Gen)

\* inst.heartbeatCtx is done; it is derived from inst.ctx
Cancelled(g) == g \in hbStopped \cup ctxDone

\* The heartbeat goroutine does not hold up inst.wg.Wait
HbJoined(g) == hb[g] \in {"off", "ended"}

-----------------------------------------------------------------------------
(* The lifecycle calls: who makes them, what they start and wait for       *)

\* A Reload is called by the administrator, by a heartbeat or by a recovery that
\* waits for m.transition; every other call is the administrator's.
Callers ==
  IF op.step = "idle" /\ op'.step = "loaded"
  THEN {Admin} \cup {<<"hb", g>> : g \in {x \in Gen : hb[x] = "want"}}
               \cup {<<"rec", g>> : g \in {x \in Gen : rec[x] = "want"}}
  ELSE IF op.step = "idle" \/ op'.step = "idle" THEN {Admin} ELSE {caller}

\* Fault: the heartbeat of a replaced generation goes on until it has drained
CancelledByDrainOnly == UNCHANGED hbStopped

\* heartbeatCancel without the generation's context: when a generation is
\* replaced, and again when its drain starts
HeartbeatCancelled ==
  hbStopped' = IF op.step = "loaded" /\ op'.step = "waitNew" /\ op.old # None
               THEN hbStopped \cup {op.old} ELSE hbStopped

\* The waiting heartbeat takes the lock or gets its call back; a launched
\* generation starts its heartbeat with a probe.
HbFollows(c) ==
  hb' = [g \in Gen |->
           CASE g \in launched' \ launched         -> "probe"
             [] c = <<"hb", g>> /\ hb[g] = "want"  -> "reload"
             [] hb[g] = "reload" /\ op'.step = "idle" -> "tick"
             [] OTHER                              -> hb[g]]

\* The same for a recovery, which goes on only if the Reload succeeded
RecFollows(c) ==
  \E ok \in BOOLEAN :
    rec' = [g \in Gen |->
              CASE c = <<"rec", g>> /\ rec[g] = "want" -> "reload"
                [] rec[g] = "reload" /\ op'.step = "idle" ->
                     IF ok THEN "confirm" ELSE "none"
                [] OTHER -> rec[g]]

\* inst.wg.Wait of the generation the call has shut down
WaitsForHeartbeat ==
  /\ op.step = "stopNew" => HbJoined(op.new)
  /\ op.step \in {"disable", "remove"} => HbJoined(op.old)

HTransition ==
  /\ Transition
  /\ WaitsForHeartbeat
  /\ \E c \in Callers : caller' = c /\ HbFollows(c) /\ RecFollows(c)
  /\ HeartbeatCancelled
  /\ UNCHANGED <<healthy, prev, failures, fast, writer, cooling, restarts>>

\* Fault: the heartbeat does not belong to inst.wg
DrainIgnoresHeartbeat(g) ==
  /\ DrainJoin(g)
  /\ UNCHANGED <<hbVars, recVars, caller>>

HDrainJoin(g) ==
  /\ DrainJoin(g) /\ HbJoined(g)
  /\ UNCHANGED <<hbVars, recVars, caller>>

HCloseJoined ==
  /\ CloseJoined
  /\ victim # None => HbJoined(victim)
  /\ UNCHANGED <<hbVars, recVars, caller>>

\* m.vohiveRecoveryWG.Wait comes last
HCloseDone ==
  /\ CloseDone
  /\ \A g \in Gen : rec[g] = "none"
  /\ UNCHANGED <<hbVars, recVars, caller>>

\* Reload returns an error at once: the manager is closed, or the row cannot be
\* read.  A call beyond the bound on generations is turned away here as well.
Refused ==
  /\ op.step = "idle"
  /\ closed \/ halted \/ ~stored.row \/ ngen + 2 > MaxGen

-----------------------------------------------------------------------------
(* The heartbeat goroutine                                                 *)

hbRest == <<vars, hbStopped, recVars, caller>>

\* heartbeatLoop's select
HbTick(g) ==
  /\ hb[g] = "tick"
  /\ hb' = [hb EXCEPT ![g] = IF Cancelled(g) THEN "ended" ELSE "probe"]
  /\ UNCHANGED <<healthy, prev, failures, fast, writer, hbRest>>

\* executeHeartbeat; the context is looked at once, after it
HbProbe(g) ==
  /\ hb[g] = "probe"
  /\ IF Cancelled(g)
     THEN hb' = [hb EXCEPT ![g] = "tick"] /\ UNCHANGED healthy
     ELSE /\ hb' = [hb EXCEPT ![g] = "save"]
          /\ \E h \in BOOLEAN : healthy' = [healthy EXCEPT ![g] = h]
  /\ UNCHANGED <<prev, failures, fast, writer, hbRest>>

\* SaveHeartbeat writes nothing once its context is done
HbSave(g) ==
  /\ hb[g] = "save"
  /\ hb' = [hb EXCEPT ![g] = "result"]
  /\ writer' = IF Cancelled(g) THEN writer ELSE g
  /\ UNCHANGED <<healthy, prev, failures, fast, hbRest>>

Forgotten(g) == healthy' = [healthy EXCEPT ![g] = FALSE]

\* maybeTriggerVohiveRecovery with n consecutive failures
Triggers(g, n) == n >= Threshold /\ rec[g] = "none" /\ g \notin cooling

\* enterVohiveFastMode, leaveVohiveFastMode (the 30 s grace period is left out)
EnterFastMode == fast' = fast + 1
LeaveFastMode == fast' = IF fast > 0 THEN fast - 1 ELSE 0

HbFailed(g) ==
  /\ hb[g] = "result" /\ ~healthy[g]
  /\ LET n == IF failures[g] < Threshold THEN failures[g] + 1 ELSE Threshold IN
     /\ failures' = [failures EXCEPT ![g] = n]
     /\ IF Triggers(g, n)
        THEN /\ restarts < MaxRestarts
             /\ restarts' = restarts + 1
             /\ rec' = [rec EXCEPT ![g] = "restart"]
             /\ cooling' = cooling \cup {g}
        ELSE UNCHANGED recVars
  /\ IF prev[g] = "bad" THEN UNCHANGED fast ELSE EnterFastMode
  /\ prev' = [prev EXCEPT ![g] = "bad"]
  /\ hb' = [hb EXCEPT ![g] = "tick"]
  /\ Forgotten(g)
  /\ UNCHANGED <<vars, hbStopped, writer, caller>>

\* Fault: a recovery ends the fast mode for everyone
RecoveredEndsFastMode(g) ==
  /\ hb[g] = "result" /\ healthy[g] /\ prev[g] = "bad"
  /\ failures' = [failures EXCEPT ![g] = 0]
  /\ fast' = 0
  /\ prev' = [prev EXCEPT ![g] = "good"]
  /\ \E deviceHealthy \in BOOLEAN :
       hb' = [hb EXCEPT ![g] = IF deviceHealthy THEN "want" ELSE "tick"]
  /\ Forgotten(g)
  /\ UNCHANGED <<writer, hbRest>>

\* After a failure the recovery of the heartbeat reloads the server if Vohive
\* reports the device healthy.  (The code stores prev after the Reload.)
HbRecovered(g) ==
  /\ hb[g] = "result" /\ healthy[g] /\ prev[g] = "bad"
  /\ failures' = [failures EXCEPT ![g] = 0]
  /\ LeaveFastMode
  /\ prev' = [prev EXCEPT ![g] = "good"]
  /\ \E deviceHealthy \in BOOLEAN :
       hb' = [hb EXCEPT ![g] = IF deviceHealthy THEN "want" ELSE "tick"]
  /\ Forgotten(g)
  /\ UNCHANGED <<writer, hbRest>>

HbHealthy(g) ==
  /\ hb[g] = "result" /\ healthy[g] /\ prev[g] # "bad"
  /\ prev' = [prev EXCEPT ![g] = "good"]
  /\ hb' = [hb EXCEPT ![g] = "tick"]
  /\ Forgotten(g)
  /\ UNCHANGED <<failures, fast, writer, hbRest>>

HbRefused(g) ==
  /\ hb[g] = "want" /\ Refused
  /\ hb' = [hb EXCEPT ![g] = "tick"]
  /\ UNCHANGED <<healthy, prev, failures, fast, writer, hbRest>>

HeartbeatLoop(g) ==
  \/ HbTick(g) \/ HbProbe(g) \/ HbSave(g) \/ HbFailed(g) \/ HbRecovered(g)
  \/ HbHealthy(g) \/ HbRefused(g)

-----------------------------------------------------------------------------
(* The recovery goroutine, runVohiveRecovery                               *)

recRest == <<vars, hbVars, restarts, caller>>

\* RestartDevice fails, does not bring the network back, or succeeds
RecRestarted(g) ==
  /\ rec[g] = "restart"
  /\ \E s \in {"none", "want"} : rec' = [rec EXCEPT ![g] = s]
  /\ UNCHANGED <<cooling, recRest>>

RecRefused(g) ==
  /\ rec[g] = "want" /\ Refused
  /\ rec' = [rec EXCEPT ![g] = "none"]
  /\ UNCHANGED <<cooling, recRest>>

\* The wait after the restart and the three status checks
RecConfirmed(g) ==
  /\ rec[g] = "confirm"
  /\ rec' = [rec EXCEPT ![g] = "none"]
  /\ UNCHANGED <<cooling, recRest>>

Recovery(g) == RecRestarted(g) \/ RecRefused(g) \/ RecConfirmed(g)

\* The cooldown of an attempt has passed
CooldownPasses(g) ==
  /\ g \in cooling
  /\ cooling' = cooling \ {g}
  /\ UNCHANGED <<rec, recRest>>

-----------------------------------------------------------------------------
\* The other steps of module Manager
Unaffected ==
  /\ \/ Administrator
     \/ \E g \in Gen, p \in Proto : ListenerLoop(g, p) \/ AcceptFails(g, p)
     \/ Sessions
     \/ \E g \in Gen, p \in Proto : DrainBegin(g, p) \/ DrainEnd(g, p)
     \/ \E g \in Gen : DrainExpires(g)
     \/ Interrupt
     \/ CloseTake \/ CloseShutdown
  /\ UNCHANGED <<hbVars, recVars, caller>>

HInit ==
  /\ Init
  /\ hb = [g \in Gen |-> "off"]
  /\ hbStopped = {} /\ cooling = {} /\ restarts = 0 /\ fast = 0
  /\ healthy = [g \in Gen |-> FALSE]
  /\ prev = [g \in Gen |-> "unknown"]
  /\ failures = [g \in Gen |-> 0]
  /\ rec = [g \in Gen |-> "none"]
  /\ writer = None /\ caller = Admin

HNext ==
  \/ HTransition
  \/ Unaffected
  \/ \E g \in Gen : HDrainJoin(g) \/ HeartbeatLoop(g) \/ Recovery(g)
                    \/ CooldownPasses(g)
  \/ HCloseJoined \/ HCloseDone

HSpec == HInit /\ [][HNext]_hVars

\* Every goroutine goes on.
HFairSpec ==
  /\ HSpec
  /\ WF_hVars(HTransition /\ op.step # "idle")
  /\ \A g \in Gen :
       /\ WF_hVars((\E p \in Proto : ListenerLoop(g, p))
                       /\ UNCHANGED <<hbVars, recVars, caller>>)
       /\ WF_hVars(HeartbeatLoop(g))

-----------------------------------------------------------------------------
\* heartbeat_status is never written by a generation after one that replaced it
\* (manager.go:266-268 and 594-595): the row an administrator sees is that of the
\* newest generation that has probed.
NewestWriterWins ==
  [][writer' # writer /\ writer # None => writer' > writer]_hVars

\* As long as the heartbeat of the current generation fails, Vohive is polled in
\* the fast mode, whatever retired generations still report.
FastWhileFailing ==
  instances # None /\ prev[instances] = "bad" => fast > 0

\* What goes on by itself besides the goroutines of module Manager: the heartbeat of a
\* generation whose context has ended, until it has, and a recovery.  Both may have to wait
\* for m.transition; what else they wait for ends with their contexts.
HeartbeatsTurn(g) ==
  /\ g \in ctxDone
  /\ hb[g] \in {"tick", "probe", "save", "result"} \/ (hb[g] = "want" /\ Refused)

RecoveriesTurn(g) ==
  rec[g] \in {"restart", "confirm"} \/ (rec[g] = "want" /\ Refused)

\* Close itself, or something it waits for, can go on.
CloseMoves ==
  \/ /\ ClosesTurn
     /\ closer = "join" /\ victim # None => HbJoined(victim)
     /\ closer = "drains" => \A g \in Gen : rec[g] = "none"
  \/ \E g \in Gen :
       \/ LoopsTurn(g) \/ HeartbeatsTurn(g) \/ RecoveriesTurn(g)
       \/ DrainsTurn(g) /\ (drain[g] = "join" => HbJoined(g))

\* Close, once it has m.transition, never waits for a goroutine that waits in its turn:
\* a Reload that a heartbeat or a recovery asks for meanwhile is refused at once
\* (manager.go:188-200, 332-366).
CloseGoesOn == closer \in {"taken", "join", "drains"} => CloseMoves

\* A recovery works for one server at a time and is over when Close returns, and
\* so is every heartbeat: nothing calls Reload afterwards.  And Close does return.
CloseEndsRecovery ==
  /\ closer = "done" => \A g \in Gen : HbJoined(g) /\ rec[g] = "none"
  /\ CloseGoesOn

\* Two recoveries of the device are at least the cooldown apart
\* (docs/superpowers/plans/2026-08-06-vohive-auto-recovery.md:554).
CooldownBetweenRecoveries == [][restarts' # restarts => cooling = {}]_hVars

\* The fast mode ends: while the manager runs, without a failing heartbeat that is
\* still going on no reference is left (docs/superpowers/specs/
\* 2026-08-06-vohive-events-and-auto-recovery-design.md:21).
FastModeReleased ==
  ~halted /\ ~closed /\ (\A g \in Gen : prev[g] = "bad" => hb[g] = "ended") =>
    fast = 0

\* The Reload a recovered heartbeat calls returns (the same document, line 58).
HeartbeatReloadReturns == \A g \in Gen : hb[g] = "reload" ~> hb[g] # "reload"

=============================================================================
