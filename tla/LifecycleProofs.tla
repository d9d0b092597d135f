-------------------------- MODULE LifecycleProofs ---------------------------
(***************************************************************************)
(* Proofs about what runs on top of the lifecycle of module Manager, for   *)
(* every value of the constants: the heartbeats and recoveries of module   *)
(* Heartbeat, the traffic counters and their rows of module Metrics, and   *)
(* the configuration API of module Configuration as module MCStore joins   *)
(* it.  Every step of the first two is a step of Manager, or leaves it     *)
(* alone, so that the invariants of module ManagerProofs hold of them.     *)
(***************************************************************************)
EXTENDS MCStore, Heartbeat, ManagerProofs, SumTheorems

-----------------------------------------------------------------------------
(* Heartbeats                                                              *)

\* The lifecycle under the heartbeats is that of module Manager.
LEMMA HeartbeatsRunManager == [HNext]_hVars => [Next]_vars
<1> SUFFICES ASSUME [HNext]_hVars PROVE [Next]_vars
  OBVIOUS
<1>1. CASE HTransition
  BY <1>1 DEF HTransition, Next
<1>2. CASE Unaffected
  BY <1>2 DEF Unaffected, Next, Drainer, Closing
<1>3. ASSUME NEW g \in Gen, HDrainJoin(g) PROVE Next
  BY <1>3 DEF HDrainJoin, Next, Drainer
<1>4. ASSUME NEW g \in Gen, HeartbeatLoop(g) \/ Recovery(g) \/ CooldownPasses(g)
      PROVE  UNCHANGED vars
  BY <1>4 DEF HeartbeatLoop, HbTick, HbProbe, HbSave, HbFailed, HbRecovered, HbHealthy,
     HbRefused, hbRest, Recovery, RecRestarted, RecRefused, RecConfirmed, CooldownPasses, recRest
<1>5. CASE HCloseJoined \/ HCloseDone
  BY <1>5 DEF HCloseJoined, HCloseDone, Next, Closing
<1> QED
  BY <1>1, <1>2, <1>3, <1>4, <1>5 DEF HNext, hVars

\* A call launches at most the generation it has just created.
LEMMA Launches ==
  ASSUME TypeInv, Transition
  PROVE  \/ launched' = launched
         \/ /\ launched' = launched \cup {ngen + 1}
            /\ ngen' = ngen + 1 /\ instances' = ngen + 1
BY DEF Transition, StartAll, BeginReload, PreflightFails, ReloadNothing, EnableNew, DisableOld,
   HotSwap, NewReady, NewFails, DropNew, RestorePlaceholder, Rollback, RollbackSettles, Remove,
   StopJoined, genVars, Create

\* What a step does to a heartbeat: those that were not launched stay off, and those that have
\* ended stay so.
LEMMA HeartbeatMoves ==
  ASSUME TypeInv, hb \in [Gen -> HbState], [HNext]_hVars,
         \A g \in Gen : hb[g] # "off" => g <= ngen
  PROVE  /\ hb' \in [Gen -> HbState]
         /\ \A g \in Gen : hb'[g] # "off" => hb[g] # "off" \/ (g = ngen' /\ g = instances')
         /\ \A g \in Gen : HbJoined(g) => HbJoined(g)' \/ g = instances'
<1>1. CASE HTransition
  <2>1. PICK c \in Callers : HbFollows(c)
    BY <1>1 DEF HTransition
  <2>2. hb' = [g \in Gen |->
                 CASE g \in launched' \ launched         -> "probe"
                   [] c = <<"hb", g>> /\ hb[g] = "want"  -> "reload"
                   [] hb[g] = "reload" /\ op'.step = "idle" -> "tick"
                   [] OTHER                              -> hb[g]]
    BY <2>1 DEF HbFollows
  <2>3. \A g \in Gen : g \in launched' \ launched => g = ngen' /\ g = instances'
    BY <1>1, Launches DEF HTransition
  <2>4. ASSUME NEW g \in Gen, g \notin launched' \ launched
        PROVE  /\ hb'[g] \in {hb[g], "reload", "tick"}
               /\ hb[g] \notin {"want", "reload"} => hb'[g] = hb[g]
    BY <2>2, <2>4
  <2>5. \A g \in Gen : hb'[g] \in HbState
    <3> SUFFICES ASSUME NEW g \in Gen PROVE hb'[g] \in HbState
      OBVIOUS
    <3>1. g \in launched' \ launched => hb'[g] = "probe"
      <4>1. g \in launched' \ launched => hb[g] = "off"
        BY <1>1, Launches, Basics DEF HTransition, Gen
      <4> QED
        BY <2>2, <4>1
    <3>2. hb[g] \in HbState /\ {"probe", "reload", "tick"} \subseteq HbState
      BY DEF HbState
    <3>3. CASE g \notin launched' \ launched
      <4>1. hb'[g] \in {hb[g], "reload", "tick"}
        BY <2>4, <3>3
      <4> QED
        BY <3>2, <4>1
    <3> QED
      BY <3>1, <3>2, <3>3
  <2>6. hb' \in [Gen -> HbState]
    BY <2>2, <2>5
  <2> QED
    BY <2>3, <2>4, <2>6 DEF HbJoined
<1>2. ASSUME NEW g \in Gen, HeartbeatLoop(g)
      PROVE  \E s \in HbState \ {"off"} :
               hb' = [hb EXCEPT ![g] = s] /\ hb[g] \notin {"off", "ended"}
  BY <1>2 DEF HeartbeatLoop, HbTick, HbProbe, HbSave, HbFailed, HbRecovered, HbHealthy,
     HbRefused, HbState
<1>3. CASE hb' = hb
  BY <1>3 DEF HbJoined
<1>4. hb' = hb \/ HTransition \/ \E g \in Gen : HeartbeatLoop(g)
  BY DEF HNext, Unaffected, HDrainJoin, Recovery, RecRestarted, RecRefused, RecConfirmed,
     CooldownPasses, recRest, HCloseJoined, HCloseDone, hbVars, hVars
<1> QED
  BY <1>1, <1>2, <1>3, <1>4 DEF HbJoined

-----------------------------------------------------------------------------
(* The fast mode is counted                                                *)

Bad == {g \in Gen : prev[g] = "bad"}

FastInv ==
  /\ prev \in [Gen -> {"unknown", "good", "bad"}]
  /\ fast = Cardinality(Bad)

LEMMA BadIsFinite == IsFiniteSet(Bad) /\ Cardinality(Bad) \in Nat
<1>1. IsFiniteSet(Gen)
  BY FS_Interval, ManagerAssumption DEF Gen
<1>2. IsFiniteSet(Bad)
  BY <1>1, FS_Subset DEF Bad
<1> QED
  BY <1>2, FS_CardinalityType

LEMMA FastStep == FastInv /\ [HNext]_hVars => FastInv'
<1> SUFFICES ASSUME FastInv, [HNext]_hVars PROVE FastInv'
  OBVIOUS
<1>0. prev \in [Gen -> {"unknown", "good", "bad"}] /\ fast = Cardinality(Bad)
  BY DEF FastInv
<1>1. ASSUME NEW g \in Gen, HbFailed(g) PROVE FastInv'
  <2>1. prev' = [prev EXCEPT ![g] = "bad"]
    BY <1>1 DEF HbFailed
  <2>2. fast' = IF prev[g] = "bad" THEN fast ELSE fast + 1
    BY <1>1 DEF HbFailed, EnterFastMode
  <2>3. Bad' = Bad \cup {g} /\ (prev[g] = "bad" <=> g \in Bad)
    BY <1>0, <2>1 DEF Bad
  <2>4. prev' \in [Gen -> {"unknown", "good", "bad"}]
    BY <1>0, <2>1
  <2>5. Cardinality(Bad') = IF g \in Bad THEN Cardinality(Bad) ELSE Cardinality(Bad) + 1
    BY <2>3, BadIsFinite, FS_AddElement
  <2> QED
    BY <1>0, <2>2, <2>3, <2>4, <2>5 DEF FastInv
<1>2. ASSUME NEW g \in Gen, HbRecovered(g) PROVE FastInv'
  <2>1. prev' = [prev EXCEPT ![g] = "good"] /\ prev[g] = "bad"
    BY <1>2 DEF HbRecovered
  <2>2. fast' = IF fast > 0 THEN fast - 1 ELSE 0
    BY <1>2 DEF HbRecovered, LeaveFastMode
  <2>3. Bad' = Bad \ {g} /\ g \in Bad
    BY <1>0, <2>1 DEF Bad
  <2>4. prev' \in [Gen -> {"unknown", "good", "bad"}]
    BY <1>0, <2>1
  <2>5. Cardinality(Bad') = Cardinality(Bad) - 1 /\ Cardinality(Bad') \in Nat
    BY <2>3, BadIsFinite, FS_RemoveElement, FS_CardinalityType
  <2>6. Cardinality(Bad) \in Nat
    BY BadIsFinite
  <2> QED
    BY <1>0, <2>2, <2>4, <2>5, <2>6 DEF FastInv
<1>3. ASSUME NEW g \in Gen, HbHealthy(g) PROVE FastInv'
  <2>1. prev' = [prev EXCEPT ![g] = "good"] /\ prev[g] # "bad" /\ fast' = fast
    BY <1>3 DEF HbHealthy
  <2>2. Bad' = Bad
    BY <1>0, <2>1 DEF Bad
  <2>3. prev' \in [Gen -> {"unknown", "good", "bad"}]
    BY <1>0, <2>1
  <2> QED
    BY <1>0, <2>1, <2>2, <2>3 DEF FastInv
<1>4. UNCHANGED <<prev, fast>> \/ \E g \in Gen : HbFailed(g) \/ HbRecovered(g) \/ HbHealthy(g)
  BY DEF HNext, HTransition, Unaffected, HDrainJoin, HeartbeatLoop, HbTick, HbProbe, HbSave,
     HbRefused, hbRest, Recovery, RecRestarted, RecRefused, RecConfirmed, CooldownPasses,
     recRest, HCloseJoined, HCloseDone, hbVars, hVars
<1>5. CASE UNCHANGED <<prev, fast>>
  BY <1>0, <1>5 DEF FastInv, Bad
<1> QED
  BY <1>1, <1>2, <1>3, <1>4, <1>5

\* As long as the current generation's heartbeat fails, Vohive is polled in the fast mode,
\* whatever retired generations report (vohive_heartbeat.go:129-151).
THEOREM FastWhileItFails == HSpec => []FastWhileFailing
<1>1. HInit => FastInv
  <2> SUFFICES ASSUME HInit PROVE FastInv
    OBVIOUS
  <2>1. prev = [g \in Gen |-> "unknown"] /\ fast = 0
    BY DEF HInit
  <2>2. Bad = {} /\ Cardinality({}) = 0
    BY <2>1, FS_EmptySet DEF Bad
  <2> QED
    BY <2>1, <2>2 DEF FastInv
<1>2. FastInv /\ TypeOK => FastWhileFailing
  <2> SUFFICES ASSUME FastInv, TypeOK, instances # None, prev[instances] = "bad" PROVE fast > 0
    BY DEF FastWhileFailing
  <2>1. instances \in Gen
    BY ManagerAssumption DEF TypeOK, Gen, None
  <2>2. Bad # {}
    BY <2>1 DEF Bad
  <2>3. Cardinality(Bad) # 0 /\ Cardinality(Bad) \in Nat
    BY <2>2, BadIsFinite, FS_EmptySet
  <2> QED
    BY <2>3 DEF FastInv
<1>3. HInit => LossInv
  BY InitLoss DEF HInit
<1>4. LossInv /\ [HNext]_hVars => LossInv'
  BY LossStep, HeartbeatsRunManager
<1>5. LossInv => TypeOK
  BY DEF LossInv, IndInv, TypeInv
<1> QED
  BY <1>1, <1>2, <1>3, <1>4, <1>5, FastStep, PTL DEF HSpec

-----------------------------------------------------------------------------
(* The newest generation writes                                            *)

\* Of the heartbeats that go on, only the newest generation's has not been told to end.
NewestInv ==
  /\ hb \in [Gen -> HbState] /\ writer \in 0..ngen
  /\ \A g \in Gen : hb[g] # "off" => g <= ngen
  /\ \A g \in Gen : hb[g] # "off" /\ ~Cancelled(g) => g = ngen /\ (g = instances \/ closed)
  /\ op.step = "stopNew" => op.new \in ctxDone

\* What a call does to the generation in the map, and to the one it replaces
LEMMA CallsSupersede ==
  ASSUME TypeInv, CallOwns, Transition
  PROVE  /\ ctxDone \subseteq ctxDone'
         /\ closer' = closer
         /\ \/ ngen' = ngen /\ instances' = instances
            \/ /\ ngen' = ngen
               /\ \/ instances = None \/ instances \in ctxDone'
                  \/ op.step = "stopNew" /\ op.new = instances
            \/ /\ ngen' = ngen + 1 /\ instances' = ngen + 1 /\ ~closed
               /\ \/ instances = None
                  \/ op.step = "loaded" /\ op'.step = "waitNew" /\ op.old = instances
                  \/ op.step = "stopNew" /\ op.new = instances
         /\ op'.step = "stopNew" => op'.new \in ctxDone'
<1> USE DEF genVars, srvVars, drainVars, closeVars
<1>0. /\ TypeOK /\ CallInv /\ op \in OpType(ngen)
      /\ Idle.step = "idle" /\ (closed => op.step = "idle")
  BY Basics, IdleType DEF CallOwns
<1>1. CASE StartAll
  BY <1>0, <1>1 DEF StartAll, Create, CallInv, closed
<1>2. CASE BeginReload \/ PreflightFails \/ ReloadNothing \/ NewReady \/ RollbackSettles
           \/ StopJoined
  <2>1. UNCHANGED <<ngen, instances, ctxDone, closer>>
    BY <1>2 DEF BeginReload, PreflightFails, ReloadNothing, NewReady, RollbackSettles, StopJoined
  <2>2. op'.step \in {"idle", "loaded"}
    <3>1. CASE BeginReload
      BY <3>1 DEF BeginReload
    <3>2. CASE ~BeginReload
      <4>1. op' = Idle
        BY <1>2, <3>2 DEF PreflightFails, ReloadNothing, NewReady, RollbackSettles, StopJoined
      <4> QED
        BY <1>0, <4>1
    <3> QED
      BY <3>1, <3>2
  <2> QED
    BY <2>1, <2>2
<1>3. CASE EnableNew \/ HotSwap
  BY <1>0, <1>3 DEF EnableNew, HotSwap, Create, CallInv, Awaiting, closed
<1>4. CASE Rollback
  BY <1>0, <1>4 DEF Rollback, Create, CallInv, Awaiting, closed
<1>5. CASE DisableOld \/ Remove
  BY <1>0, <1>5 DEF DisableOld, Remove, Shutdown, CallInv, OpType
<1>6. CASE NewFails
  BY <1>0, <1>6 DEF NewFails, Shutdown, OpType
<1>7. CASE DropNew \/ RestorePlaceholder
  BY <1>0, <1>7 DEF DropNew, RestorePlaceholder, CallInv
<1> QED
  BY <1>1, <1>2, <1>3, <1>4, <1>5, <1>6, <1>7 DEF Transition

LEMMA NewestStep == NewestInv /\ LossInv /\ LossInv' /\ [HNext]_hVars => NewestInv'
<1> SUFFICES ASSUME NewestInv, LossInv, LossInv', [HNext]_hVars PROVE NewestInv'
  OBVIOUS
<1>0. /\ TypeInv /\ TypeOK /\ CallOwns /\ [Next]_vars
      /\ ngen \in Nat /\ ngen' \in Nat /\ MaxGen \in Nat
      /\ hb \in [Gen -> HbState] /\ writer \in 0..ngen
      /\ \A g \in Gen : hb[g] # "off" => g <= ngen
      /\ instances \in 0..ngen /\ ngen' \in 0..MaxGen
  <2>1. TypeInv /\ TypeOK /\ CallOwns /\ [Next]_vars
    BY HeartbeatsRunManager DEF LossInv, IndInv, TypeInv
  <2>2. TypeOK'
    BY DEF LossInv, IndInv, TypeInv
  <2> QED
    BY <2>1, <2>2, ManagerAssumption DEF NewestInv, TypeOK
<1>1. /\ hb' \in [Gen -> HbState]
      /\ \A g \in Gen : hb'[g] # "off" => hb[g] # "off" \/ (g = ngen' /\ g = instances')
  BY <1>0, HeartbeatMoves
<1>2. ngen <= ngen' /\ (closed => closed')
  <2>1. ngen <= ngen'
    BY <1>0, StepCreates DEF Create
  <2>2. closed => closed'
    <3>1. CASE Transition
      BY <1>0, <3>1, CallsSupersede DEF closed
    <3>2. CASE ~Transition /\ ~CloseTake
      BY <1>0, <3>2, Elsewhere DEF closed
    <3>3. CASE CloseTake
      BY <3>3 DEF CloseTake, closed
    <3> QED
      BY <3>1, <3>2, <3>3
  <2> QED
    BY <2>1, <2>2
<1>3. writer' = writer \/ \E g \in Gen : HbSave(g)
  BY DEF HNext, HTransition, Unaffected, HDrainJoin, HeartbeatLoop, HbTick, HbProbe, HbSave,
     HbFailed, HbRecovered, HbHealthy, HbRefused, hbRest, Recovery, RecRestarted, RecRefused,
     RecConfirmed, CooldownPasses, recRest, HCloseJoined, HCloseDone, hbVars, hVars
<1>4. writer' \in 0..ngen'
  <2>1. ASSUME NEW g \in Gen, HbSave(g) PROVE writer' \in {writer, g} /\ hb[g] # "off"
    BY <2>1 DEF HbSave
  <2> QED
    BY <1>0, <1>2, <1>3, <2>1 DEF Gen
<1>5. \A g \in Gen : hb'[g] # "off" => g <= ngen'
  BY <1>0, <1>1, <1>2 DEF Gen
<1>6. hbStopped \subseteq hbStopped'
  BY DEF HNext, HTransition, HeartbeatCancelled, Unaffected, HDrainJoin, HeartbeatLoop, HbTick,
     HbProbe, HbSave, HbFailed, HbRecovered, HbHealthy, HbRefused, hbRest, Recovery,
     RecRestarted, RecRefused, RecConfirmed, CooldownPasses, recRest, HCloseJoined, HCloseDone,
     hbVars, hVars
<1>7. ctxDone \subseteq ctxDone'
  <2>1. CASE Transition
    BY <1>0, <2>1, CallsSupersede
  <2>2. CASE ~Transition
    BY ZenonT(60), <1>0, <2>2 DEF Next, Administrator, SaveConfig, DeleteRow, ListenerLoop, Bind, Install,
       Retry, Watch, AcceptFails, listenerRest, Sessions, Accept, SessionEnds, Drainer,
       DrainBegin, DrainEnd, DrainJoin, DrainExpires, drainRest, Interrupt, Closing, CloseTake,
       CloseShutdown, CloseJoined, CloseDone, Shutdown, closeRest, vars, TypeOK
  <2> QED
    BY <2>1, <2>2
<1>8. ngen' # ngen => HTransition
  <2>1. ~HTransition => (Administrator \/ (\E g \in Gen, p \in Proto : ListenerLoop(g, p) \/ AcceptFails(g, p))
                          \/ Sessions \/ (\E g \in Gen : Drainer(g)) \/ Interrupt \/ Closing
                          \/ UNCHANGED vars)
    BY DEF HNext, Unaffected, HDrainJoin, HeartbeatLoop, HbTick, HbProbe, HbSave, HbFailed,
       HbRecovered, HbHealthy, HbRefused, hbRest, Recovery, RecRestarted, RecRefused,
       RecConfirmed, CooldownPasses, recRest, HCloseJoined, HCloseDone, hVars, Drainer, Closing
  <2> QED
    BY <1>0, <2>1, Outside
<1>9. op'.step = "stopNew" => op'.new \in ctxDone'
  <2>1. CASE Transition
    BY <1>0, <2>1, CallsSupersede
  <2>2. CASE ~Transition /\ ~CloseTake
    BY <1>0, <1>7, <2>2, Elsewhere DEF NewestInv
  <2>3. CASE CloseTake
    BY <1>7, <2>3 DEF CloseTake, NewestInv
  <2> QED
    BY <2>1, <2>2, <2>3
<1>10. ASSUME NEW g \in Gen, hb'[g] # "off", ~Cancelled(g)'
       PROVE  g = ngen' /\ (g = instances' \/ closed')
  <2>1. CASE hb[g] = "off"
    BY <1>1, <1>10, <2>1
  <2>2. CASE hb[g] # "off"
    <3>1. ~Cancelled(g)
      BY <1>6, <1>7, <1>10 DEF Cancelled
    <3>2. g = ngen /\ (g = instances \/ closed)
      BY <2>2, <3>1 DEF NewestInv
    <3>3. g \notin ctxDone' /\ g \notin hbStopped' /\ g # None
      BY <1>10 DEF Cancelled, Gen, None
    <3>4. op.step = "stopNew" => op.new \in ctxDone'
      BY <1>7 DEF NewestInv
    <3>5. CASE ngen' # ngen
      <4>1. HTransition /\ Transition
        BY <1>8, <3>5 DEF HTransition
      <4>2. ~closed /\ op.step = "loaded" /\ op'.step = "waitNew" /\ op.old = instances
        BY <1>0, <3>2, <3>3, <3>4, <3>5, <4>1, CallsSupersede
      <4>3. g \in hbStopped'
        BY <3>2, <3>3, <4>1, <4>2 DEF HTransition, HeartbeatCancelled
      <4> QED
        BY <3>3, <4>3
    <3>6. CASE ngen' = ngen /\ Transition
      <4>1. instances' = instances \/ instances = None \/ instances \in ctxDone'
        BY <1>0, <3>4, <3>6, CallsSupersede
      <4> QED
        BY <1>2, <3>2, <3>3, <3>6, <4>1
    <3>7. CASE ngen' = ngen /\ ~Transition /\ ~CloseTake
      <4>1. instances' = instances
        BY <1>0, <3>7, Elsewhere
      <4> QED
        BY <1>2, <3>2, <3>7, <4>1
    <3>8. CASE ngen' = ngen /\ CloseTake
      BY <3>2, <3>8 DEF CloseTake, closed
    <3> QED
      BY <3>5, <3>6, <3>7, <3>8
  <2> QED
    BY <2>1, <2>2
<1> QED
  BY <1>1, <1>4, <1>5, <1>9, <1>10 DEF NewestInv

\* No generation writes the heartbeat row after one that replaced it (manager.go:266-268,
\* 594-595, heartbeat.go:211-218).
THEOREM NewestGenerationWrites == HSpec => NewestWriterWins
<1>1. HInit => NewestInv /\ LossInv
  <2> SUFFICES ASSUME HInit PROVE NewestInv
    BY InitLoss DEF HInit
  <2>1. Init /\ hb = [g \in Gen |-> "off"] /\ writer = None
    BY DEF HInit
  <2>2. ngen = 0 /\ op.step = "start"
    BY <2>1 DEF Init, Idle
  <2> QED
    BY <2>1, <2>2 DEF NewestInv, HbState, None
<1>2. LossInv /\ [HNext]_hVars => LossInv'
  BY LossStep, HeartbeatsRunManager
<1>3. NewestInv /\ LossInv /\ [HNext]_hVars
        => [writer' # writer /\ writer # None => writer' > writer]_hVars
  <2> SUFFICES ASSUME NewestInv, LossInv, HNext, writer' # writer PROVE writer' > writer
    OBVIOUS
  <2>1. PICK g \in Gen : HbSave(g)
    BY DEF HNext, HTransition, Unaffected, HDrainJoin, HeartbeatLoop, HbTick, HbProbe,
       HbFailed, HbRecovered, HbHealthy, HbRefused, hbRest, Recovery, RecRestarted, RecRefused,
       RecConfirmed, CooldownPasses, recRest, HCloseJoined, HCloseDone, hbVars
  <2>2. hb[g] = "save" /\ ~Cancelled(g) /\ writer' = g
    BY <2>1 DEF HbSave
  <2>3. g = ngen /\ writer \in 0..ngen
    BY <2>2 DEF NewestInv
  <2> QED
    BY <2>2, <2>3 DEF Gen
<1> QED
  BY <1>1, <1>2, <1>3, NewestStep, PTL DEF HSpec, NewestWriterWins

-----------------------------------------------------------------------------
(* Every heartbeat has somebody who waits for it                           *)

\* The heartbeat of g has not begun or has ended, or somebody will wait for its goroutines:
\* the map's next owner, its drain, Close, or the call in progress.
Attended(g) ==
  \/ HbJoined(g)
  \/ g = instances
  \/ Draining(g)
  \/ closer \in {"taken", "join"} /\ g = victim
  \/ op.step \in HandOver /\ g = op.old

AttendedInv ==
  /\ hb \in [Gen -> HbState] /\ rec \in [Gen -> RecState]
  /\ \A g \in Gen : hb[g] # "off" => g <= ngen
  /\ \A g \in Gen : Attended(g)
  /\ closer = "done" => \A g \in Gen : rec[g] = "none"

LEMMA AttendedAtTheEnd ==
  ASSUME LossInv, AttendedInv, closer = "done" PROVE \A g \in Gen : HbJoined(g)
<1>1. instances = None /\ op.step = "idle"
  BY DEF LossInv, CallOwns, closed
<1>2. \A g \in Gen : ~Draining(g) /\ g # None
  BY DEF LossInv, CloseOwns, Gen, None
<1> QED
  BY <1>1, <1>2 DEF AttendedInv, Attended, HandOver

\* What a call that goes on does with the generations it holds
LEMMA CallsHandOn ==
  ASSUME LossInv, [Next]_vars, Transition, NEW g \in Gen,
         g = instances \/ Draining(g) \/ (closer \in {"taken", "join"} /\ g = victim)
           \/ (op.step \in HandOver /\ g = op.old)
  PROVE  \/ g = instances' \/ Draining(g)'
         \/ closer' \in {"taken", "join"} /\ g = victim'
         \/ op'.step \in HandOver /\ g = op'.old
         \/ op.step = "stopNew" /\ g = op.new
         \/ op.step \in {"disable", "remove"} /\ g = op.old
<1> USE DEF genVars, srvVars, drainVars, closeVars
<1>0. /\ TypeOK /\ CallInv /\ op \in OpType(ngen) /\ drain \in [Gen -> DrainState]
      /\ g # None /\ Idle.step = "idle" /\ Idle.old = None /\ instances \in 0..ngen
  <2>1. TypeOK /\ CallInv /\ op \in OpType(ngen) /\ instances \in 0..ngen
    BY Basics DEF LossInv, IndInv
  <2>2. drain \in [Gen -> DrainState]
    BY <2>1 DEF TypeOK
  <2>3. g # None
    BY DEF Gen, None
  <2> QED
    BY <2>1, <2>2, <2>3, IdleType
<1>1. closer' = closer /\ victim' = victim
  BY DEF Transition, StartAll, BeginReload, PreflightFails, ReloadNothing, EnableNew, DisableOld,
     HotSwap, NewReady, NewFails, DropNew, RestorePlaceholder, Rollback, RollbackSettles, Remove,
     StopJoined
<1>2. Draining(g) => Draining(g)'
  <2>1. drain' = drain \/ (op.old # None /\ ScheduleDrain(op.old)) \/ ScheduleDrain(op.old)
    BY DEF Transition, StartAll, BeginReload, PreflightFails, ReloadNothing, EnableNew,
       DisableOld, HotSwap, NewReady, NewFails, DropNew, RestorePlaceholder, Rollback,
       RollbackSettles, Remove, StopJoined
  <2> QED
    BY <1>0, <2>1 DEF Draining, ScheduleDrain
<1>3. CASE StartAll \/ BeginReload \/ PreflightFails \/ ReloadNothing
  BY <1>0, <1>1, <1>2, <1>3 DEF StartAll, BeginReload, PreflightFails, ReloadNothing, CallInv,
     HandOver
<1>4. CASE EnableNew \/ HotSwap \/ DisableOld
  BY <1>0, <1>1, <1>2, <1>4 DEF EnableNew, HotSwap, DisableOld, Awaiting, CallInv, HandOver, OpType
<1>5. CASE NewReady \/ RollbackSettles
  <2>1. op.old = g => Draining(g)'
    BY <1>0, <1>5 DEF NewReady, RollbackSettles, ScheduleDrain, Draining
  <2> QED
    BY <1>0, <1>1, <1>2, <1>5, <2>1 DEF NewReady, RollbackSettles
<1>6. CASE NewFails
  <2>1. op.step = "waitNew" /\ op'.step = "stopNew" /\ op'.old = op.old /\ instances' = instances
    BY <1>0, <1>6 DEF NewFails, OpType
  <2> QED
    BY <1>1, <1>2, <2>1 DEF HandOver
<1>7. CASE DropNew \/ RestorePlaceholder \/ Rollback
  <2>1. op.step = "stopNew" /\ op.new = instances
    <3>1. op.step = "stopNew"
      BY <1>7 DEF DropNew, RestorePlaceholder, Rollback
    <3>2. op.new = instances
      BY <1>0, <3>1 DEF CallInv
    <3> QED
      BY <3>1, <3>2
  <2>2. CASE g = op.old
    <3>1. CASE DropNew \/ RestorePlaceholder
      BY <1>0, <2>2, <3>1 DEF DropNew, RestorePlaceholder
    <3>2. CASE Rollback
      <4>1. op'.step = "waitBack" /\ op'.old = op.old
        BY <3>2 DEF Rollback, Awaiting
      <4> QED
        BY <2>2, <4>1 DEF HandOver
    <3> QED
      BY <1>7, <3>1, <3>2
  <2> QED
    BY <1>1, <1>2, <2>1, <2>2
<1>8. CASE Remove \/ StopJoined
  BY <1>0, <1>1, <1>2, <1>8 DEF Remove, StopJoined, HandOver
<1> QED
  BY <1>3, <1>4, <1>5, <1>6, <1>7, <1>8 DEF Transition

\* Outside the calls, and the steps that wait for goroutines, nobody changes hands.
LEMMA NothingHandedOn ==
  ASSUME TypeInv, NEW g \in Gen,
         \/ Administrator
         \/ \E h \in Gen, p \in Proto : ListenerLoop(h, p) \/ AcceptFails(h, p)
         \/ Sessions
         \/ \E h \in Gen, p \in Proto : DrainBegin(h, p) \/ DrainEnd(h, p)
         \/ \E h \in Gen : DrainExpires(h)
         \/ Interrupt \/ CloseShutdown \/ UNCHANGED vars
  PROVE  /\ UNCHANGED <<instances, victim>> /\ op'.step = op.step /\ op'.old = op.old
         /\ closer' = closer \/ (closer = "taken" /\ closer' = "join")
         /\ Draining(g) => Draining(g)'
<1> USE DEF genVars, srvVars, drainVars, closeVars
<1>0. op \in OpType(ngen) /\ drain \in [Gen -> DrainState]
  BY Basics DEF TypeOK
<1>1. ASSUME NEW h \in Gen, NEW q \in Proto, ListenerLoop(h, q) \/ AcceptFails(h, q)
      PROVE  /\ op' = op \/ op' = [op EXCEPT !.err = TRUE]
             /\ UNCHANGED <<instances, victim, closer, drain>>
  BY <1>1 DEF ListenerLoop, Bind, Install, Retry, Watch, AcceptFails, listenerRest, StartupError
<1>2. op' = [op EXCEPT !.err = TRUE] => op'.step = op.step /\ op'.old = op.old
  BY <1>0 DEF OpType
<1>3. ASSUME NEW h \in Gen, NEW q \in Proto, DrainBegin(h, q) \/ DrainEnd(h, q)
      PROVE  UNCHANGED <<instances, victim, closer, op>> /\ (Draining(g) => Draining(g)')
  BY <1>0, <1>3 DEF DrainBegin, DrainEnd, drainRest, AfterDrain, Draining
<1>4. CASE Administrator \/ Sessions \/ (\E h \in Gen : DrainExpires(h)) \/ Interrupt
           \/ CloseShutdown \/ UNCHANGED vars
  <2>1. /\ UNCHANGED <<instances, victim, op, drain>>
        /\ closer' = closer \/ (closer = "taken" /\ closer' = "join")
    BY <1>4 DEF Administrator, SaveConfig, DeleteRow, Sessions, Accept, SessionEnds,
       DrainExpires, drainRest, Interrupt, CloseShutdown, closeRest, vars
  <2> QED
    BY <2>1 DEF Draining
<1> QED
  BY <1>1, <1>2, <1>3, <1>4 DEF Draining

LEMMA AttendedStep == AttendedInv /\ LossInv /\ LossInv' /\ [HNext]_hVars => AttendedInv'
<1> SUFFICES ASSUME AttendedInv, LossInv, LossInv', [HNext]_hVars PROVE AttendedInv'
  OBVIOUS
<1>0. /\ TypeInv /\ TypeOK /\ CallOwns /\ [Next]_vars
      /\ ngen \in Nat /\ ngen' \in Nat /\ drain \in [Gen -> DrainState]
      /\ hb \in [Gen -> HbState] /\ rec \in [Gen -> RecState]
      /\ \A g \in Gen : hb[g] # "off" => g <= ngen
  <2>1. TypeInv /\ TypeOK /\ CallOwns /\ [Next]_vars
    BY HeartbeatsRunManager DEF LossInv, IndInv, TypeInv
  <2>2. TypeOK'
    BY DEF LossInv, IndInv, TypeInv
  <2> QED
    BY <2>1, <2>2, ManagerAssumption DEF AttendedInv, TypeOK
<1>1. /\ hb' \in [Gen -> HbState]
      /\ \A g \in Gen : hb'[g] # "off" => hb[g] # "off" \/ (g = ngen' /\ g = instances')
      /\ \A g \in Gen : HbJoined(g) => HbJoined(g)' \/ g = instances'
  BY <1>0, HeartbeatMoves
<1>2. \A g \in Gen : hb'[g] # "off" => g <= ngen'
  <2>1. ngen <= ngen'
    BY <1>0, StepCreates DEF Create
  <2> QED
    BY <1>0, <1>1, <2>1 DEF Gen
<1>3. ASSUME NEW g \in Gen PROVE Attended(g)'
  <2>1. CASE HbJoined(g)
    BY <1>1, <2>1 DEF Attended
  <2>2. CASE HTransition /\ ~HbJoined(g)
    <3>1. Transition /\ WaitsForHeartbeat
      BY <2>2 DEF HTransition
    <3>2. Attended(g)
      BY DEF AttendedInv
    <3>3. \/ g = instances' \/ Draining(g)'
          \/ closer' \in {"taken", "join"} /\ g = victim'
          \/ op'.step \in HandOver /\ g = op'.old
          \/ op.step = "stopNew" /\ g = op.new
          \/ op.step \in {"disable", "remove"} /\ g = op.old
      BY <1>0, <2>2, <3>1, <3>2, CallsHandOn DEF Attended
    <3> QED
      BY <2>2, <3>1, <3>3 DEF WaitsForHeartbeat, Attended
  <2>3. CASE ~HTransition /\ ~HbJoined(g)
    <3>1. Attended(g)
      BY DEF AttendedInv
    <3>2. CASE CloseTake
      BY <1>0, <2>3, <3>1, <3>2 DEF CloseTake, Attended, drainVars, Draining, HandOver, closed, closeVars, srvVars
    <3>3. CASE HCloseJoined
      BY <1>0, <2>3, <3>1, <3>3 DEF HCloseJoined, CloseJoined, Attended, drainVars, Draining, Gen, None
    <3>4. CASE HCloseDone
      BY <1>0, <2>3, <3>1, <3>4 DEF HCloseDone, CloseDone, Attended, drainVars, Draining
    <3>5. ASSUME NEW h \in Gen, HDrainJoin(h) PROVE Attended(g)'
      <4>1. /\ g # h
            /\ drain' = [drain EXCEPT ![h] = "done"]
            /\ UNCHANGED <<instances, closer, victim, op>>
        BY <2>3, <3>5 DEF HDrainJoin, DrainJoin, drainRest, closeVars
      <4>2. drain'[g] = drain[g]
        BY <1>0, <4>1
      <4> QED
        BY <2>3, <3>1, <4>1, <4>2 DEF Attended, Draining
    <3>6. CASE /\ ~CloseTake /\ ~HCloseJoined /\ ~HCloseDone
               /\ ~ (\E h \in Gen : HDrainJoin(h))
      <4>1. \/ Administrator
            \/ \E h \in Gen, p \in Proto : ListenerLoop(h, p) \/ AcceptFails(h, p)
            \/ Sessions
            \/ \E h \in Gen, p \in Proto : DrainBegin(h, p) \/ DrainEnd(h, p)
            \/ \E h \in Gen : DrainExpires(h)
            \/ Interrupt \/ CloseShutdown \/ UNCHANGED vars
        BY <2>3, <3>6 DEF HNext, Unaffected, HeartbeatLoop, HbTick, HbProbe,
           HbSave, HbFailed, HbRecovered, HbHealthy, HbRefused, hbRest, Recovery, RecRestarted,
           RecRefused, RecConfirmed, CooldownPasses, recRest, hVars
      <4>2. /\ UNCHANGED <<instances, victim>> /\ op'.step = op.step /\ op'.old = op.old
            /\ closer' = closer \/ (closer = "taken" /\ closer' = "join")
            /\ Draining(g) => Draining(g)'
        BY <1>0, <4>1, NothingHandedOn
      <4> QED
        BY <2>3, <3>1, <4>2 DEF Attended
    <3> QED
      BY <3>2, <3>3, <3>4, <3>5, <3>6
  <2> QED
    BY <2>1, <2>2, <2>3
<1>4. /\ rec' \in [Gen -> RecState]
      /\ closer' = "done" => \A g \in Gen : rec'[g] = "none"
  <2>1. CASE HTransition
    <3>1. PICK c \in Callers : RecFollows(c)
      BY <2>1 DEF HTransition
    <3>2. PICK ok \in BOOLEAN :
            rec' = [g \in Gen |->
              CASE c = <<"rec", g>> /\ rec[g] = "want" -> "reload"
                [] rec[g] = "reload" /\ op'.step = "idle" ->
                     IF ok THEN "confirm" ELSE "none"
                [] OTHER -> rec[g]]
      BY <3>1 DEF RecFollows
    <3>3. \A g \in Gen : /\ rec'[g] \in {rec[g], "reload", "confirm", "none"}
                         /\ rec[g] = "none" => rec'[g] = "none"
      BY <3>2
    <3>4. rec' \in [Gen -> RecState]
      <4>1. \A g \in Gen : rec'[g] \in RecState
        <5> SUFFICES ASSUME NEW g \in Gen PROVE rec'[g] \in RecState
          OBVIOUS
        <5>1. rec'[g] \in {rec[g], "reload", "confirm", "none"}
          BY <3>3
        <5>2. rec[g] \in RecState
          BY <1>0
        <5> QED
          BY <5>1, <5>2 DEF RecState
      <4> QED
        BY <3>2, <4>1
    <3>5. closer' = closer
      <4>1. Transition
        BY <2>1 DEF HTransition
      <4> QED
        BY <1>0, <4>1, CallsSupersede
    <3> QED
      BY <3>3, <3>4, <3>5 DEF AttendedInv
  <2>2. ASSUME NEW g \in Gen, HbFailed(g)
        PROVE  rec' \in [Gen -> RecState] /\ closer' # "done"
    <3>1. rec' = rec \/ rec' = [rec EXCEPT ![g] = "restart"]
      BY <2>2 DEF HbFailed, recVars
    <3>2. closer' = closer /\ ~HbJoined(g)
      BY <2>2 DEF HbFailed, vars, closeVars, HbJoined
    <3> QED
      BY <1>0, <3>1, <3>2, AttendedAtTheEnd DEF RecState
  <2>3. ASSUME NEW g \in Gen, Recovery(g)
        PROVE  /\ rec' \in [Gen -> RecState] /\ closer' = closer
               /\ \A h \in Gen : rec[h] = "none" => rec'[h] = "none"
    BY <1>0, <2>3 DEF Recovery, RecRestarted, RecRefused, RecConfirmed, recRest, vars, closeVars,
       RecState
  <2>4. CASE HCloseDone
    BY <1>0, <2>4 DEF HCloseDone, recVars
  <2>5. CASE UNCHANGED <<closer, rec>> \/ (rec' = rec /\ closer' # "done")
    BY <1>0, <2>5 DEF AttendedInv
  <2>6. \/ HTransition \/ (\E g \in Gen : HbFailed(g) \/ Recovery(g)) \/ HCloseDone
        \/ UNCHANGED <<closer, rec>> \/ (rec' = rec /\ closer' # "done")
    <3>1. CASE Unaffected
      <4>1. rec' = rec
        BY <3>1 DEF Unaffected, recVars
      <4>2. closer' = closer \/ closer' \in {"taken", "join"}
        BY <3>1 DEF Unaffected, Administrator, SaveConfig, DeleteRow, ListenerLoop, Bind,
           Install, Retry, Watch, AcceptFails, listenerRest, Sessions, Accept, SessionEnds,
           DrainBegin, DrainEnd, DrainExpires, drainRest, Interrupt, CloseTake, CloseShutdown,
           closeVars
      <4> QED
        BY <4>1, <4>2
    <3>2. ASSUME NEW g \in Gen, HDrainJoin(g) PROVE UNCHANGED <<closer, rec>>
      BY <3>2 DEF HDrainJoin, DrainJoin, drainRest, closeVars, recVars
    <3>3. CASE HCloseJoined
      BY <3>3 DEF HCloseJoined, CloseJoined, recVars
    <3>4. ASSUME NEW g \in Gen, HeartbeatLoop(g) \/ CooldownPasses(g), ~HbFailed(g)
          PROVE  UNCHANGED <<closer, rec>>
      BY <3>4 DEF HeartbeatLoop, HbTick, HbProbe, HbSave, HbRecovered, HbHealthy, HbRefused,
         hbRest, CooldownPasses, recRest, recVars, vars, closeVars
    <3>5. CASE UNCHANGED hVars
      BY <3>5 DEF hVars, vars, closeVars, recVars
    <3> QED
      BY <3>1, <3>2, <3>3, <3>4, <3>5 DEF HNext
  <2> QED
    BY <2>1, <2>2, <2>3, <2>4, <2>5, <2>6 DEF AttendedInv
<1> QED
  BY <1>1, <1>2, <1>3, <1>4 DEF AttendedInv

\* A Reload that a heartbeat or a recovery is in holds m.transition.
CallersCall ==
  \A g \in Gen : hb[g] = "reload" \/ rec[g] = "reload" => op.step # "idle"

LEMMA CallersCallStep ==
  AttendedInv /\ LossInv /\ CallersCall /\ [HNext]_hVars => CallersCall'
<1> SUFFICES ASSUME AttendedInv, LossInv, CallersCall, [HNext]_hVars, NEW g \in Gen,
                    hb'[g] = "reload" \/ rec'[g] = "reload"
             PROVE  op'.step # "idle"
  BY DEF CallersCall
<1>0. TypeInv /\ [Next]_vars /\ hb \in [Gen -> HbState] /\ rec \in [Gen -> RecState]
  BY HeartbeatsRunManager DEF LossInv, IndInv, AttendedInv
<1>1. CASE HTransition
  <2> SUFFICES ASSUME op'.step = "idle" PROVE FALSE
    OBVIOUS
  <2>1. PICK c \in Callers : HbFollows(c) /\ RecFollows(c)
    BY <1>1 DEF HTransition
  <2>2. c = Admin
    BY <2>1 DEF Callers
  <2>3. c # <<"hb", g>> /\ c # <<"rec", g>>
    BY <2>2 DEF Admin
  <2>4. hb'[g] # "reload"
    <3>1. hb'[g] = CASE g \in launched' \ launched            -> "probe"
                     [] c = <<"hb", g>> /\ hb[g] = "want"     -> "reload"
                     [] hb[g] = "reload" /\ op'.step = "idle" -> "tick"
                     [] OTHER                                 -> hb[g]
      BY <2>1 DEF HbFollows
    <3> QED
      BY <2>3, <3>1
  <2>5. rec'[g] # "reload"
    <3>1. PICK ok \in BOOLEAN :
            rec'[g] = CASE c = <<"rec", g>> /\ rec[g] = "want" -> "reload"
                        [] rec[g] = "reload" /\ op'.step = "idle" ->
                             IF ok THEN "confirm" ELSE "none"
                        [] OTHER -> rec[g]
      BY <2>1 DEF RecFollows
    <3> QED
      BY <2>3, <3>1
  <2> QED
    BY <2>4, <2>5
<1>2. CASE ~HTransition
  <2>1. hb[g] = "reload" \/ rec[g] = "reload"
    <3>1. ASSUME NEW h \in Gen, HeartbeatLoop(h) \/ Recovery(h) \/ CooldownPasses(h)
          PROVE  hb[g] = "reload" \/ rec[g] = "reload"
      BY <1>0, <3>1 DEF HeartbeatLoop, HbTick, HbProbe, HbSave, HbFailed, HbRecovered,
         HbHealthy, HbRefused, hbRest, Recovery, RecRestarted, RecRefused, RecConfirmed,
         CooldownPasses, recRest, recVars, hbVars
    <3>2. CASE Unaffected \/ HCloseJoined \/ HCloseDone \/ (\E h \in Gen : HDrainJoin(h))
               \/ UNCHANGED hVars
      BY <3>2 DEF Unaffected, HCloseJoined, HCloseDone, HDrainJoin, hbVars, recVars, hVars
    <3> QED
      BY <1>2, <3>1, <3>2 DEF HNext
  <2>2. op'.step = op.step
    <3>1. CASE CloseTake \/ HCloseJoined \/ HCloseDone \/ (\E h \in Gen : HDrainJoin(h))
      BY <3>1 DEF CloseTake, HCloseJoined, CloseJoined, HCloseDone, CloseDone, HDrainJoin,
         DrainJoin, drainRest
    <3>2. CASE ~CloseTake /\ ~HCloseJoined /\ ~HCloseDone /\ ~ (\E h \in Gen : HDrainJoin(h))
      <4>1. \/ Administrator
            \/ \E h \in Gen, p \in Proto : ListenerLoop(h, p) \/ AcceptFails(h, p)
            \/ Sessions
            \/ \E h \in Gen, p \in Proto : DrainBegin(h, p) \/ DrainEnd(h, p)
            \/ \E h \in Gen : DrainExpires(h)
            \/ Interrupt \/ CloseShutdown \/ UNCHANGED vars
        BY <1>2, <3>2 DEF HNext, Unaffected, HeartbeatLoop, HbTick, HbProbe,
           HbSave, HbFailed, HbRecovered, HbHealthy, HbRefused, hbRest, Recovery, RecRestarted,
           RecRefused, RecConfirmed, CooldownPasses, recRest, hVars
      <4> QED
        BY <1>0, <4>1, NothingHandedOn
    <3> QED
      BY <3>1, <3>2
  <2> QED
    BY <2>1, <2>2 DEF CallersCall
<1> QED
  BY <1>1, <1>2

\* Once Close has m.transition, whoever it waits for can go on.
LEMMA CloseIsNotStuck ==
  ASSUME StuckInv, AttendedInv, CallersCall PROVE CloseGoesOn
<1> SUFFICES ASSUME closer \in {"taken", "join", "drains"} PROVE CloseMoves
  BY DEF CloseGoesOn
<1>0. /\ op.step = "idle" /\ closed /\ WaitedIsStopped /\ DrainLeaves /\ NobodyStuck
      /\ \A n \in 0..ngen : n \in Gen \/ n = None
      /\ victim \in 0..ngen /\ ctxDone \subseteq Gen
  <2>1. SuccInv /\ WaitedIsStopped /\ NobodyStuck
    BY StuckByNobody DEF StuckInv
  <2>2. closed /\ CallOwns /\ DrainLeaves
    BY <2>1 DEF SuccInv, LossInv, closed
  <2> QED
    BY <2>1, <2>2, SuccFacts DEF CallOwns
<1>1. Refused
  BY <1>0 DEF Refused
<1>2. ASSUME NEW g \in ctxDone PROVE HbJoined(g) \/ HeartbeatsTurn(g)
  <2>1. hb[g] \in HbState \ {"reload"}
    BY <1>0, <1>2 DEF AttendedInv, CallersCall
  <2> QED
    BY <1>1, <1>2, <2>1 DEF HbState, HbJoined, HeartbeatsTurn
<1>3. ASSUME NEW g \in Gen PROVE rec[g] = "none" \/ RecoveriesTurn(g)
  <2>1. rec[g] \in RecState \ {"reload"}
    BY <1>0 DEF AttendedInv, CallersCall
  <2> QED
    BY <1>1, <2>1 DEF RecState, RecoveriesTurn
<1>4. CASE ClosesTurn
  <2>1. CASE closer = "join" /\ victim # None
    <3>1. victim \in ctxDone /\ victim \in Gen
      BY <1>0, <2>1 DEF WaitedIsStopped
    <3> QED
      BY <1>2, <1>4, <2>1, <3>1 DEF CloseMoves
  <2>2. CASE closer = "drains"
    BY <1>3, <1>4, <2>2 DEF CloseMoves
  <2>3. CASE ~ (closer = "join" /\ victim # None) /\ closer # "drains"
    BY <1>4, <2>3 DEF CloseMoves
  <2> QED
    BY <2>1, <2>2, <2>3
<1>5. ASSUME NEW g \in Gen, LoopsTurn(g) \/ DrainsTurn(g) PROVE CloseMoves
  <2>1. CASE drain[g] = "join"
    <3>1. g \in ctxDone
      BY <1>0, <2>1 DEF DrainLeaves
    <3> QED
      BY <1>2, <1>5, <3>1 DEF CloseMoves
  <2>2. CASE drain[g] # "join"
    BY <1>5, <2>2 DEF CloseMoves
  <2> QED
    BY <2>1, <2>2
<1> QED
  BY <1>0, <1>4, <1>5 DEF NobodyStuck

\* When Close has returned, no heartbeat and no recovery of any generation is left to call
\* Reload, and while it has not, whoever it waits for can go on: the deadlock that a heartbeat
\* may cause by its Reload comes before Close, never in it (manager.go:332-366,
\* heartbeat.go:51-60).
THEOREM CloseEndsEveryRecovery == HSpec => []CloseEndsRecovery
<1>1. HInit => AttendedInv /\ StuckInv /\ CallersCall
  <2> SUFFICES ASSUME HInit PROVE AttendedInv /\ CallersCall
    BY InitStuck DEF HInit
  <2>1. Init /\ hb = [g \in Gen |-> "off"] /\ rec = [g \in Gen |-> "none"]
    BY DEF HInit
  <2> QED
    BY <2>1 DEF AttendedInv, Attended, HbState, RecState, HbJoined, CallersCall
<1>2. StuckInv /\ [HNext]_hVars => StuckInv'
  BY StuckStep, HeartbeatsRunManager
<1>3. StuckInv => LossInv
  BY DEF StuckInv, SuccInv
<1>4. AttendedInv /\ StuckInv /\ CallersCall => CloseEndsRecovery
  BY <1>3, AttendedAtTheEnd, CloseIsNotStuck DEF CloseEndsRecovery, AttendedInv
<1> QED
  BY <1>1, <1>2, <1>3, <1>4, AttendedStep, CallersCallStep, PTL DEF HSpec

\* Whatever heartbeats and recoveries do, and whoever calls Reload, clients see the
\* generations succeed one another (heartbeat.go:43-60, 197-233).
THEOREM HeartbeatsKeepSuccession == HSpec => GenerationsSucceed
<1>1. HInit => SuccInv /\ Clients!Init
  BY InitSucc, InitClients DEF HInit
<1>2. SuccInv /\ [HNext]_hVars => SuccInv' /\ [Clients!Next]_(Clients!vars)
  BY SuccStep, StepClients, HeartbeatsRunManager
<1> QED
  BY <1>1, <1>2, PTL DEF HSpec, GenerationsSucceed, Clients!Spec

-----------------------------------------------------------------------------
(* Traffic                                                                 *)

\* The manager still accounts for the server: it runs, or it may run again.
Kept == ~closed /\ (stored.row \/ instances # None \/ op.step # "idle")

Beyond   == [g \in Gen |-> subtractCounter(count[g], base[g])]
Handed   == (1..ngen \ dropped) \ {instances}
Swapping == {"waitNew", "stopNew", "waitBack"}

TrafficTypes ==
  /\ count \in [Gen -> Nat] /\ base \in [Gen -> Nat]
  /\ carry \in Nat /\ last \in Nat /\ rows \in Nat
  /\ retiring \subseteq Gen /\ dropped \subseteq Gen

\* What was handed over and what was counted since is what the generations outside the map
\* have counted;
Balance == Kept => carry + SumFunctionOnSet(Beyond, retiring) = SumFunctionOnSet(count, Handed)

\* a retiring generation was launched, has left the map and is still counting up from its base;
Retired ==
  \A g \in retiring :
    g <= ngen /\ g \in launched /\ g # instances /\ g \notin dropped /\ base[g] <= count[g]

\* a generation that is dropped is about to leave the map, or has left it for good;
Dropped ==
  /\ \A g \in dropped : g <= ngen /\ (g = instances => op.step = "stopNew")
  /\ op.step = "stopNew" => op.new \in dropped

\* one that was never launched counts nothing;
Unlaunched ==
  \A g \in Gen \ launched :
    /\ count[g] = 0
    /\ \A p \in Proto : /\ lst[<<g, p>>] = "off"
                        /\ <<g, p>> \notin ready /\ <<g, p>> \notin open

\* the generation in the map, and the one it replaces, do not drain yet;
Undrained ==
  /\ instances # None => drain[instances] = "none"
  /\ op.step \in Swapping /\ op.old # None =>
       /\ drain[op.old] = "none" /\ op.old # instances /\ op.old \notin dropped
       /\ op.old \in launched => op.old \in retiring

\* and what has been handed over in full counts no more.
Settled ==
  Kept => \A g \in Handed \ retiring : drain[g] = "done" \/ Quiet(g) \/ g \notin launched

\* A server that is being removed has no row, and nothing in the map.
Removing == op.step = "remove" => ~stored.row /\ instances = None

\* A snapshot of the past is not more than there is now.
LastBelow == dropped = {} => last <= SumFunctionOnSet(count, 1..ngen)

TrafficInv ==
  /\ TrafficTypes /\ Balance /\ Retired /\ Dropped /\ Unlaunched /\ Undrained /\ Settled
  /\ Removing /\ LastBelow /\ RowsAddUp

\* A tick of the collector leaves the lifecycle alone but for the failures it may add.
LEMMA CollectKeeps == LossInv /\ Collect => LossInv'
<1> SUFFICES ASSUME LossInv, Collect PROVE LossInv'
  OBVIOUS
<1>1. /\ UNCHANGED <<stored, instances, genVars, limMax, ctxDone, srvVars, drainVars, op,
                     closeVars, saves>>
      /\ faults' \in {faults, faults + 1} /\ (faults' = faults \/ faults < MaxFaults)
  BY DEF Collect
<1> USE DEF genVars, srvVars, drainVars, closeVars
<1>2. TypeInv'
  <2>1. TypeOK'
    BY <1>1, ManagerAssumption DEF LossInv, IndInv, TypeInv, TypeOK
  <2>2. CallInv'
    BY <1>1 DEF LossInv, IndInv, TypeInv, CallInv
  <2> QED
    BY <2>1, <2>2 DEF TypeInv
<1>3. IndInv'
  BY <1>1, <1>2 DEF LossInv, IndInv, NotYet, RefusalEndsLoop, LeftRefuses, closed
<1>4. DrainInv'
  BY <1>1, <1>2 DEF LossInv, DrainInv, HTTPSilent, DrainOrder, Has
<1>5. \A g \in Gen : /\ Joined(g)' <=> Joined(g)
                     /\ Shut(g)' <=> Shut(g)
                     /\ Draining(g)' <=> Draining(g)
  BY <1>1 DEF Joined, Shut, Has, Draining
<1>6. OwnerInv'
  BY <1>1, <1>5 DEF LossInv, OwnerInv, Owned, Quiet, closed
<1>7. CallOwns' /\ CloseOwns'
  BY <1>1, <1>5 DEF LossInv, CallOwns, CloseOwns, closed
<1>8. DrainOwns' /\ NotUsed'
  BY <1>1, <1>5 DEF LossInv, DrainOwns, NotUsed
<1> QED
  BY <1>3, <1>4, <1>6, <1>7, <1>8 DEF LossInv

\* Every other step is one of the lifecycle, or leaves it alone.
LEMMA MetricsRunManager == [MNext]_mVars => [Next]_vars \/ Collect
<1> SUFFICES ASSUME [MNext]_mVars PROVE [Next]_vars \/ Collect
  OBVIOUS
<1>1. CASE MHotSwap \/ MDisableOld \/ MRemove \/ MStopJoined \/ MNewFails
  BY <1>1 DEF MHotSwap, MDisableOld, MRemove, MStopJoined, MNewFails, Next, Transition
<1>2. ASSUME NEW g \in Gen, MDrainJoin(g) \/ CountTraffic(g) PROVE [Next]_vars
  BY <1>2 DEF MDrainJoin, CountTraffic, Next, Drainer
<1>3. CASE Unmetered
  BY <1>3 DEF Unmetered, Next, Transition, Drainer
<1> QED
  BY <1>1, <1>2, <1>3 DEF MNext, mVars

LEMMA TrafficLoss == LossInv /\ [MNext]_mVars => LossInv'
BY CollectKeeps, MetricsRunManager, LossStep

\* What a step of the lifecycle does to where a generation is, when no counters are handed
\* over: which one is in the map, what the call in progress works on, and which are launched.
LEMMA UnmeteredCalls ==
  ASSUME LossInv, TrafficInv, Unmetered
  PROVE  \/ /\ closed' /\ ngen' = ngen /\ instances' = None /\ launched' = launched
            /\ op' = op /\ op.step = "idle"
         \/ /\ ngen' = ngen /\ instances' = instances /\ launched' = launched
            /\ op'.step \in Swapping \cup {"remove"} =>
                 op'.step = op.step /\ op'.old = op.old /\ op'.new = op.new
            /\ op.step # "stopNew" \/ op'.step = op.step
         \/ /\ ngen' = ngen + 1 /\ instances' = ngen + 1
            /\ launched \subseteq launched' /\ launched' \subseteq launched \cup {ngen + 1}
            /\ instances = None \/ (op.step = "stopNew" /\ instances = op.new)
            /\ op'.step \notin {"stopNew", "remove"}
            /\ op'.step \in Swapping => op'.old = None
                 \/ (op.step = "stopNew" /\ op'.old = op.old)
         \/ /\ ngen' = ngen /\ launched' = launched /\ op.step = "stopNew" /\ instances = op.new
            /\ op'.step = "idle"
            /\ instances' = None \/ (instances' = op.old /\ op.old # None /\ op.old \notin launched)
<1>0. /\ TypeInv /\ op \in OpType(ngen) /\ CallInv /\ Idle.step = "idle"
      /\ op.step = "stopNew" => instances = op.new
  BY Basics, IdleType DEF LossInv, IndInv, CallInv
<1> USE DEF genVars, srvVars, drainVars, closeVars
<1>1. CASE StartAll
  <2>1. instances = None /\ op'.step = "idle" /\ op.step = "start"
    BY <1>0, <1>1 DEF StartAll, CallInv
  <2> QED
    BY <1>1, <2>1 DEF StartAll, Create, Swapping
<1>2. CASE EnableNew
  <2>1. instances = None /\ op'.step = "waitNew" /\ op'.old = None
    BY <1>0, <1>2 DEF EnableNew, CallInv, Awaiting
  <2> QED
    BY <1>2, <2>1 DEF EnableNew, Create
<1>3. CASE Rollback
  BY <1>0, <1>3 DEF Rollback, Create, Awaiting
<1>4. CASE DropNew \/ RestorePlaceholder
  BY <1>0, <1>4 DEF DropNew, RestorePlaceholder
<1>5. CASE BeginReload \/ PreflightFails \/ ReloadNothing \/ NewReady \/ RollbackSettles
  <2>1. /\ UNCHANGED <<ngen, instances, launched>> /\ op.step # "stopNew"
    BY <1>5 DEF BeginReload, PreflightFails, ReloadNothing, NewReady, RollbackSettles
  <2>2. op'.step = "loaded" \/ op' = Idle
    <3>1. CASE BeginReload
      BY <3>1 DEF BeginReload
    <3>2. CASE PreflightFails \/ ReloadNothing \/ NewReady \/ RollbackSettles
      BY <3>2 DEF PreflightFails, ReloadNothing, NewReady, RollbackSettles
    <3> QED
      BY <1>5, <3>1, <3>2
  <2> QED
    BY <1>0, <2>1, <2>2 DEF Swapping
<1>6. CASE CloseTake
  BY <1>6 DEF CloseTake, closed, closeRest
<1>7. ASSUME NEW g \in Gen, NEW p \in Proto, ListenerLoop(g, p) \/ AcceptFails(g, p)
      PROVE  /\ UNCHANGED <<ngen, instances, launched>>
             /\ op'.step = op.step /\ op'.old = op.old /\ op'.new = op.new
  <2>1. UNCHANGED <<ngen, instances, launched>> /\ (op' = op \/ op' = [op EXCEPT !.err = TRUE])
    BY <1>7 DEF ListenerLoop, Bind, Install, Retry, Watch, AcceptFails, listenerRest, StartupError
  <2> QED
    BY <1>0, <2>1 DEF OpType
<1>8. CASE \/ Administrator \/ Sessions \/ Interrupt \/ CloseShutdown \/ CloseJoined \/ CloseDone
           \/ \E g \in Gen : DrainExpires(g)
           \/ \E g \in Gen, p \in Proto : DrainBegin(g, p) \/ DrainEnd(g, p)
  BY ZenonT(60), <1>8 DEF Administrator, SaveConfig, DeleteRow, Sessions, Accept, SessionEnds, DrainBegin,
     DrainEnd, DrainExpires, drainRest, Interrupt, CloseShutdown, CloseJoined, CloseDone,
     Shutdown, closeRest
<1> QED
  BY <1>1, <1>2, <1>3, <1>4, <1>5, <1>6, <1>7, <1>8 DEF Unmetered, Closing

\* A drain begins with the end of the call that retired its generation, and does not start
\* again when it is done.
LEMMA DrainsOnce ==
  ASSUME LossInv, TrafficInv, [Next]_vars, NEW g \in Gen
  PROVE  /\ drain[g] = "none" => \/ drain'[g] = "none"
                                 \/ /\ g = op.old /\ op.step \in Swapping
                                    /\ op'.step = "idle" /\ instances' = instances
         /\ drain[g] = "done" => drain'[g] = "done"
<1>0. TypeInv /\ TypeOK /\ drain \in [Gen -> DrainState] /\ Undrained /\ Idle.step = "idle"
  BY Basics, IdleType DEF LossInv, IndInv, TypeInv, TypeOK, TrafficInv
<1> USE DEF genVars, srvVars, drainVars, closeVars
<1>1. ASSUME NEW h \in Gen, Drainer(h)
      PROVE  /\ drain[g] = "none" => drain'[g] = "none"
             /\ drain[g] = "done" => drain'[g] = "done"
  BY <1>0, <1>1 DEF Drainer, DrainBegin, DrainEnd, DrainJoin, DrainExpires, AfterDrain, Proto
<1>2. CASE Transition
  <2>1. \/ drain' = drain
        \/ /\ ScheduleDrain(op.old) /\ op.step \in Swapping /\ op'.step = "idle"
           /\ op.old # None \/ op.step = "waitBack"
           /\ instances' = instances
    BY <1>0, <1>2 DEF Transition, StartAll, BeginReload, PreflightFails, ReloadNothing, EnableNew,
       DisableOld, HotSwap, NewReady, NewFails, DropNew, RestorePlaceholder, Rollback,
       RollbackSettles, Remove, StopJoined, Shutdown, Swapping
  <2>2. CASE drain' = drain
    BY <2>2
  <2>3. CASE ScheduleDrain(op.old) /\ op.step \in Swapping /\ op'.step = "idle"
             /\ (op.old # None \/ op.step = "waitBack") /\ instances' = instances
    <3>1. op.old # None
      BY <1>0, <2>3 DEF TypeInv, CallInv
    <3>2. drain[op.old] = "none"
      BY <1>0, <2>3, <3>1 DEF Undrained
    <3> QED
      BY <1>0, <2>3, <3>2 DEF ScheduleDrain
  <2> QED
    BY <2>1, <2>2, <2>3
<1>3. ~Transition /\ ~ (\E h \in Gen : Drainer(h)) => drain' = drain
  BY ZenonT(60) DEF Next, Administrator, SaveConfig, DeleteRow, ListenerLoop, Bind, Install, Retry,
     Watch, AcceptFails, listenerRest, Sessions, Accept, SessionEnds, Interrupt, Closing,
     CloseTake, CloseShutdown, CloseJoined, CloseDone, Shutdown, closeRest, vars
<1> QED
  BY <1>1, <1>2, <1>3

\* What is not accounted for any more stays so: Close has begun, or the row and the instance
\* are gone and no call is under way.
LEMMA KeptBefore ==
  ASSUME LossInv, [Next]_vars, Kept' PROVE Kept
<1>0. TypeInv /\ Idle.step = "idle" /\ CallInv /\ (closed => op.step = "idle" /\ instances = None)
  BY Basics, IdleType DEF LossInv, IndInv, CallOwns
<1> USE DEF genVars, srvVars, drainVars, closeVars
<1>1. ~closed
  <2>1. CASE Transition
    BY <2>1, <1>0, CallsSupersede DEF Kept, closed, LossInv
  <2>2. CASE ~Transition /\ ~CloseTake
    BY <1>0, <2>2, Elsewhere DEF Kept, closed
  <2>3. CASE CloseTake
    BY <2>3 DEF CloseTake, closed
  <2> QED
    BY <2>1, <2>2, <2>3
<1>2. ASSUME ~stored.row, instances = None, op.step = "idle" PROVE FALSE
  <2>1. ~Transition
    BY <1>0, <1>2 DEF Transition, StartAll, BeginReload, PreflightFails, ReloadNothing, EnableNew,
       DisableOld, HotSwap, NewReady, NewFails, DropNew, RestorePlaceholder, Rollback,
       RollbackSettles, Remove, StopJoined
  <2>2. ~CloseTake
    BY DEF CloseTake, Kept, closed
  <2>3. op'.step = "idle" /\ instances' = None
    BY <1>0, <1>2, <2>1, <2>2, Elsewhere
  <2>4. stored' = stored
    BY ZenonT(60), <1>2, <2>1 DEF Next, Administrator, SaveConfig, DeleteRow, ListenerLoop, Bind, Install,
       Retry, Watch, AcceptFails, listenerRest, Sessions, Accept, SessionEnds, Drainer,
       DrainBegin, DrainEnd, DrainJoin, DrainExpires, drainRest, Interrupt, Closing, CloseTake,
       CloseShutdown, CloseJoined, CloseDone, Shutdown, closeRest, vars
  <2> QED
    BY <1>2, <2>3, <2>4 DEF Kept
<1> QED
  BY <1>1, <1>2 DEF Kept

\* The rows only get older, and so do faults and the signal.
LEMMA OnlyMore ==
  ASSUME TypeInv, [Next]_vars
  PROVE  /\ faults' = 0 => faults = 0
         /\ halted => halted'
         /\ ngen <= ngen' /\ ngen' \in Nat /\ ngen \in Nat
<1>0. TypeOK /\ faults \in Nat /\ ngen \in Nat /\ MaxFaults \in Nat
  BY Basics, ManagerAssumption DEF TypeOK
<1> USE DEF genVars, srvVars, drainVars, closeVars
<1>1. faults' \in {faults, faults + 1}
  BY ZenonT(60) DEF Next, Transition, StartAll, BeginReload, PreflightFails, ReloadNothing, EnableNew,
     DisableOld, HotSwap, NewReady, NewFails, DropNew, RestorePlaceholder, Rollback,
     RollbackSettles, Remove, StopJoined, Administrator, SaveConfig, DeleteRow, ListenerLoop,
     Bind, Install, Retry, Watch, AcceptFails, listenerRest, Sessions, Accept, SessionEnds,
     Drainer, DrainBegin, DrainEnd, DrainJoin, DrainExpires, drainRest, Interrupt, Closing,
     CloseTake, CloseShutdown, CloseJoined, CloseDone, closeRest, vars
<1>2. halted => halted'
  BY ZenonT(60) DEF Next, Transition, StartAll, BeginReload, PreflightFails, ReloadNothing, EnableNew,
     DisableOld, HotSwap, NewReady, NewFails, DropNew, RestorePlaceholder, Rollback,
     RollbackSettles, Remove, StopJoined, Administrator, SaveConfig, DeleteRow, ListenerLoop,
     Bind, Install, Retry, Watch, AcceptFails, listenerRest, Sessions, Accept, SessionEnds,
     Drainer, DrainBegin, DrainEnd, DrainJoin, DrainExpires, drainRest, Interrupt, Closing,
     CloseTake, CloseShutdown, CloseJoined, CloseDone, closeRest, vars
<1>3. ngen' \in {ngen, ngen + 1}
  BY <1>0, StepCreates DEF Create
<1> QED
  BY <1>0, <1>1, <1>2, <1>3

-----------------------------------------------------------------------------
(* The sums of the counters                                                *)

Counted == SumFunctionOnSet(count, Handed)
Pending == SumFunctionOnSet(Beyond, retiring)

LEMMA TrafficBasics ==
  ASSUME LossInv, TrafficInv
  PROVE  /\ TypeInv /\ TypeOK /\ CallInv /\ op \in OpType(ngen)
         /\ ngen \in Nat /\ instances \in 0..ngen /\ 1..ngen \subseteq Gen
         /\ carry \in Nat /\ last \in Nat /\ rows \in Nat
         /\ IsFiniteSet(retiring) /\ retiring \subseteq Gen
         /\ IsFiniteSet(Handed) /\ Handed \subseteq Gen
         /\ \A g \in Gen : count[g] \in Nat /\ base[g] \in Nat /\ Beyond[g] \in Nat
         /\ Counted \in Nat /\ Pending \in Nat
<1>1. TypeInv /\ TypeOK /\ CallInv /\ op \in OpType(ngen) /\ ngen \in Nat /\ instances \in 0..ngen
      /\ 1..ngen \subseteq Gen /\ MaxGen \in Nat
  BY Basics DEF LossInv, IndInv, Gen
<1>2. TrafficTypes
  BY DEF TrafficInv
<1>3. IsFiniteSet(retiring) /\ IsFiniteSet(Handed) /\ Handed \subseteq Gen
  <2>1. IsFiniteSet(Gen)
    BY <1>1, FS_Interval DEF Gen
  <2> QED
    BY <1>1, <1>2, <2>1, FS_Subset DEF TrafficTypes, Handed
<1>4. \A g \in Gen : count[g] \in Nat /\ base[g] \in Nat
  BY <1>2 DEF TrafficTypes
<1>5. \A g \in Gen : Beyond[g] \in Nat
  BY <1>4 DEF Beyond, subtractCounter
<1>6. Counted \in Nat
  <2>1. \A x \in Handed : count[x] \in Nat
    BY <1>3, <1>4
  <2> QED
    BY <1>3, <2>1, SumIsNat DEF Counted
<1>7. Pending \in Nat
  <2>1. \A x \in retiring : Beyond[x] \in Nat
    BY <1>2, <1>5 DEF TrafficTypes
  <2> QED
    BY <1>3, <2>1, SumIsNat DEF Pending
<1> QED
  BY <1>1, <1>2, <1>3, <1>4, <1>5, <1>6, <1>7 DEF TrafficTypes

\* The generation that leaves the map hands over what it has counted so far.
LEMMA HandsOver ==
  ASSUME LossInv, TrafficInv, Kept, NEW g \in Gen, g = instances, g \notin dropped,
         BeginHandoff(g), count' = count, Handed' = Handed \cup {g}
  PROVE  (carry + Pending = Counted)'
<1>0. /\ carry \in Nat /\ Counted \in Nat /\ Pending \in Nat
      /\ IsFiniteSet(retiring) /\ retiring \subseteq Gen /\ IsFiniteSet(Handed) /\ Handed \subseteq Gen
      /\ \A x \in Gen : count[x] \in Nat /\ base[x] \in Nat /\ Beyond[x] \in Nat
  BY TrafficBasics
<1>1. carry + Pending = Counted
  BY DEF TrafficInv, Balance, Counted, Pending
<1>2. g \notin Handed /\ g \notin retiring
  BY DEF Handed, TrafficInv, Retired
<1>3. Counted' = count[g] + Counted
  <2>1. \A x \in Handed : count[x] \in Nat
    BY <1>0
  <2>2. count[g] \in Nat
    BY <1>0
  <2>3. SumFunctionOnSet(count, Handed \cup {g}) = count[g] + SumFunctionOnSet(count, Handed)
    BY <1>0, <1>2, <2>1, <2>2, SumAdd
  <2> QED
    BY <2>3 DEF Counted
<1>4. CASE g \in launched
  <2>1. /\ carry' = carry + count[g] /\ retiring' = retiring \cup {g}
        /\ base' = [base EXCEPT ![g] = count[g]]
    BY <1>4 DEF BeginHandoff
  <2>2. base \in [Gen -> Nat]
    BY DEF TrafficInv, TrafficTypes
  <2>3. /\ \A x \in Gen : Beyond'[x] = subtractCounter(count[x], base'[x])
        /\ \A x \in Gen : Beyond[x] = subtractCounter(count[x], base[x])
    BY DEF Beyond
  <2>4. \A x \in retiring : Beyond'[x] = Beyond[x]
    BY <1>0, <1>2, <2>1, <2>2, <2>3
  <2>5. Beyond'[g] = 0
    BY <1>0, <2>1, <2>2, <2>3 DEF subtractCounter
  <2>6. \A x \in retiring : Beyond'[x] \in Nat
    BY <1>0, <2>4
  <2>7. SumFunctionOnSet(Beyond', retiring \cup {g}) = Beyond'[g] + SumFunctionOnSet(Beyond', retiring)
    BY <1>0, <1>2, <2>5, <2>6, SumAdd
  <2>8. SumFunctionOnSet(Beyond', retiring) = SumFunctionOnSet(Beyond, retiring)
    BY <1>0, <2>4, SumAgrees
  <2>9. Pending' = 0 + Pending
    BY <2>1, <2>5, <2>7, <2>8 DEF Pending
  <2> QED
    BY <1>0, <1>1, <1>3, <2>1, <2>9
<1>5. CASE g \notin launched
  <2>1. UNCHANGED counters
    BY <1>5 DEF BeginHandoff
  <2>2. Beyond' = Beyond /\ Pending' = Pending /\ carry' = carry
    BY <2>1 DEF counters, Beyond, Pending
  <2>3. count[g] = 0
    BY <1>5 DEF TrafficInv, Unlaunched
  <2> QED
    BY <1>0, <1>1, <1>3, <2>2, <2>3
<1> QED
  BY <1>4, <1>5

\* The end of a drain folds what was counted meanwhile.
LEMMA FoldsIn ==
  ASSUME LossInv, TrafficInv, Kept, NEW g, FinishHandoff(g), count' = count, Handed' = Handed
  PROVE  (carry + Pending = Counted)'
<1>0. /\ carry \in Nat /\ Counted \in Nat /\ Pending \in Nat
      /\ IsFiniteSet(retiring) /\ retiring \subseteq Gen
      /\ \A x \in Gen : Beyond[x] \in Nat
  BY TrafficBasics
<1>1. carry + Pending = Counted
  BY DEF TrafficInv, Balance, Counted, Pending
<1>2. Counted' = Counted /\ base' = base
  BY DEF Counted, FinishHandoff, counters
<1>3. Beyond' = Beyond
  BY <1>2 DEF Beyond
<1>4. CASE g \in retiring
  <2>1. carry' = carry + subtractCounter(count[g], base[g]) /\ retiring' = retiring \ {g}
    BY <1>4 DEF FinishHandoff
  <2>2. Beyond[g] = subtractCounter(count[g], base[g]) /\ Beyond[g] \in Nat
    BY <1>0, <1>4 DEF Beyond
  <2>3. \A x \in retiring : Beyond[x] \in Nat
    BY <1>0
  <2>4. Pending = Beyond[g] + SumFunctionOnSet(Beyond, retiring \ {g})
    BY <1>0, <1>4, <2>3, SumRemove DEF Pending
  <2>5. Pending' = SumFunctionOnSet(Beyond, retiring \ {g})
    BY <1>3, <2>1 DEF Pending
  <2>6. SumFunctionOnSet(Beyond, retiring \ {g}) \in Nat
    <3>1. IsFiniteSet(retiring \ {g})
      BY <1>0, FS_Subset
    <3>2. \A x \in retiring \ {g} : Beyond[x] \in Nat
      BY <2>3
    <3> QED
      BY <3>1, <3>2, SumIsNat
  <2> QED
    BY <1>0, <1>1, <1>2, <2>1, <2>2, <2>4, <2>5, <2>6
<1>5. CASE g \notin retiring
  BY <1>1, <1>2, <1>3, <1>5 DEF FinishHandoff, counters, Pending
<1> QED
  BY <1>4, <1>5

\* Only a generation that still works counts: the one in the map, one that is draining, or
\* one that was dropped.
LEMMA WhoCounts ==
  ASSUME LossInv, TrafficInv, Kept, NEW g \in Gen, NEW p \in Proto, <<g, p>> \in open
  PROVE  /\ g <= ngen /\ g \in launched
         /\ g = instances \/ g \in dropped \/ g \in retiring
<1>0. /\ ngen \in Nat /\ g \in Nat
      /\ p = "socks" \/ p = "http"
  BY TrafficBasics DEF Gen, Proto
<1>1. g <= ngen
  BY <1>0 DEF LossInv, NotUsed, DrainInv, HTTPSilent
<1>2. g \in launched
  BY DEF TrafficInv, Unlaunched
<1>3. drain[g] # "done"
  BY <1>0 DEF LossInv, DrainOwns, DrainInv, DrainOrder, AfterHTTP
<1>4. ~Quiet(g)
  BY DEF Quiet, Shut
<1>5. g \in Handed => g \in retiring
  BY <1>2, <1>3, <1>4 DEF TrafficInv, Settled
<1> QED
  BY <1>0, <1>1, <1>2, <1>5 DEF Handed, Gen

\* What is counted is counted once.
LEMMA CountsOnce ==
  ASSUME LossInv, TrafficInv, Kept, NEW g \in Gen, CountTraffic(g)
  PROVE  (carry + Pending = Counted)'
<1>0. /\ carry \in Nat /\ Counted \in Nat /\ Pending \in Nat
      /\ IsFiniteSet(retiring) /\ retiring \subseteq Gen /\ IsFiniteSet(Handed) /\ Handed \subseteq Gen
      /\ \A x \in Gen : count[x] \in Nat /\ base[x] \in Nat /\ Beyond[x] \in Nat
  BY TrafficBasics
<1>1. carry + Pending = Counted
  BY DEF TrafficInv, Balance, Counted, Pending
<1>2. /\ count \in [Gen -> Nat] /\ count' = [count EXCEPT ![g] = count[g] + 1]
      /\ UNCHANGED <<carry, retiring, base>> /\ Handed' = Handed
  BY DEF CountTraffic, TrafficInv, TrafficTypes, counters, Handed, vars, genVars
<1>3. /\ count'[g] = count[g] + 1 /\ \A x \in Gen \ {g} : count'[x] = count[x]
      /\ \A x \in Gen : count'[x] \in Nat
  BY <1>0, <1>2
<1>4. g = instances \/ g \in dropped \/ g \in retiring
  BY WhoCounts DEF CountTraffic
<1>5. /\ \A x \in Gen : Beyond'[x] = subtractCounter(count'[x], base[x])
      /\ \A x \in Gen : Beyond[x] = subtractCounter(count[x], base[x])
  BY <1>2 DEF Beyond
<1>6. \A x \in Gen \ {g} : Beyond'[x] = Beyond[x]
  BY <1>3, <1>5
<1>7. CASE g \notin retiring
  <2>1. g \notin Handed
    BY <1>4, <1>7 DEF Handed
  <2>2. \A x \in Handed : count'[x] = count[x]
    BY <1>0, <1>3, <2>1
  <2>3. \A x \in retiring : Beyond'[x] = Beyond[x]
    BY <1>0, <1>6, <1>7
  <2>4. SumFunctionOnSet(count', Handed) = SumFunctionOnSet(count, Handed)
    BY <1>0, <2>2, SumAgrees
  <2>5. SumFunctionOnSet(Beyond', retiring) = SumFunctionOnSet(Beyond, retiring)
    BY <1>0, <2>3, SumAgrees
  <2> QED
    BY <1>1, <1>2, <2>4, <2>5 DEF Counted, Pending
<1>8. CASE g \in retiring
  <2>1. g <= ngen /\ g # instances /\ g \notin dropped /\ base[g] <= count[g]
    BY <1>8 DEF TrafficInv, Retired
  <2>2. g \in Handed
    BY <2>1 DEF Handed, Gen
  <2>3. Beyond'[g] = Beyond[g] + 1
    BY <1>0, <1>3, <1>5, <2>1 DEF subtractCounter
  <2>4. /\ \A x \in Handed : count[x] \in Nat /\ count'[x] \in Nat
        /\ \A x \in Handed \ {g} : count'[x] = count[x]
    BY <1>0, <1>3
  <2>5. SumFunctionOnSet(count', Handed) + count[g] = SumFunctionOnSet(count, Handed) + count'[g]
    BY <1>0, <2>2, <2>4, SumChanges
  <2>6. /\ \A x \in retiring : Beyond[x] \in Nat /\ Beyond'[x] \in Nat
        /\ \A x \in retiring \ {g} : Beyond'[x] = Beyond[x]
    BY <1>0, <1>6, <2>3
  <2>7. SumFunctionOnSet(Beyond', retiring) + Beyond[g] = SumFunctionOnSet(Beyond, retiring) + Beyond'[g]
    BY <1>0, <1>8, <2>6, SumChanges
  <2>8. Counted' + count[g] = Counted + (count[g] + 1) /\ Pending' + Beyond[g] = Pending + (Beyond[g] + 1)
    BY <1>2, <1>3, <2>3, <2>5, <2>7 DEF Counted, Pending
  <2>9. Counted' \in Nat /\ Pending' \in Nat
    <3>1. SumFunctionOnSet(count', Handed) \in Nat
      BY <1>0, <2>4, SumIsNat
    <3>2. SumFunctionOnSet(Beyond', retiring) \in Nat
      BY <1>0, <2>6, SumIsNat
    <3> QED
      BY <1>2, <3>1, <3>2 DEF Counted, Pending
  <2>10. count[g] \in Nat /\ Beyond[g] \in Nat
    BY <1>0
  <2>11. Counted' = Counted + 1 /\ Pending' = Pending + 1
    BY <1>0, <2>8, <2>9, <2>10
  <2> QED
    BY <1>0, <1>1, <1>2, <2>11
<1> QED
  BY <1>7, <1>8

-----------------------------------------------------------------------------
(* The steps that touch the counters                                       *)

\* A generation that is replaced, disabled or removed hands over when it leaves the map.
LEMMA LeavesMap ==
  ASSUME LossInv, TrafficInv, MHotSwap \/ MDisableOld \/ MRemove
  PROVE  /\ [Next]_vars /\ UNCHANGED <<count, collector, dropped, drain, stored>>
         /\ instances \in Gen /\ instances \notin dropped /\ BeginHandoff(instances)
         /\ \/ ngen' = ngen /\ instances' = None /\ launched' = launched
            \/ /\ ngen' = ngen + 1 /\ instances' = ngen + 1
               /\ launched' = launched \cup {ngen + 1}
         /\ Handed' = Handed \cup {instances}
         /\ op'.step \in Swapping => op'.old = instances /\ instances' # None
         /\ op'.step # "stopNew" /\ (op'.step = "remove" => ~stored.row /\ instances' = None)
<1>0. /\ TypeInv /\ TypeOK /\ CallInv /\ op \in OpType(ngen) /\ ngen \in Nat
      /\ instances \in 0..ngen /\ 1..ngen \subseteq Gen
  BY TrafficBasics
<1>1. Dropped
  BY DEF TrafficInv
<1> USE DEF genVars, srvVars, drainVars, closeVars
<1>2. CASE MHotSwap
  <2>1. /\ op.step = "loaded" /\ op.old = instances /\ instances # None /\ op.on
        /\ BeginHandoff(instances) /\ UNCHANGED <<count, collector, dropped, drain, stored>>
    BY <1>0, <1>2 DEF MHotSwap, HotSwap, CallInv
  <2>2. /\ ngen' = ngen + 1 /\ instances' = ngen + 1 /\ launched' = launched \cup {ngen + 1}
        /\ op' = Awaiting(ngen + 1, "waitNew")
    BY <1>2 DEF MHotSwap, HotSwap, Create
  <2>3. instances \in Gen /\ instances \notin dropped
    BY <1>0, <1>1, <2>1 DEF Dropped, None
  <2>4. op'.step = "waitNew" /\ op'.old = instances
    BY <2>1, <2>2 DEF Awaiting
  <2>5. Handed' = Handed \cup {instances}
    <3>1. ngen + 1 \notin dropped /\ instances \in 1..ngen
      BY <1>0, <1>1, <2>1 DEF Dropped, None
    <3>2. 1..(ngen + 1) = 1..ngen \cup {ngen + 1} /\ ngen + 1 \notin 1..ngen
      BY <1>0
    <3> QED
      BY <2>1, <2>2, <2>3, <3>1, <3>2 DEF Handed
  <2> QED
    BY <1>0, <1>2, <2>1, <2>2, <2>3, <2>4, <2>5 DEF MHotSwap, Next, Transition, None
<1>3. CASE MDisableOld
  <2>1. /\ op.step = "loaded" /\ op.old = instances /\ instances # None
        /\ BeginHandoff(instances) /\ UNCHANGED <<count, collector, dropped, drain, stored>>
        /\ ngen' = ngen /\ instances' = None /\ launched' = launched
        /\ op' = [op EXCEPT !.step = "disable"]
    BY <1>0, <1>3 DEF MDisableOld, DisableOld, CallInv
  <2>2. instances \in Gen /\ instances \notin dropped /\ op'.step = "disable"
    BY <1>0, <1>1, <2>1 DEF Dropped, None, OpType
  <2>3. Handed' = Handed \cup {instances}
    BY <1>0, <2>1, <2>2 DEF Handed, None
  <2> QED
    BY <1>3, <2>1, <2>2, <2>3 DEF MDisableOld, Next, Transition, Swapping
<1>4. CASE MRemove
  <2>1. /\ op.step = "idle" /\ instances # None /\ ~stored.row
        /\ BeginHandoff(instances) /\ UNCHANGED <<count, collector, dropped, drain, stored>>
        /\ ngen' = ngen /\ instances' = None /\ launched' = launched /\ op'.step = "remove"
    BY <1>4 DEF MRemove, Remove
  <2>2. instances \in Gen /\ instances \notin dropped
    BY <1>0, <1>1, <2>1 DEF Dropped, None
  <2>3. Handed' = Handed \cup {instances}
    BY <1>0, <2>1, <2>2 DEF Handed, None
  <2> QED
    BY <1>4, <2>1, <2>2, <2>3 DEF MRemove, Next, Transition, Swapping
<1> QED
  BY <1>2, <1>3, <1>4

\* A replacement that fails is dropped while it is in the map.
LEMMA Drops ==
  ASSUME LossInv, TrafficInv, MNewFails
  PROVE  /\ [Next]_vars /\ UNCHANGED <<count, counters, collector, drain, stored>>
         /\ UNCHANGED <<ngen, instances, launched>>
         /\ op.step = "waitNew" /\ op'.step = "stopNew" /\ op'.old = op.old /\ op'.new = op.new
         /\ instances \in Gen /\ op.new = instances /\ dropped' = dropped \cup {instances}
         /\ Handed' = Handed
<1>0. /\ CallInv /\ op \in OpType(ngen) /\ ngen \in Nat
      /\ instances \in 0..ngen /\ 1..ngen \subseteq Gen
  BY TrafficBasics
<1> USE DEF genVars, srvVars, drainVars, closeVars
<1>1. /\ op.step = "waitNew" /\ op' = [op EXCEPT !.step = "stopNew"]
      /\ UNCHANGED <<count, counters, collector, drain, stored, ngen, instances, launched>>
      /\ dropped' = dropped \cup {op.new}
  BY DEF MNewFails, NewFails
<1>2. op.new = instances /\ op.new # None
  BY <1>0, <1>1 DEF CallInv
<1>3. op'.step = "stopNew" /\ op'.old = op.old /\ op'.new = op.new
  BY <1>0, <1>1 DEF OpType
<1>4. Handed' = Handed
  BY <1>1, <1>2 DEF Handed
<1> QED
  BY <1>0, <1>1, <1>2, <1>3, <1>4 DEF MNewFails, Next, Transition, None

\* The end of a drain, or of a Reload that disables, folds the final counters in; that of
\* Remove forgets the server.
LEMMA Folds ==
  ASSUME LossInv, TrafficInv, NEW g, (MDrainJoin(g) /\ g \in Gen) \/ (MStopJoined /\ g = op.old)
  PROVE  /\ [Next]_vars /\ UNCHANGED <<count, collector, dropped, stored>>
         /\ UNCHANGED <<ngen, instances, launched>>
         /\ Handed' = Handed /\ retiring' \subseteq retiring /\ base' = base
         /\ carry' \in Nat
         /\ op'.step = "idle" \/ (op' = op /\ drain[g] = "join")
         /\ op.step # "stopNew" \/ op' = op
         /\ \/ ~Kept'
            \/ FinishHandoff(g) /\ drain[g] = "join" /\ drain'[g] = "done"
            \/ FinishHandoff(g) /\ (g \in Gen /\ g <= ngen => Quiet(g))
<1>0. /\ TypeInv /\ TypeOK /\ op \in OpType(ngen) /\ ngen \in Nat /\ carry \in Nat
      /\ retiring \subseteq Gen /\ Idle.step = "idle"
      /\ \A x \in Gen : count[x] \in Nat /\ base[x] \in Nat
  BY TrafficBasics, IdleType
<1>f. FinishHandoff(g) => retiring' \subseteq retiring /\ base' = base /\ carry' \in Nat
  BY <1>0 DEF FinishHandoff, counters, subtractCounter
<1> USE DEF genVars, srvVars, drainVars, closeVars
<1>1. CASE MDrainJoin(g) /\ g \in Gen
  <2>1. /\ UNCHANGED <<count, collector, dropped, stored, ngen, instances, launched, op>>
        /\ FinishHandoff(g) /\ drain[g] = "join" /\ drain' = [drain EXCEPT ![g] = "done"]
    BY <1>1 DEF MDrainJoin, DrainJoin, drainRest
  <2>2. drain'[g] = "done"
    BY <1>0, <1>1, <2>1 DEF TypeOK
  <2>3. [Next]_vars
    BY <1>1 DEF MDrainJoin, Next, Drainer
  <2> QED
    BY <1>f, <2>1, <2>2, <2>3 DEF Handed
<1>2. CASE MStopJoined /\ g = op.old
  <2>1. /\ UNCHANGED <<count, collector, dropped, stored, ngen, instances, launched, closer>>
        /\ op.step \in {"disable", "remove"} /\ op' = Idle /\ Joined(g)
    BY <1>2 DEF MStopJoined, StopJoined
  <2>2. [Next]_vars
    BY <1>2 DEF MStopJoined, Next, Transition
  <2>3. CASE op.step = "disable"
    <3>1. FinishHandoff(g)
      BY <1>2, <2>3 DEF MStopJoined
    <3>2. g \in Gen => Shut(g)
      BY <1>2, <2>3 DEF LossInv, CallOwns
    <3> QED
      BY <1>0, <1>f, <2>1, <2>2, <3>1, <3>2 DEF Handed, Quiet
  <2>4. CASE op.step = "remove"
    <3>1. carry' = 0 /\ retiring' = {} /\ base' = base
      BY <1>2, <2>4 DEF MStopJoined
    <3>2. ~stored.row /\ instances = None
      BY <2>4 DEF TrafficInv, Removing
    <3>3. ~Kept'
      BY <1>0, <2>1, <3>2 DEF Kept
    <3> QED
      BY <1>0, <2>1, <2>2, <3>1, <3>3 DEF Handed
  <2> QED
    BY <2>1, <2>3, <2>4
<1> QED
  BY <1>1, <1>2

\* No other step makes a difference to what the generations outside the map have counted.
LEMMA HandedStays ==
  ASSUME LossInv, TrafficInv, Unmetered, ~closed'
  PROVE  Handed' = Handed \/ \E g \in Handed : Handed' = Handed \ {g} /\ count[g] = 0
<1>0. /\ CallInv /\ ngen \in Nat /\ instances \in 0..ngen /\ 1..ngen \subseteq Gen
      /\ op \in OpType(ngen)
  BY TrafficBasics
<1>d. Dropped /\ Undrained
  BY DEF TrafficInv
<1>1. dropped' = dropped
  BY DEF Unmetered, metricVars
<1>2. CASE ngen' = ngen /\ instances' = instances
  BY <1>1, <1>2 DEF Handed
<1>3. CASE /\ ngen' = ngen + 1 /\ instances' = ngen + 1
           /\ instances = None \/ (op.step = "stopNew" /\ instances = op.new)
  <2>1. Handed = 1..ngen \ dropped
    BY <1>0, <1>d, <1>3 DEF Handed, Dropped, None
  <2>2. Handed' = (1..(ngen + 1) \ dropped) \ {ngen + 1}
    BY <1>1, <1>3 DEF Handed
  <2>3. 1..(ngen + 1) = 1..ngen \cup {ngen + 1} /\ ngen + 1 \notin 1..ngen
    BY <1>0
  <2> QED
    BY <2>1, <2>2, <2>3
<1>4. CASE /\ ngen' = ngen /\ op.step = "stopNew" /\ instances = op.new
           /\ instances' = None \/ (instances' = op.old /\ op.old # None /\ op.old \notin launched)
  <2>1. Handed = 1..ngen \ dropped
    BY <1>0, <1>d, <1>4 DEF Handed, Dropped
  <2>2. CASE instances' = None
    BY <1>0, <1>1, <1>4, <2>1, <2>2 DEF Handed, None
  <2>3. CASE instances' = op.old /\ op.old # None /\ op.old \notin launched
    <3>1. op.old \in 1..ngen /\ op.old \notin dropped
      BY <1>0, <1>d, <1>4, <2>3 DEF OpType, Undrained, Swapping, None
    <3>2. Handed' = Handed \ {op.old} /\ op.old \in Handed
      BY <1>1, <1>4, <2>1, <2>3, <3>1 DEF Handed
    <3>3. count[op.old] = 0
      BY <1>0, <2>3, <3>1 DEF TrafficInv, Unlaunched
    <3> QED
      BY <3>2, <3>3
  <2> QED
    BY <1>4, <2>2, <2>3
<1> QED
  BY <1>2, <1>3, <1>4, UnmeteredCalls

-----------------------------------------------------------------------------
(* The parts of the invariant                                              *)

LEMMA TypesStep == LossInv /\ TrafficInv /\ [MNext]_mVars => TrafficTypes'
<1> SUFFICES ASSUME LossInv, TrafficInv, [MNext]_mVars PROVE TrafficTypes'
  OBVIOUS
<1>0. /\ TrafficTypes /\ op \in OpType(ngen) /\ 1..ngen \subseteq Gen
      /\ carry \in Nat /\ Pending \in Nat /\ instances \in 0..ngen
      /\ \A x \in Gen : count[x] \in Nat
  BY TrafficBasics DEF TrafficInv
<1>1. CASE MHotSwap \/ MDisableOld \/ MRemove
  <2>1. instances \in Gen /\ BeginHandoff(instances) /\ UNCHANGED <<count, collector, dropped>>
    BY <1>1, LeavesMap
  <2>2. count[instances] \in Nat /\ base \in [Gen -> Nat] /\ retiring \subseteq Gen
    BY <1>0, <2>1 DEF TrafficTypes
  <2>3. /\ carry' \in {carry, carry + count[instances]}
        /\ base' \in {base, [base EXCEPT ![instances] = count[instances]]}
        /\ retiring' \subseteq retiring \cup {instances}
    BY <2>1 DEF BeginHandoff, counters
  <2>4. carry' \in Nat /\ base' \in [Gen -> Nat] /\ retiring' \subseteq Gen
    BY <1>0, <2>1, <2>2, <2>3
  <2> QED
    BY <1>0, <2>1, <2>4 DEF TrafficTypes, collector
<1>2. ASSUME NEW g, (MDrainJoin(g) /\ g \in Gen) \/ (MStopJoined /\ g = op.old) PROVE TrafficTypes'
  <2>1. /\ UNCHANGED <<count, collector, dropped>> /\ carry' \in Nat
        /\ base' = base /\ retiring' \subseteq retiring
    BY <1>2, Folds
  <2> QED
    BY <1>0, <2>1 DEF TrafficTypes, collector
<1>3. CASE MNewFails
  <2>1. UNCHANGED <<count, counters, collector>> /\ instances \in Gen
        /\ dropped' = dropped \cup {instances}
    BY <1>3, Drops
  <2> QED
    BY <1>0, <2>1 DEF TrafficTypes, counters, collector
<1>4. ASSUME NEW g \in Gen, CountTraffic(g) PROVE TrafficTypes'
  BY <1>0, <1>4 DEF CountTraffic, TrafficTypes, counters, collector
<1>5. CASE Unmetered \/ UNCHANGED mVars
  BY <1>0, <1>5 DEF Unmetered, mVars, metricVars, counters, collector, TrafficTypes
<1>6. CASE Collect
  <2>1. Snapshot \in Nat
    <3>1. Snapshot = count[instances] + carry + Pending /\ instances \in Gen
      BY <1>0, <1>6 DEF Collect, Snapshot, Pending, Beyond, None
    <3> QED
      BY <1>0, <3>1
  <2>2. last' \in Nat /\ rows' \in Nat
    <3>1. subOrCurrent(Snapshot, last) \in Nat
      BY <1>0, <2>1 DEF subOrCurrent, TrafficTypes
    <3> QED
      BY <1>0, <1>6, <2>1, <3>1 DEF Collect, TrafficTypes
  <2>3. UNCHANGED <<count, counters, dropped>>
    BY <1>6 DEF Collect
  <2> QED
    BY <1>0, <2>2, <2>3 DEF TrafficTypes, counters
<1> QED
  BY <1>1, <1>2, <1>3, <1>4, <1>5, <1>6 DEF MNext

LEMMA BalanceStep == LossInv /\ TrafficInv /\ [MNext]_mVars => Balance'
<1> SUFFICES ASSUME LossInv, TrafficInv, [MNext]_mVars, Kept'
             PROVE  (carry + Pending = Counted)'
  BY DEF Balance, Pending, Counted
<1>0. carry + Pending = Counted /\ Kept
  <2>1. Collect => Kept
    BY DEF Collect, Kept, closed, closeVars
  <2>2. [Next]_vars => Kept
    BY KeptBefore
  <2>3. Kept
    BY <2>1, <2>2, MetricsRunManager
  <2> QED
    BY <2>3 DEF TrafficInv, Balance, Pending, Counted
<1>1. CASE MHotSwap \/ MDisableOld \/ MRemove
  <2>1. /\ instances \in Gen /\ instances \notin dropped /\ BeginHandoff(instances)
        /\ count' = count /\ Handed' = Handed \cup {instances}
    BY <1>1, LeavesMap
  <2> QED
    BY <1>0, <2>1, HandsOver
<1>2. ASSUME NEW g, (MDrainJoin(g) /\ g \in Gen) \/ (MStopJoined /\ g = op.old)
      PROVE  (carry + Pending = Counted)'
  <2>1. FinishHandoff(g) /\ count' = count /\ Handed' = Handed
    BY <1>2, Folds
  <2> QED
    BY <1>0, <2>1, FoldsIn
<1>3. CASE MNewFails
  <2>1. UNCHANGED <<count, counters>> /\ Handed' = Handed
    BY <1>3, Drops
  <2> QED
    BY <1>0, <2>1 DEF counters, Pending, Counted, Beyond
<1>4. ASSUME NEW g \in Gen, CountTraffic(g) PROVE (carry + Pending = Counted)'
  BY <1>0, <1>4, CountsOnce
<1>5. CASE Unmetered
  <2>1. UNCHANGED <<count, carry, base, retiring>> /\ ~closed'
    BY <1>5 DEF Unmetered, metricVars, counters, Kept
  <2>2. carry' = carry /\ Pending' = Pending /\ Counted' = SumFunctionOnSet(count, Handed')
    BY <2>1 DEF Pending, Beyond, Counted
  <2>3. ASSUME NEW g \in Handed, Handed' = Handed \ {g}, count[g] = 0
        PROVE  Counted' = Counted
    <3>1. IsFiniteSet(Handed) /\ Counted \in Nat
      BY TrafficBasics
    <3>2. \A x \in Handed : count[x] \in Nat
      BY TrafficBasics
    <3>3. Counted = count[g] + SumFunctionOnSet(count, Handed \ {g})
      BY <3>1, <3>2, SumRemove DEF Counted
    <3>4. SumFunctionOnSet(count, Handed \ {g}) \in Nat
      <4>1. IsFiniteSet(Handed \ {g})
        BY <3>1, FS_Subset
      <4>2. \A x \in Handed \ {g} : count[x] \in Nat
        BY <3>2
      <4> QED
        BY <4>1, <4>2, SumIsNat
    <3> QED
      BY <2>2, <2>3, <3>3, <3>4
  <2>4. Handed' = Handed => Counted' = Counted
    BY <2>2 DEF Counted
  <2> QED
    BY <1>0, <1>5, <2>1, <2>2, <2>3, <2>4, HandedStays
<1>6. CASE Collect \/ UNCHANGED mVars
  <2>1. UNCHANGED <<count, carry, base, retiring, ngen, instances, dropped>>
    BY <1>6 DEF Collect, counters, mVars, metricVars, vars, genVars
  <2> QED
    BY <1>0, <2>1 DEF Pending, Beyond, Counted, Handed
<1> QED
  BY <1>1, <1>2, <1>3, <1>4, <1>5, <1>6 DEF MNext

LEMMA RetiredStep == LossInv /\ TrafficInv /\ [MNext]_mVars => Retired'
<1> SUFFICES ASSUME LossInv, TrafficInv, [MNext]_mVars, NEW g \in retiring'
             PROVE  /\ g <= ngen' /\ g \in launched' /\ g # instances' /\ g \notin dropped'
                    /\ base'[g] <= count'[g]
  BY DEF Retired
<1>0. /\ TrafficTypes /\ Retired /\ ngen \in Nat /\ instances \in 0..ngen
      /\ retiring \subseteq Gen /\ Gen \subseteq Nat \ {None}
      /\ \A x \in Gen : count[x] \in Nat /\ base[x] \in Nat
  BY TrafficBasics DEF TrafficInv, Gen, None
<1>a. g \in retiring => /\ g \in Gen /\ g <= ngen /\ g \in launched /\ g # instances
                        /\ g \notin dropped /\ base[g] <= count[g] /\ g # None
  BY <1>0 DEF Retired
<1>1. CASE MHotSwap \/ MDisableOld \/ MRemove
  <2>1. /\ instances \in Gen /\ instances \notin dropped /\ BeginHandoff(instances)
        /\ UNCHANGED <<count, dropped>> /\ launched \subseteq launched'
        /\ ngen' = ngen \/ ngen' = ngen + 1
        /\ instances' = None \/ instances' = ngen + 1
    BY <1>0, <1>1, LeavesMap
  <2>2. CASE g \in retiring
    <3>1. base'[g] = base[g]
      BY <1>0, <1>a, <2>1, <2>2 DEF BeginHandoff, counters, TrafficTypes
    <3> QED
      BY <1>0, <1>a, <2>1, <2>2, <3>1
  <2>3. CASE g \notin retiring
    <3>1. g = instances /\ g \in launched /\ base' = [base EXCEPT ![g] = count[g]]
      BY <2>1, <2>3 DEF BeginHandoff, counters
    <3>2. base'[g] = count[g] /\ g <= ngen /\ g # None
      BY <1>0, <2>1, <3>1 DEF TrafficTypes
    <3> QED
      BY <1>0, <2>1, <3>1, <3>2
  <2> QED
    BY <2>2, <2>3
<1>2. ASSUME NEW h, (MDrainJoin(h) /\ h \in Gen) \/ (MStopJoined /\ h = op.old)
      PROVE  /\ g <= ngen' /\ g \in launched' /\ g # instances' /\ g \notin dropped'
             /\ base'[g] <= count'[g]
  <2>1. /\ UNCHANGED <<count, base, dropped, ngen, instances, launched>>
        /\ retiring' \subseteq retiring
    BY <1>2, Folds
  <2> QED
    BY <1>a, <2>1
<1>3. CASE MNewFails
  <2>1. /\ UNCHANGED <<count, counters, ngen, instances, launched>>
        /\ dropped' = dropped \cup {instances}
    BY <1>3, Drops
  <2> QED
    BY <1>a, <2>1 DEF counters
<1>4. ASSUME NEW h \in Gen, CountTraffic(h)
      PROVE  /\ g <= ngen' /\ g \in launched' /\ g # instances' /\ g \notin dropped'
             /\ base'[g] <= count'[g]
  <2>1. /\ UNCHANGED <<retiring, base, dropped, ngen, instances, launched>>
        /\ \A x \in Gen : count[x] <= count'[x] /\ count'[x] \in Nat
    BY <1>0, <1>4 DEF CountTraffic, counters, vars, genVars, TrafficTypes
  <2> QED
    BY <1>0, <1>a, <2>1
<1>5. CASE Unmetered
  <2>1. UNCHANGED <<count, retiring, base, dropped>>
    BY <1>5 DEF Unmetered, metricVars, counters
  <2>2. g \in launched' /\ g <= ngen' /\ g # instances'
    BY <1>0, <1>5, <1>a, <2>1, UnmeteredCalls
  <2> QED
    BY <1>a, <2>1, <2>2
<1>6. CASE Collect \/ UNCHANGED mVars
  BY <1>6, <1>a DEF Collect, counters, mVars, metricVars, vars, genVars
<1> QED
  BY <1>1, <1>2, <1>3, <1>4, <1>5, <1>6 DEF MNext

LEMMA DroppedStep == LossInv /\ TrafficInv /\ [MNext]_mVars => Dropped'
<1> SUFFICES ASSUME LossInv, TrafficInv, [MNext]_mVars PROVE Dropped'
  OBVIOUS
<1>0. /\ Dropped /\ Undrained /\ ngen \in Nat /\ instances \in 0..ngen
      /\ dropped \subseteq Gen /\ Gen \subseteq Nat \ {None}
  BY TrafficBasics DEF TrafficInv, TrafficTypes, Gen, None
<1>1. CASE MHotSwap \/ MDisableOld \/ MRemove
  <2>1. /\ dropped' = dropped /\ ngen <= ngen' /\ (instances' = None \/ instances' = ngen + 1)
        /\ op'.step # "stopNew"
    BY <1>0, <1>1, LeavesMap
  <2>2. \A g \in dropped : g # instances' /\ g <= ngen'
    <3> SUFFICES ASSUME NEW g \in dropped PROVE g # instances' /\ g <= ngen'
      OBVIOUS
    <3>1. g \in Nat /\ g # None /\ g <= ngen
      BY <1>0 DEF Dropped
    <3> QED
      BY <1>0, <1>1, <2>1, <3>1, LeavesMap
  <2> QED
    BY <2>1, <2>2 DEF Dropped
<1>2. ASSUME NEW h, (MDrainJoin(h) /\ h \in Gen) \/ (MStopJoined /\ h = op.old) PROVE Dropped'
  <2>1. /\ UNCHANGED <<dropped, ngen, instances>> /\ (op'.step = "idle" \/ op' = op)
        /\ op.step # "stopNew" \/ op' = op
    BY <1>2, Folds
  <2> QED
    BY <1>0, <2>1 DEF Dropped
<1>3. CASE MNewFails
  <2>1. /\ UNCHANGED <<ngen, instances>> /\ dropped' = dropped \cup {instances}
        /\ op'.step = "stopNew" /\ op'.new = op.new /\ op.new = instances
    BY <1>3, Drops
  <2> QED
    BY <1>0, <2>1 DEF Dropped
<1>4. CASE Unmetered
  <2>1. dropped' = dropped
    BY <1>4 DEF Unmetered, metricVars
  <2>2. \A g \in dropped : g \in Nat /\ g # None /\ g <= ngen /\ (g = instances => op.step = "stopNew")
    BY <1>0 DEF Dropped
  <2>3. op.step = "stopNew" => op.new \in dropped /\ (op.old # None => op.old \notin dropped)
    BY <1>0 DEF Dropped, Undrained, Swapping
  <2>4. \A g \in dropped : g <= ngen' /\ (g = instances' => op'.step = "stopNew")
    <3> SUFFICES ASSUME NEW g \in dropped
                 PROVE  g <= ngen' /\ (g = instances' => op'.step = "stopNew")
      OBVIOUS
    <3>1. g \in Nat /\ g # None /\ g <= ngen /\ (g = instances => op.step = "stopNew")
      BY <2>2
    <3> QED
      BY <1>0, <1>4, <2>3, <3>1, UnmeteredCalls
  <2>5. op'.step = "stopNew" => op'.new \in dropped
    BY <1>4, <2>3, UnmeteredCalls DEF Swapping
  <2> QED
    BY <2>1, <2>4, <2>5 DEF Dropped
<1>5. CASE Collect \/ UNCHANGED mVars \/ \E g \in Gen : CountTraffic(g)
  <2>1. UNCHANGED <<dropped, ngen, instances, op>>
    BY <1>5 DEF Collect, CountTraffic, mVars, metricVars, vars, genVars
  <2> QED
    BY <1>0, <2>1 DEF Dropped
<1> QED
  BY <1>1, <1>2, <1>3, <1>4, <1>5 DEF MNext
\* A step launches at most the generation it creates; what was not launched does not begin to
\* listen, and only a listener that was bound becomes ready.
LEMMA Launching ==
  ASSUME LossInv, TypeInv', NotYet', [Next]_vars
  PROVE  /\ launched \subseteq launched' /\ launched' \subseteq launched \cup {ngen + 1}
         /\ \A x \in ready' : x \in ready \/ lst[x] = "bound"
         /\ \A g \in Gen \ launched', p \in Proto :
              lst[<<g, p>>] = "off" => lst'[<<g, p>>] = "off"
<1>0. /\ TypeInv /\ TypeOK /\ ngen \in Nat /\ ngen' \in Nat /\ Gen \subseteq Nat
  <2>1. ngen' \in Nat
    BY ManagerAssumption DEF TypeInv, TypeOK
  <2> QED
    BY <2>1, Basics DEF LossInv, IndInv, Gen
<1> USE DEF genVars, srvVars, drainVars, closeVars
<1>1. /\ launched \subseteq launched' /\ launched' \subseteq launched \cup {ngen + 1}
      /\ ngen' = ngen \/ ngen + 1 \in launched' \/ (ngen' = ngen + 1 /\ lst' = lst)
  <2>1. CASE StartAll \/ EnableNew \/ HotSwap \/ Rollback
    BY <2>1 DEF StartAll, EnableNew, HotSwap, Rollback, Create
  <2>2. CASE Transition /\ ~(StartAll \/ EnableNew \/ HotSwap \/ Rollback)
    BY <2>2 DEF Transition, BeginReload, PreflightFails, ReloadNothing, DisableOld, NewReady,
       NewFails, DropNew, RestorePlaceholder, RollbackSettles, Remove, StopJoined
  <2>3. CASE ~Transition
    BY ZenonT(60), <2>3 DEF Next, Administrator, SaveConfig, DeleteRow, ListenerLoop, Bind, Install, Retry,
       Watch, AcceptFails, listenerRest, Sessions, Accept, SessionEnds, Drainer, DrainBegin,
       DrainEnd, DrainJoin, DrainExpires, drainRest, Interrupt, Closing, CloseTake,
       CloseShutdown, CloseJoined, CloseDone, closeRest, vars
  <2> QED
    BY <2>1, <2>2, <2>3
<1>2. ready' \subseteq ready \/ \E h \in Gen, q \in Proto : Install(h, q)
  BY ZenonT(60) DEF Next, Transition, StartAll, BeginReload, PreflightFails, ReloadNothing, EnableNew,
     DisableOld, HotSwap, NewReady, NewFails, DropNew, RestorePlaceholder, Rollback,
     RollbackSettles, Remove, StopJoined, Administrator, SaveConfig, DeleteRow, ListenerLoop,
     Bind, Retry, Watch, AcceptFails, listenerRest, Sessions, Accept, SessionEnds, Drainer,
     DrainBegin, DrainEnd, DrainJoin, DrainExpires, drainRest, Interrupt, Closing, CloseTake,
     CloseShutdown, CloseJoined, CloseDone, Shutdown, closeRest, vars
<1>3. ASSUME NEW h \in Gen, NEW q \in Proto, Install(h, q)
      PROVE  \A x \in ready' : x \in ready \/ lst[x] = "bound"
  BY <1>3 DEF Install
<1>4. ASSUME NEW g \in Gen \ launched', NEW p \in Proto, lst[<<g, p>>] = "off"
      PROVE  lst'[<<g, p>>] = "off"
  <2>0. g \in Gen /\ g \in Nat /\ g \notin launched'
    BY <1>0, <1>4
  <2>1. CASE g <= ngen
    BY <1>0, <1>4, <2>1, ListenerSteps
  <2>2. CASE g > ngen'
    BY <1>4, <2>2 DEF NotYet
  <2>3. CASE ngen < g /\ g <= ngen'
    <3>1. ngen' = ngen + 1 /\ g = ngen + 1
      BY <1>0, <2>3, StepCreates DEF Create
    <3> QED
      BY <1>0, <1>1, <1>4, <2>0, <3>1
  <2> QED
    BY <1>0, <2>0, <2>1, <2>2, <2>3
<1> QED
  BY <1>1, <1>2, <1>3, <1>4

LEMMA UnlaunchedStep ==
  LossInv /\ LossInv' /\ TrafficInv /\ [MNext]_mVars => Unlaunched'
<1> SUFFICES ASSUME LossInv, LossInv', TrafficInv, [MNext]_mVars,
                    NEW g \in Gen \ launched', NEW p \in Proto
             PROVE  /\ count'[g] = 0 /\ lst'[<<g, p>>] = "off"
                    /\ <<g, p>> \notin ready' /\ <<g, p>> \notin open'
  <2>1. Proto # {}
    BY DEF Proto
  <2> QED
    BY <2>1 DEF Unlaunched
<1>0. Unlaunched /\ TypeInv /\ TypeInv' /\ NotYet' /\ count \in [Gen -> Nat]
  BY DEF TrafficInv, TrafficTypes, LossInv, IndInv
<1>1. CASE Collect
  BY <1>0, <1>1 DEF Collect, Unlaunched, genVars, srvVars
<1>2. CASE [Next]_vars
  <2>1. /\ g \in Gen \ launched /\ lst'[<<g, p>>] = "off" /\ lst[<<g, p>>] = "off"
        /\ <<g, p>> \notin ready /\ <<g, p>> \notin open /\ count[g] = 0
    BY <1>0, <1>2, Launching DEF Unlaunched
  <2>2. <<g, p>> \notin ready'
    BY <1>0, <1>2, <2>1, Launching
  <2>3. <<g, p>> \notin open'
    <3>1. p = "socks" \/ p = "http"
      BY DEF Proto
    <3> QED
      BY <1>0, <1>2, <2>1, <3>1, StepBounds
  <2>4. count'[g] = 0
    <3>1. ASSUME NEW h \in Gen, CountTraffic(h) PROVE count'[g] = 0
      <4>1. h # g
        BY <3>1, <2>1, <1>0 DEF CountTraffic, Unlaunched
      <4> QED
        BY <1>0, <2>1, <3>1, <4>1 DEF CountTraffic
    <3>2. CASE MHotSwap \/ MDisableOld \/ MRemove \/ MStopJoined \/ MNewFails \/ Unmetered
               \/ UNCHANGED mVars \/ \E h \in Gen : MDrainJoin(h)
      BY <2>1, <3>2 DEF MHotSwap, MDisableOld, MRemove, MStopJoined, MNewFails, Unmetered,
         MDrainJoin, mVars, metricVars
    <3>3. CASE Collect
      BY <2>1, <3>3 DEF Collect
    <3> QED
      BY <3>1, <3>2, <3>3 DEF MNext
  <2> QED
    BY <2>1, <2>2, <2>3, <2>4
<1> QED
  BY <1>1, <1>2, MetricsRunManager

LEMMA UndrainedStep ==
  LossInv /\ LossInv' /\ TrafficInv /\ [MNext]_mVars => Undrained'
<1> SUFFICES ASSUME LossInv, LossInv', TrafficInv, [MNext]_mVars PROVE Undrained'
  OBVIOUS
<1>0. /\ Undrained /\ ngen \in Nat /\ instances \in 0..ngen /\ 1..ngen \subseteq Gen
      /\ op \in OpType(ngen) /\ op.old \in 0..ngen
      /\ instances # None => instances \in Gen /\ instances <= ngen
      /\ op.old # None => op.old \in Gen /\ op.old <= ngen
  BY TrafficBasics DEF TrafficInv, OpType, None
<1>d. ngen' = ngen + 1 => ngen + 1 \in Gen /\ drain[ngen + 1] = "none"
  <2>1. ngen' \in 0..MaxGen /\ MaxGen \in Nat
    BY Basics DEF LossInv, IndInv, TypeInv, TypeOK
  <2>2. \A g \in Gen : drain[g] # "none" => g <= ngen
    BY DEF LossInv, DrainInv, DrainOrder
  <2> QED
    BY <1>0, <2>1, <2>2 DEF Gen
<1>u. ASSUME UNCHANGED <<drain, instances, op, dropped, launched, retiring>> PROVE Undrained'
  BY <1>0, <1>u DEF Undrained
<1>1. CASE MHotSwap \/ MDisableOld \/ MRemove
  <2>1. /\ UNCHANGED <<drain, dropped>> /\ instances \in Gen /\ instances \notin dropped
        /\ BeginHandoff(instances)
        /\ \/ instances' = None /\ launched' = launched
           \/ ngen' = ngen + 1 /\ instances' = ngen + 1 /\ launched' = launched \cup {ngen + 1}
        /\ op'.step \in Swapping => op'.old = instances /\ instances' # None
    BY <1>1, LeavesMap
  <2>2. instances # None
    BY <2>1 DEF Gen, None
  <2>3. drain[instances] = "none" /\ instances # ngen + 1
    BY <1>0, <2>2 DEF Undrained
  <2>4. instances \in launched => instances \in retiring'
    BY <2>1 DEF BeginHandoff
  <2>5. instances' # None => drain'[instances'] = "none"
    BY <1>d, <2>1
  <2> QED
    BY <2>1, <2>2, <2>3, <2>4, <2>5 DEF Undrained
<1>2. ASSUME NEW h, (MDrainJoin(h) /\ h \in Gen) \/ (MStopJoined /\ h = op.old) PROVE Undrained'
  <2>1. /\ UNCHANGED <<dropped, instances, launched>> /\ [Next]_vars
        /\ op'.step = "idle" \/ (op' = op /\ drain[h] = "join")
        /\ ~Kept' \/ FinishHandoff(h)
    BY <1>2, Folds
  <2>2. instances' # None => drain'[instances'] = "none"
    <3>1. ASSUME instances # None PROVE drain'[instances] = "none"
      <4>1. drain[instances] = "none" /\ ~(op.step \in Swapping /\ op.old = instances)
        BY <1>0, <3>1 DEF Undrained
      <4> QED
        BY <1>0, <2>1, <3>1, <4>1, DrainsOnce
    <3> QED
      BY <2>1, <3>1
  <2>3. ASSUME op'.step \in Swapping, op'.old # None
        PROVE  /\ drain'[op'.old] = "none" /\ op'.old # instances' /\ op'.old \notin dropped'
               /\ op'.old \in launched' => op'.old \in retiring'
    <3>1. op' = op /\ drain[h] = "join" /\ op'.step # "idle"
      BY <2>1, <2>3 DEF Swapping
    <3>2. /\ drain[op.old] = "none" /\ op.old # instances /\ op.old \notin dropped
          /\ op.old \in launched => op.old \in retiring
      BY <2>3, <3>1, <1>0 DEF Undrained
    <3>3. drain'[op.old] = "none"
      BY <1>0, <2>1, <2>3, <3>1, <3>2, DrainsOnce
    <3>4. Kept'
      BY <3>1 DEF Kept, LossInv, CallOwns
    <3>5. FinishHandoff(h) /\ h # op.old
      BY <2>1, <3>1, <3>2, <3>4
    <3>6. op.old \in retiring => op.old \in retiring'
      BY <3>5 DEF FinishHandoff, counters
    <3> QED
      BY <2>1, <3>1, <3>2, <3>3, <3>6
  <2> QED
    BY <2>2, <2>3 DEF Undrained
<1>3. CASE MNewFails
  <2>1. /\ UNCHANGED <<counters, drain, instances, launched>>
        /\ op.step = "waitNew" /\ op'.old = op.old /\ dropped' = dropped \cup {instances}
    BY <1>3, Drops
  <2> QED
    BY <1>0, <2>1 DEF Undrained, counters, Swapping
<1>4. CASE Collect \/ UNCHANGED mVars \/ \E g \in Gen : CountTraffic(g)
  BY <1>4, <1>u DEF Collect, CountTraffic, mVars, metricVars, counters, vars, genVars, drainVars
<1>5. CASE Unmetered
  <2>1. UNCHANGED <<dropped, retiring>>
    BY <1>5 DEF Unmetered, metricVars, counters
  <2>2. [Next]_vars
    BY <1>5 DEF Unmetered, Next, Transition, Drainer
  <2>3. instances' # None => drain'[instances'] = "none"
    <3>1. CASE instances' = instances
      <4>1. instances # None =>
              drain[instances] = "none" /\ ~(op.step \in Swapping /\ op.old = instances)
        BY <1>0 DEF Undrained
      <4> QED
        BY <1>0, <2>2, <3>1, <4>1, DrainsOnce
    <3>2. CASE ngen' = ngen + 1 /\ instances' = ngen + 1
      <4>1. ngen + 1 \in Gen /\ drain[ngen + 1] = "none" /\ op.old # ngen + 1
        BY <1>0, <1>d, <3>2
      <4> QED
        BY <2>2, <3>2, <4>1, DrainsOnce
    <3>3. CASE op.step = "stopNew" /\ instances' = op.old /\ op.old # None
      <4>1. op.old \in Gen /\ drain[op.old] = "none" /\ op.old # instances
        BY <1>0, <3>3 DEF Undrained, Swapping
      <4> QED
        BY <2>2, <3>3, <4>1, DrainsOnce
    <3> QED
      BY <1>5, <3>1, <3>2, <3>3, UnmeteredCalls
  <2>4. ASSUME op'.step \in Swapping, op'.old # None
        PROVE  /\ drain'[op'.old] = "none" /\ op'.old # instances' /\ op'.old \notin dropped'
               /\ op'.old \in launched' => op'.old \in retiring'
    <3>1. op'.step # "idle" /\ op'.step # "remove"
      BY <2>4 DEF Swapping
    <3>2. /\ op.step \in Swapping /\ op'.old = op.old
          /\ \/ instances' = instances /\ launched' = launched
             \/ instances' = ngen + 1 /\ launched' \subseteq launched \cup {ngen + 1}
      BY <1>5, <2>4, <3>1, UnmeteredCalls DEF Swapping
    <3>3. /\ drain[op.old] = "none" /\ op.old # instances /\ op.old \notin dropped
          /\ op.old \in launched => op.old \in retiring
      BY <1>0, <2>4, <3>2 DEF Undrained
    <3>4. drain'[op.old] = "none"
      BY <1>0, <2>2, <2>4, <3>1, <3>2, <3>3, DrainsOnce
    <3>5. op.old # ngen + 1
      BY <1>0
    <3> QED
      BY <2>1, <3>2, <3>3, <3>4, <3>5
  <2> QED
    BY <2>3, <2>4 DEF Undrained
<1> QED
  BY <1>1, <1>2, <1>3, <1>4, <1>5 DEF MNext

\* What has been handed over and counts no more, stays so.
LEMMA StaysSettled ==
  ASSUME LossInv, LossInv', TrafficInv, [Next]_vars, Kept, NEW g \in Handed \ retiring
  PROVE  drain'[g] = "done" \/ Quiet(g)' \/ g \notin launched'
<1>0. /\ g \in Gen /\ g <= ngen /\ ngen \in Nat /\ TypeInv /\ HTTPSilent
      /\ TypeInv' /\ NotYet'
  BY TrafficBasics DEF Handed, LossInv, IndInv, DrainInv
<1>1. drain[g] = "done" \/ Quiet(g) \/ g \notin launched
  BY DEF TrafficInv, Settled
<1>2. drain[g] = "done" => drain'[g] = "done"
  BY <1>0, DrainsOnce
<1>3. Quiet(g) => Quiet(g)'
  BY <1>0, ShutStays DEF Quiet
<1>4. g \notin launched => g \notin launched'
  BY <1>0, Launching
<1> QED
  BY <1>1, <1>2, <1>3, <1>4

LEMMA SettledStep ==
  LossInv /\ LossInv' /\ TrafficInv /\ [MNext]_mVars => Settled'
<1> SUFFICES ASSUME LossInv, LossInv', TrafficInv, [MNext]_mVars, Kept',
                    NEW g \in (Handed \ retiring)'
             PROVE  drain'[g] = "done" \/ Quiet(g)' \/ g \notin launched'
  BY DEF Settled
<1>0. /\ ngen \in Nat /\ 1..ngen \subseteq Gen /\ Handed \subseteq Gen
      /\ instances \in 0..ngen
      /\ [Next]_vars => Kept
  BY TrafficBasics, KeptBefore
<1>1. CASE MHotSwap \/ MDisableOld \/ MRemove
  <2>1. /\ [Next]_vars /\ instances \in Gen /\ BeginHandoff(instances)
        /\ Handed' = Handed \cup {instances}
        /\ launched' \subseteq launched \cup {ngen + 1}
    BY <1>1, LeavesMap
  <2>2. retiring \subseteq retiring' /\ (instances \in launched => instances \in retiring')
    BY <2>1 DEF BeginHandoff, counters
  <2>3. g = instances => g \notin launched'
    BY <1>0, <2>1, <2>2
  <2> QED
    BY <1>0, <2>1, <2>2, <2>3, StaysSettled
<1>2. ASSUME NEW h, (MDrainJoin(h) /\ h \in Gen) \/ (MStopJoined /\ h = op.old)
      PROVE  drain'[g] = "done" \/ Quiet(g)' \/ g \notin launched'
  <2>1. /\ [Next]_vars /\ Handed' = Handed
        /\ FinishHandoff(h)
        /\ drain'[h] = "done" \/ (h \in Gen /\ h <= ngen => Quiet(h))
    BY <1>2, Folds
  <2>2. CASE g \in retiring
    <3>1. g = h
      BY <2>1, <2>2 DEF FinishHandoff, counters
    <3>2. g \in Gen /\ g <= ngen
      BY <1>0, <2>1 DEF Handed
    <3>3. Quiet(g) => Quiet(g)'
      BY <2>1, <3>2, ShutStays DEF Quiet, LossInv, IndInv, DrainInv
    <3> QED
      BY <2>1, <3>1, <3>2, <3>3
  <2>3. CASE g \notin retiring
    BY <1>0, <2>1, <2>3, StaysSettled
  <2> QED
    BY <2>2, <2>3
<1>3. CASE MNewFails
  <2>1. [Next]_vars /\ UNCHANGED counters /\ Handed' = Handed
    BY <1>3, Drops
  <2> QED
    BY <1>0, <2>1, StaysSettled DEF counters
<1>4. CASE Unmetered
  <2>1. [Next]_vars /\ retiring' = retiring /\ ~closed'
    BY <1>4 DEF Unmetered, Next, Transition, Drainer, metricVars, counters, Kept
  <2>2. Handed' \subseteq Handed
    BY <1>4, <2>1, HandedStays
  <2> QED
    BY <1>0, <2>1, <2>2, StaysSettled
<1>5. CASE UNCHANGED mVars \/ \E h \in Gen : CountTraffic(h)
  <2>1. [Next]_vars /\ retiring' = retiring /\ Handed' = Handed
    BY <1>5 DEF CountTraffic, counters, mVars, metricVars, vars, genVars, Handed
  <2> QED
    BY <1>0, <2>1, StaysSettled
<1>6. CASE Collect
  <2>1. UNCHANGED <<retiring, ngen, dropped, instances, closer, stored, op, drain, launched, lst,
                    open, refuses, cfgOf>>
    BY <1>6 DEF Collect, counters, genVars, srvVars, drainVars, closeVars
  <2>2. Kept /\ g \in Handed \ retiring
    BY <2>1 DEF Kept, closed, Handed
  <2>3. drain[g] = "done" \/ Quiet(g) \/ g \notin launched
    BY <2>2 DEF TrafficInv, Settled
  <2>4. Quiet(g) => Quiet(g)'
    BY <2>1 DEF Quiet, Joined, Shut, Has
  <2> QED
    BY <2>1, <2>3, <2>4
<1> QED
  BY <1>1, <1>2, <1>3, <1>4, <1>5, <1>6 DEF MNext

LEMMA RemovingStep == LossInv /\ TrafficInv /\ [MNext]_mVars => Removing'
<1> SUFFICES ASSUME LossInv, TrafficInv, [MNext]_mVars, op'.step = "remove"
             PROVE  ~stored'.row /\ instances' = None
  BY DEF Removing
<1>0. Removing
  BY DEF TrafficInv
<1>1. CASE MHotSwap \/ MDisableOld \/ MRemove
  BY <1>1, LeavesMap
<1>2. ASSUME NEW h, (MDrainJoin(h) /\ h \in Gen) \/ (MStopJoined /\ h = op.old)
      PROVE  ~stored'.row /\ instances' = None
  <2>1. UNCHANGED <<stored, instances>> /\ (op'.step = "idle" \/ op' = op)
    BY <1>2, Folds
  <2> QED
    BY <1>0, <2>1 DEF Removing
<1>3. ~MNewFails
  BY Drops
<1>4. CASE Unmetered
  <2>1. op.step = "remove" /\ instances' = instances
    BY <1>4, UnmeteredCalls
  <2>2. ~stored.row /\ instances' = None
    BY <1>0, <2>1 DEF Removing
  <2>3. stored' = stored
    BY <1>4, <2>2, <2>1 DEF Unmetered, StartAll, BeginReload, PreflightFails, ReloadNothing,
       EnableNew, NewReady, DropNew, RestorePlaceholder, Rollback, RollbackSettles,
       Administrator, SaveConfig, DeleteRow, ListenerLoop,
       Bind, Install, Retry, Watch, AcceptFails, listenerRest, Sessions, Accept, SessionEnds,
       DrainBegin, DrainEnd, DrainExpires, drainRest, Interrupt, Closing, CloseTake,
       CloseShutdown, CloseJoined, CloseDone, closeRest
  <2> QED
    BY <2>2, <2>3
<1>5. CASE Collect \/ UNCHANGED mVars \/ \E g \in Gen : CountTraffic(g)
  <2>1. UNCHANGED <<stored, instances, op>>
    BY <1>5 DEF Collect, CountTraffic, mVars, vars
  <2> QED
    BY <1>0, <2>1 DEF Removing
<1> QED
  BY <1>1, <1>2, <1>3, <1>4, <1>5 DEF MNext

\* The snapshot of the server is what all its generations have counted.
LEMMA SnapshotIsTotal ==
  ASSUME LossInv, TrafficInv, instances # None
  PROVE  Snapshot = Total(1..ngen \ (dropped \ {instances}))
<1>0. /\ instances \in 1..ngen /\ 1..ngen \subseteq Gen /\ IsFiniteSet(Handed) /\ Handed \subseteq Gen
      /\ \A g \in Gen : count[g] \in Nat
      /\ carry \in Nat /\ Pending \in Nat /\ Counted \in Nat
  BY TrafficBasics DEF None
<1>1. Kept
  BY DEF Kept, LossInv, CallOwns
<1>2. carry + Pending = Counted
  BY <1>1 DEF TrafficInv, Balance, Pending, Counted
<1>3. 1..ngen \ (dropped \ {instances}) = Handed \cup {instances} /\ instances \notin Handed
  BY <1>0 DEF Handed
<1>4. SumFunctionOnSet(count, Handed \cup {instances}) = count[instances] + Counted
  <2>1. \A g \in Handed : count[g] \in Nat
    BY <1>0
  <2>2. count[instances] \in Nat
    BY <1>0
  <2> QED
    BY <1>0, <1>3, <2>1, <2>2, SumAdd DEF Counted
<1>5. Snapshot = count[instances] + carry + Pending
  BY DEF Snapshot, Pending, Beyond
<1>6. count[instances] \in Nat
  BY <1>0
<1> QED
  BY <1>0, <1>2, <1>3, <1>4, <1>5, <1>6 DEF Total

\* The generations together never count less than before.
LEMMA TotalGrows ==
  ASSUME LossInv, TrafficInv, [MNext]_mVars
  PROVE  SumFunctionOnSet(count, 1..ngen) <= SumFunctionOnSet(count', 1..ngen')
<1>0. ngen \in Nat /\ 1..ngen \subseteq Gen /\ count \in [Gen -> Nat] /\ IsFiniteSet(1..ngen)
      /\ \A g \in 1..ngen : count[g] \in Nat
  <2>1. ngen \in Nat /\ 1..ngen \subseteq Gen /\ count \in [Gen -> Nat]
    BY TrafficBasics DEF TrafficInv, TrafficTypes
  <2> QED
    BY <2>1, FS_Interval
<1>1. SumFunctionOnSet(count, 1..ngen) \in Nat
  BY <1>0, SumIsNat
<1>2. ASSUME NEW g \in Gen, CountTraffic(g)
      PROVE  SumFunctionOnSet(count, 1..ngen) <= SumFunctionOnSet(count', 1..ngen')
  <2>1. ngen' = ngen /\ count' = [count EXCEPT ![g] = count[g] + 1]
    BY <1>2 DEF CountTraffic, vars, genVars
  <2>2. /\ count'[g] = count[g] + 1 /\ count[g] \in Nat
        /\ \A x \in Gen \ {g} : count'[x] = count[x]
        /\ \A x \in 1..ngen : count[x] \in Nat /\ count'[x] \in Nat
    BY <1>0, <2>1
  <2>3. CASE g \in 1..ngen
    <3>1. \A x \in 1..ngen \ {g} : count'[x] = count[x]
      BY <1>0, <2>2
    <3>2. SumFunctionOnSet(count', 1..ngen) + count[g] = SumFunctionOnSet(count, 1..ngen) + count'[g]
      BY <1>0, <2>2, <2>3, <3>1, SumChanges
    <3>3. SumFunctionOnSet(count', 1..ngen) \in Nat
      <4>1. \A x \in 1..ngen : count'[x] \in Nat
        BY <2>2
      <4> QED
        BY <1>0, <4>1, SumIsNat
    <3> QED
      BY <1>1, <2>1, <2>2, <3>2, <3>3
  <2>4. CASE g \notin 1..ngen
    <3>1. \A x \in 1..ngen : count[x] = count'[x]
      BY <1>0, <2>2, <2>4
    <3>2. SumFunctionOnSet(count, 1..ngen) = SumFunctionOnSet(count', 1..ngen)
      BY <1>0, <3>1, SumAgrees
    <3> QED
      BY <1>1, <2>1, <3>2
  <2> QED
    BY <2>3, <2>4
<1>3. CASE count' = count
  <2>1. ngen <= ngen' /\ ngen' \in Nat /\ ngen' <= MaxGen
    <3>1. CASE [Next]_vars
      <4>1. TypeOK'
        BY <3>1, LossStep DEF LossInv, IndInv, TypeInv
      <4> QED
        BY <3>1, <4>1, OnlyMore, ManagerAssumption DEF LossInv, IndInv, TypeOK
    <3>2. CASE Collect
      BY <1>0, <3>2, Basics DEF Collect, genVars, LossInv, IndInv
    <3> QED
      BY <3>1, <3>2, MetricsRunManager
  <2>2. /\ 1..ngen' \subseteq Gen /\ 1..ngen \in SUBSET (1..ngen')
        /\ IsFiniteSet(1..ngen')
    <3>1. 1..ngen' \subseteq Gen /\ 1..ngen \in SUBSET (1..ngen')
      BY <1>0, <2>1, ManagerAssumption DEF Gen
    <3>2. IsFiniteSet(1..ngen')
      BY <2>1, FS_Interval
    <3> QED
      BY <3>1, <3>2
  <2>3. \A x \in 1..ngen' : count[x] \in Nat
    BY <1>0, <2>2
  <2>4. SumFunctionOnSet(count, 1..ngen')
          = SumFunctionOnSet(count, 1..ngen) + SumFunctionOnSet(count, 1..ngen' \ 1..ngen)
    <3> DEFINE S == 1..ngen'
               P == 1..ngen
    <3>1. IsFiniteSet(S) /\ P \in SUBSET S
      BY <2>2
    <3>2. \A x \in S : count[x] \in Nat
      BY <2>3
    <3> HIDE DEF S, P
    <3>3. SumFunctionOnSet(count, S) = SumFunctionOnSet(count, P) + SumFunctionOnSet(count, S \ P)
      BY <3>1, <3>2, SumSplit
    <3> QED
      BY <3>3 DEF S, P
  <2>5. SumFunctionOnSet(count, 1..ngen' \ 1..ngen) \in Nat
    <3>1. IsFiniteSet(1..ngen' \ 1..ngen)
      BY <2>2, FS_Subset
    <3>2. \A x \in 1..ngen' \ 1..ngen : count[x] \in Nat
      BY <2>3
    <3> QED
      BY <3>1, <3>2, SumIsNat
  <2> QED
    BY <1>1, <1>3, <2>4, <2>5
<1>4. count' = count \/ \E g \in Gen : CountTraffic(g)
  BY DEF MNext, MHotSwap, MDisableOld, MRemove, MStopJoined, MNewFails, Unmetered, MDrainJoin,
     Collect, mVars, metricVars
<1> QED
  BY <1>2, <1>3, <1>4

\* A tick of the collector takes what all generations have counted; nothing else takes.
LEMMA LastAndRows ==
  ASSUME LossInv, TrafficInv, [MNext]_mVars
  PROVE  LastBelow' /\ RowsAddUp'
<1>0. /\ last \in Nat /\ rows \in Nat /\ ngen \in Nat /\ IsFiniteSet(1..ngen)
      /\ \A g \in 1..ngen : count[g] \in Nat
      /\ LastBelow /\ RowsAddUp /\ faults \in Nat
  <2>1. ngen \in Nat /\ last \in Nat /\ rows \in Nat /\ 1..ngen \subseteq Gen /\ TypeOK
        /\ \A g \in Gen : count[g] \in Nat
    BY TrafficBasics
  <2> QED
    BY <2>1, FS_Interval, ManagerAssumption DEF TrafficInv, TypeOK
<1>1. SumFunctionOnSet(count, 1..ngen) \in Nat
  BY <1>0, SumIsNat
<1>2. CASE Collect
  <2>1. /\ last' = Snapshot /\ UNCHANGED <<count, dropped, ngen, halted>> /\ instances # None
        /\ \/ rows' = rows + subOrCurrent(Snapshot, last) /\ faults' = faults
           \/ halted \/ faults' = faults + 1
    BY <1>2 DEF Collect, counters, genVars, closeVars
  <2>2. ASSUME dropped = {} PROVE Snapshot = SumFunctionOnSet(count, 1..ngen)
    <3>1. 1..ngen \ (dropped \ {instances}) = 1..ngen
      BY <2>2
    <3> QED
      BY <2>1, <3>1, SnapshotIsTotal DEF Total
  <2>3. LastBelow'
    BY <1>1, <2>1, <2>2 DEF LastBelow
  <2>4. ASSUME dropped = {}, faults' = 0, ~halted' PROVE rows' = last'
    <3>1. rows' = rows + subOrCurrent(Snapshot, last) /\ faults = 0 /\ ~halted
      BY <1>0, <2>1, <2>4
    <3>2. rows = last /\ last <= Snapshot /\ Snapshot \in Nat
      BY <1>0, <1>1, <2>2, <2>4, <3>1 DEF LastBelow, RowsAddUp
    <3> QED
      BY <1>0, <2>1, <3>1, <3>2 DEF subOrCurrent
  <2> QED
    BY <2>1, <2>3, <2>4 DEF RowsAddUp
<1>3. CASE [Next]_vars /\ ~Collect
  <2>1. UNCHANGED <<last, rows>> /\ dropped \subseteq dropped'
    BY <1>3 DEF MNext, MHotSwap, MDisableOld, MRemove, MStopJoined, MNewFails, Unmetered,
       MDrainJoin, CountTraffic, mVars, metricVars, collector
  <2>2. RowsAddUp'
    BY <1>0, <1>3, <2>1, OnlyMore DEF RowsAddUp, LossInv, IndInv
  <2>3. LastBelow'
    <3>1. ASSUME dropped' = {} PROVE last <= SumFunctionOnSet(count', 1..ngen')
      <4>1. SumFunctionOnSet(count, 1..ngen) <= SumFunctionOnSet(count', 1..ngen')
        BY TotalGrows
      <4>2. last <= SumFunctionOnSet(count, 1..ngen)
        BY <1>0, <2>1, <3>1 DEF LastBelow
      <4>3. SumFunctionOnSet(count', 1..ngen') \in Nat
        <5>1. TrafficTypes' /\ TypeInv'
          BY TypesStep, TrafficLoss DEF LossInv, IndInv
        <5>2. ngen' \in Nat /\ 1..ngen' \subseteq Gen /\ count' \in [Gen -> Nat]
          <6>1. ngen' \in 0..MaxGen /\ MaxGen \in Nat
            BY <5>1, ManagerAssumption DEF TypeInv, TypeOK
          <6> QED
            BY <5>1, <6>1 DEF TrafficTypes, Gen
        <5>3. IsFiniteSet(1..ngen') /\ \A x \in 1..ngen' : count'[x] \in Nat
          BY <5>2, FS_Interval
        <5> QED
          BY <5>3, SumIsNat
      <4> QED
        BY <1>0, <1>1, <4>1, <4>2, <4>3
    <3> QED
      BY <2>1, <3>1 DEF LastBelow
  <2> QED
    BY <2>2, <2>3
<1> QED
  BY <1>2, <1>3, MetricsRunManager

LEMMA TrafficStep == LossInv /\ LossInv' /\ TrafficInv /\ [MNext]_mVars => TrafficInv'
BY TypesStep, BalanceStep, RetiredStep, DroppedStep, UnlaunchedStep, UndrainedStep, SettledStep,
   RemovingStep, LastAndRows DEF TrafficInv

LEMMA InitTraffic == MInit => LossInv /\ TrafficInv
<1> SUFFICES ASSUME MInit PROVE LossInv /\ TrafficInv
  OBVIOUS
<1>1. LossInv
  BY InitLoss DEF MInit
<1>2. /\ Init /\ count = [g \in Gen |-> 0] /\ base = [g \in Gen |-> 0]
      /\ carry = 0 /\ retiring = {} /\ last = 0 /\ rows = 0 /\ dropped = {}
      /\ ngen = 0 /\ instances = None /\ op.step = "start"
  BY DEF MInit, Init, Idle
<1>3. 1..ngen = {} /\ Handed = {}
  BY <1>2 DEF Handed
<1>4. SumFunctionOnSet(Beyond, {}) = 0 /\ SumFunctionOnSet(count, {}) = 0
  BY SumEmpty
<1>5. TrafficTypes /\ Balance /\ Retired /\ Dropped /\ LastBelow /\ RowsAddUp
  BY <1>2, <1>3, <1>4 DEF TrafficTypes, Balance, Retired, Dropped, LastBelow, RowsAddUp
<1>6. Unlaunched
  BY <1>2 DEF Unlaunched, Init, Pair
<1>7. Undrained /\ Settled /\ Removing
  BY <1>2, <1>3 DEF Undrained, Settled, Removing, Swapping
<1> QED
  BY <1>1, <1>5, <1>6, <1>7 DEF TrafficInv

\* Every byte a generation counts is in the next snapshot once, whichever of the generations
\* are current, draining or gone, and the stored rows have what the snapshots had.
THEOREM TrafficIsKept == MSpec => []TrafficKept
<1>1. MInit => LossInv /\ TrafficInv
  BY InitTraffic
<1>2. LossInv /\ TrafficInv /\ [MNext]_mVars => (LossInv /\ TrafficInv)'
  BY TrafficLoss, TrafficStep
<1>3. LossInv /\ TrafficInv => TrafficKept
  BY SnapshotIsTotal DEF TrafficKept, Conservation, TrafficInv
<1> QED
  BY <1>1, <1>2, <1>3, PTL DEF MSpec

\* Clients see nothing of a tick of the collector.
LEMMA CollectUnseen == SuccInv /\ Collect => SuccInv' /\ UNCHANGED Clients!vars
<1> SUFFICES ASSUME SuccInv, Collect PROVE SuccInv' /\ UNCHANGED Clients!vars
  OBVIOUS
<1>1. UNCHANGED <<instances, genVars, ctxDone, srvVars, drainVars, op, closeVars>>
  BY DEF Collect
<1>2. LossInv'
  BY CollectKeeps DEF SuccInv
<1> USE <1>1 DEF genVars, srvVars, drainVars, closeVars
<1>3. HaltEnds' /\ OverIsShut' /\ StartedOrOver' /\ GoneRefuses' /\ DrainLeaves' /\ CallOrder'
  BY DEF SuccInv, HaltEnds, OverIsShut, StartedOrOver, GoneRefuses, DrainLeaves, CallOrder,
     Shut, Has, Draining, closed
<1>4. \A g : LifeOf(g)' = LifeOf(g)
  BY DEF LifeOf
<1>5. Due' = Due
  BY <1>4 DEF Due
<1> QED
  BY <1>2, <1>3, <1>4, <1>5, Stutters DEF SuccInv

\* The counters and the collector leave the succession of generations as clients see it
\* (metrics_handoff.go:15-75, stats_collector.go:62-145).
THEOREM TrafficKeepsSuccession == MSpec => GenerationsSucceed
<1>1. MInit => SuccInv /\ Clients!Init
  BY InitSucc, InitClients DEF MInit
<1>2. SuccInv /\ [MNext]_mVars => SuccInv' /\ [Clients!Next]_(Clients!vars)
  BY SuccStep, StepClients, MetricsRunManager, CollectUnseen
<1> QED
  BY <1>1, <1>2, PTL DEF MSpec, GenerationsSucceed, Clients!Spec

-----------------------------------------------------------------------------
(* The store                                                               *)

storeVars == <<subject, mVars, confVars>>

\* The run that joins the two leaves the traffic to module Metrics.
LEMMA StoreRunsMetrics == [StoreNext]_storeVars => [MNext]_mVars
BY DEF StoreNext, storeVars

\* The traffic is kept whatever else is in the store.
THEOREM StoreKeepsTraffic == StoreSpec => []TrafficKept
<1>1. StoreInit => LossInv /\ TrafficInv
  BY InitTraffic DEF StoreInit
<1>2. LossInv /\ TrafficInv /\ [StoreNext]_storeVars => (LossInv /\ TrafficInv)'
  BY TrafficLoss, TrafficStep, StoreRunsMetrics
<1>3. LossInv /\ TrafficInv => TrafficKept
  BY SnapshotIsTotal DEF TrafficKept, Conservation, TrafficInv
<1> QED
  BY <1>1, <1>2, <1>3, PTL DEF StoreSpec, storeVars

-----------------------------------------------------------------------------
(* What runs is what is stored: Configuration, and the group of MCStore       *)

\* Where a process holds m.transition, and where a handler works on a new row
Reloading == {"load", "ready", "recheck", "rewrite"}
Saving    == {"check", "write", "lock", "failed", "undocheck", "undo"} \cup Reloading
\* Where a handler waits, without configurationMu
Waiting   == {"idle", "start"}

\* The two mutexes are held by whoever is where it holds them
Mutexes ==
  /\ \A p \in Conf!Procs : pc[p] \in Reloading <=> holder = p
  /\ \A h \in Handlers : pc[h] \notin Waiting <=> editor = h

\* A request is where its kind takes it, and works on an id that was given
Requests ==
  \A h \in Handlers :
    /\ pc[h] \in Saving => req[h].op # "delete"
    /\ pc[h] \in {"undocheck", "undo"} => req[h].op # "create"
    /\ pc[h] = "uncreate" => req[h].op = "create"
    /\ pc[h] = "remove" => req[h].op \in {"create", "delete"}
    /\ pc[h] = "erase" => req[h].op = "delete"
    /\ pc[h] \notin Waiting \/ (pc[h] = "start" /\ req[h].op # "create") => req[h].id < nextId
    /\ pc[h] \notin Waiting /\ req[h].op = "create" => req[h].id \notin deleted

\* An instance has a configuration, and one that a Reload brings up is enabled
Instances ==
  /\ \A i \in Conf!Ids : inst[i] = Conf!NoInst \/ inst[i].cfg \in Conf!Cfg
  /\ \A p \in Conf!Procs : pc[p] = "ready" =>
       rel[p].cfg \in Conf!Cfg /\ rel[p].cfg.on /\ rel[p].back \in Conf!Cfg

Stopped(i) ==
  /\ row[i] = Conf!NoRow /\ inst[i] = Conf!NoInst
  /\ \A p \in Conf!Procs : pc[p] = "ready" => rel[p].id # i

\* A deleted server has no row, no instance and no Reload that is bringing it up; a
\* deletion under way has come as far as its place says
Deletions ==
  /\ \A i \in deleted : i < nextId /\ Stopped(i)
  /\ \A h \in Handlers : req[h].op = "delete" =>
       /\ pc[h] \in {"remove", "ok"} => row[req[h].id] = Conf!NoRow
       /\ pc[h] = "ok" => Stopped(req[h].id)

ConfInv == Conf!TypeOK /\ Mutexes /\ Requests /\ Instances /\ Deletions

-----------------------------------------------------------------------------
Runs(cfg) == IF cfg.on THEN cfg ELSE Conf!NoRow
Clean(i)  == inst[i].cfg = Runs(row[i])

\* Nobody reloads by itself, what is asked for has an address, ids not yet given have
\* nothing, addresses are unique
Unshared ==
  /\ \A b \in Background : pc[b] = "idle"
  /\ \A h \in Handlers : pc[h] = "start" =>
       req[h].op # "none" /\ req[h].prev = Conf!NoRow
  /\ \A h \in Handlers :
       (pc[h] = "start" /\ req[h].op \in {"create", "save"}) \/ pc[h] \in {"check", "write"} =>
         req[h].new # Conf!NoRow
  /\ \A i \in Conf!Ids : i >= nextId => row[i] = Conf!NoRow /\ inst[i] = Conf!NoInst
  /\ Conf!AddressesUnique

\* What was checked for a conflict is still without one; what was saved is stored
Checked(h) ==
  LET id == req[h].id IN
  /\ pc[h] = "write" => ~Conf!Conflict(id, req[h].new)
  /\ pc[h] = "rewrite" => ~Conf!Conflict(id, rel[h].back)
  /\ pc[h] \in Saving /\ req[h].op # "create" =>
       req[h].prev # Conf!NoRow /\ ~Conf!Conflict(id, req[h].prev)
  /\ pc[h] \in {"lock"} \cup Reloading => rel[h].id = id
  /\ pc[h] \in Saving \ {"check", "write"} => row[id] # Conf!NoRow
  /\ pc[h] \in {"lock", "load", "ready"} \/ (pc[h] = "ok" /\ req[h].op # "delete") =>
       row[id] = req[h].new
  /\ pc[h] = "ready" => rel[h].cfg = row[id]

\* Without a failure of the database a request leaves the other servers alone, and its
\* own as it was until it has succeeded
Honest(h) ==
  LET id == req[h].id IN
  pc[h] \notin Waiting /\ dbFailures = 0 =>
    /\ \A i \in Conf!Ids \ {id} : Clean(i)
    /\ req[h].op = "create" => req[h].prev = Conf!NoRow
    /\ pc[h] \in {"check", "write", "erase", "refused"} => row[id] = req[h].prev
    /\ pc[h] \in Saving \cup {"erase", "refused"} => inst[id].cfg = Runs(req[h].prev)
    /\ pc[h] = "uncreate" => inst[id] = Conf!NoInst
    /\ pc[h] = "ok" => Clean(id)

AloneInv ==
  /\ Unshared
  /\ \A h \in Handlers : Checked(h) /\ Honest(h)
  /\ editor = Conf!Nobody /\ dbFailures = 0 => \A i \in Conf!Ids : Clean(i)

StoreInv == ConfInv /\ (subject = "alone" => AloneInv)

-----------------------------------------------------------------------------
USE StoreAssumption DEF StoreAssumption, Conf!ConfigurationAssumption, Conf!NamesAssumption

-----------------------------------------------------------------------------
\* What every step of a Reload does to the places and the mutexes
ReloadStep(p) ==
  /\ pc[p] \in {"lock"} \cup Reloading
  /\ pc' = [q \in Conf!Procs |-> pc'[q]]
  /\ \A q \in Conf!Procs \ {p} : pc'[q] = pc[q]
  /\ pc'[p] \in {"ok", "failed"} \cup Reloading
  /\ holder \in {p, Conf!Nobody}
  /\ holder' = IF pc'[p] \in Reloading THEN p ELSE Conf!Nobody
  /\ UNCHANGED <<nextId, req, editor, requests, reloads, deleted>>

LEMMA ReloadMoves ==
  ASSUME ConfInv, NEW p \in Conf!Procs, Conf!Reload(p)
  PROVE  ReloadStep(p)
<1> USE DEF ReloadStep, ConfInv, Conf!TypeOK, Mutexes, Reloading, Conf!Leaves, Conf!Goto
<1>1. CASE Conf!ReloadLocks(p)
  BY <1>1 DEF Conf!ReloadLocks, Conf!relRest
<1>2. CASE Conf!LoadFails(p)
  BY <1>2 DEF Conf!LoadFails, Conf!relRest
<1>3. CASE Conf!ReloadStops(p)
  BY <1>3 DEF Conf!ReloadStops, Conf!relRest
<1>4. CASE Conf!ReloadStarts(p)
  BY <1>4 DEF Conf!ReloadStarts, Conf!relRest
<1>5. CASE Conf!ReloadReady(p)
  BY <1>5 DEF Conf!ReloadReady, Conf!relRest
<1>6. CASE pc[p] = "recheck" /\ Conf!Checks(p, rel[p].id, rel[p].back, "rewrite", "failed")
  BY <1>6 DEF Conf!Checks, Conf!storeRest
<1>7. CASE /\ pc[p] = "rewrite"
           /\ Conf!Writes(p, rel[p].id, rel[p].back, FALSE, "failed", "failed")
  BY <1>7 DEF Conf!Writes, Conf!storeRest
<1> QED
  BY <1>1, <1>2, <1>3, <1>4, <1>5, <1>6, <1>7 DEF Conf!Reload, Conf!SavesBack

LEMMA ReloadTypes ==
  ASSUME ConfInv, NEW p \in Conf!Procs, Conf!Reload(p)
  PROVE  Conf!TypeOK'
<1>1. ReloadStep(p) /\ Conf!TypeOK
  BY ReloadMoves DEF ConfInv
<1> DEFINE Data ==
      /\ row' \in [Conf!Ids -> Conf!Cfg \cup {Conf!NoRow}]
      /\ inst' \in [Conf!Ids -> [cfg : Conf!Cfg \cup {Conf!NoRow}, launched : BOOLEAN]]
      /\ rel' \in [Conf!Procs -> [id : Conf!Ids, cfg : Conf!Cfg \cup {Conf!NoRow},
                                  back : Conf!Cfg \cup {Conf!NoRow}]]
      /\ \A q \in Conf!Procs \ {p} : rel'[q] = rel[q]
      /\ pc'[p] \in {"recheck", "rewrite"} => rel'[p].back \in Conf!Cfg
      /\ dbFailures' \in 0..MaxFaults
<1>2. Data
  <2> USE <1>1 DEF Conf!TypeOK, Conf!Goto, Conf!Fault
  <2>1. CASE Conf!ReloadLocks(p)
    BY <2>1 DEF Conf!ReloadLocks
  <2>2. CASE Conf!LoadFails(p)
    BY <2>2 DEF Conf!LoadFails, Conf!Leaves
  <2>3. CASE Conf!ReloadStops(p)
    BY <2>3 DEF Conf!ReloadStops, Conf!NoInst, Conf!Leaves
  <2>4. CASE Conf!ReloadStarts(p)
    <3> DEFINE id == rel[p].id
               r == [id |-> id, cfg |-> row[id],
                     back |-> IF inst[id] = Conf!NoInst THEN [row[id] EXCEPT !.on = FALSE]
                              ELSE inst[id].cfg]
    <3>1. id \in Conf!Ids /\ row[id] \in Conf!Cfg
      BY <2>4 DEF Conf!ReloadStarts
    <3>2. r.back \in Conf!Cfg
      BY <3>1 DEF ConfInv, Instances, Conf!Cfg
    <3>3. r \in [id : Conf!Ids, cfg : Conf!Cfg \cup {Conf!NoRow},
                 back : Conf!Cfg \cup {Conf!NoRow}]
      BY <3>1, <3>2
    <3>4. rel' = [rel EXCEPT ![p] = r]
      BY <2>4 DEF Conf!ReloadStarts
    <3>5. UNCHANGED <<row, inst, dbFailures>>
      BY <2>4 DEF Conf!ReloadStarts
    <3> HIDE DEF r
    <3> QED
      BY <3>2, <3>3, <3>4, <3>5
  <2>5. CASE Conf!ReloadReady(p)
    <3>1. rel' = rel /\ row' = row /\ dbFailures' = dbFailures /\ pc[p] = "ready"
      BY <2>5 DEF Conf!ReloadReady
    <3>2. rel[p].cfg \in Conf!Cfg /\ rel[p].back \in Conf!Cfg /\ rel[p].id \in Conf!Ids
      BY <3>1 DEF ConfInv, Instances
    <3> DEFINE n == [cfg |-> rel[p].cfg, launched |-> TRUE]
    <3>3. n \in [cfg : Conf!Cfg \cup {Conf!NoRow}, launched : BOOLEAN]
      BY <3>2
    <3>4. inst' = inst \/ inst' = [inst EXCEPT ![rel[p].id] = n]
      BY <2>5 DEF Conf!ReloadReady
    <3> HIDE DEF n
    <3> QED
      BY <3>1, <3>2, <3>3, <3>4
  <2>6. CASE pc[p] = "recheck" /\ Conf!Checks(p, rel[p].id, rel[p].back, "rewrite", "failed")
    BY <2>6 DEF Conf!Checks, Conf!storeRest, Conf!Leaves
  <2>7. CASE /\ pc[p] = "rewrite"
             /\ Conf!Writes(p, rel[p].id, rel[p].back, FALSE, "failed", "failed")
    BY <2>7 DEF Conf!Writes, Conf!storeRest, Conf!Leaves
  <2> QED
    BY <2>1, <2>2, <2>3, <2>4, <2>5, <2>6, <2>7 DEF Conf!Reload, Conf!SavesBack
<1>3. /\ pc' \in [Conf!Procs -> {"idle", "start", "check", "write", "lock", "load", "ready",
                               "recheck", "rewrite", "undocheck", "undo", "erase", "remove",
                               "uncreate", "ok", "failed", "refused"}]
      /\ holder' \in Conf!Procs \cup {Conf!Nobody}
  BY SMTT(30), <1>1 DEF ReloadStep, Reloading, Conf!TypeOK
<1>4. \A q \in Conf!Procs : pc'[q] \in {"recheck", "rewrite"} => rel'[q].back \in Conf!Cfg
  BY <1>1, <1>2 DEF ReloadStep, Conf!TypeOK
<1>5. /\ nextId' = nextId /\ req' = req /\ editor' = editor /\ requests' = requests
      /\ reloads' = reloads /\ deleted' = deleted
  BY <1>1 DEF ReloadStep
<1> HIDE DEF ReloadStep
<1> QED
  BY <1>1, <1>2, <1>3, <1>4, <1>5 DEF Conf!TypeOK

LEMMA ReloadKeepsPlaces ==
  ASSUME ConfInv, NEW p \in Conf!Procs, Conf!Reload(p)
  PROVE  Mutexes' /\ Requests'
<1>1. ReloadStep(p) /\ Conf!TypeOK /\ Mutexes /\ Requests
  BY ReloadMoves DEF ConfInv
<1>2. Mutexes'
  <2>1. \A q \in Conf!Procs : pc'[q] \in Reloading <=> holder' = q
    BY <1>1 DEF ReloadStep, Mutexes, Reloading
  <2>2. \A h \in Handlers : pc'[h] \notin Waiting <=> editor' = h
    BY <1>1 DEF ReloadStep, Conf!Procs, Mutexes, Reloading, Waiting
  <2> QED
    BY <2>1, <2>2 DEF Mutexes
<1>3. Requests'
  BY <1>1 DEF ReloadStep, Conf!Procs, Requests, Saving, Reloading, Waiting
<1> QED
  BY <1>2, <1>3

\* A Reload gives a row to no server without one, and an instance only from "ready"
LEMMA ReloadKeepsRest ==
  ASSUME ConfInv, NEW p \in Conf!Procs, Conf!Reload(p)
  PROVE  Instances' /\ Deletions'
<1> USE DEF ConfInv, Conf!TypeOK
<1>1. \A i \in Conf!Ids : Stopped(i) => Stopped(i)'
  <2> USE DEF Stopped, Conf!Leaves, Conf!Goto
  <2>1. CASE Conf!ReloadLocks(p)
    BY <2>1 DEF Conf!ReloadLocks, Conf!relRest
  <2>2. CASE Conf!LoadFails(p)
    BY <2>2 DEF Conf!LoadFails, Conf!relRest
  <2>3. CASE Conf!ReloadStops(p)
    BY <2>3 DEF Conf!ReloadStops, Conf!relRest
  <2>4. CASE Conf!ReloadStarts(p)
    BY <2>4 DEF Conf!ReloadStarts, Conf!relRest
  <2>5. CASE Conf!ReloadReady(p)
    BY <2>5 DEF Conf!ReloadReady, Conf!relRest
  <2>6. CASE pc[p] = "recheck" /\ Conf!Checks(p, rel[p].id, rel[p].back, "rewrite", "failed")
    BY <2>6 DEF Conf!Checks, Conf!storeRest
  <2>7. CASE /\ pc[p] = "rewrite"
             /\ Conf!Writes(p, rel[p].id, rel[p].back, FALSE, "failed", "failed")
    BY <2>7 DEF Conf!Writes, Conf!storeRest
  <2> QED
    BY <2>1, <2>2, <2>3, <2>4, <2>5, <2>6, <2>7 DEF Conf!Reload, Conf!SavesBack
<1>2. \A i \in Conf!Ids : row[i] = Conf!NoRow => row'[i] = Conf!NoRow
  BY DEF Conf!Reload, Conf!SavesBack, Conf!ReloadLocks, Conf!LoadFails, Conf!ReloadStops,
         Conf!ReloadStarts, Conf!ReloadReady, Conf!Checks, Conf!Writes
<1>3. Deletions'
  <2>1. ReloadStep(p)
    BY ReloadMoves
  <2>2. \A h \in Handlers : req[h].op = "delete" =>
          pc[h] \notin Reloading \cup {"lock"}
    BY DEF Requests, Saving
  <2>3. \A h \in Handlers : req'[h] = req[h] /\ req'[h].id \in Conf!Ids
    BY <2>1 DEF ReloadStep
  <2>4. \A h \in Handlers : req[h].op = "delete" => pc'[h] = pc[h]
    BY <2>1, <2>2 DEF ReloadStep, Conf!Procs
  <2> HIDE DEF Conf!TypeOK
  <2>5. deleted' = deleted /\ nextId' = nextId /\ deleted \subseteq Conf!Ids
    BY <2>1 DEF ReloadStep, Conf!TypeOK
  <2> QED
    BY <1>1, <1>2, <2>3, <2>4, <2>5 DEF Deletions
<1>4. Instances'
  <2> USE DEF Instances, Conf!Leaves, Conf!Goto
  <2>1. CASE Conf!ReloadLocks(p)
    BY <2>1 DEF Conf!ReloadLocks, Conf!relRest
  <2>2. CASE Conf!LoadFails(p)
    BY <2>2 DEF Conf!LoadFails, Conf!relRest
  <2>3. CASE Conf!ReloadStops(p)
    BY <2>3 DEF Conf!ReloadStops, Conf!relRest
  <2>4. CASE Conf!ReloadStarts(p)
    <3>1. row[rel[p].id] \in Conf!Cfg /\ row[rel[p].id].on /\ inst' = inst
      BY <2>4 DEF Conf!ReloadStarts
    <3>2. /\ rel'[p].cfg = row[rel[p].id]
          /\ rel'[p].back = IF inst[rel[p].id] = Conf!NoInst
                            THEN [row[rel[p].id] EXCEPT !.on = FALSE]
                            ELSE inst[rel[p].id].cfg
      BY <2>4 DEF Conf!ReloadStarts
    <3>3. rel'[p].back \in Conf!Cfg
      BY <3>1, <3>2 DEF Conf!Cfg
    <3>4. \A q \in Conf!Procs \ {p} : rel'[q] = rel[q] /\ pc'[q] = pc[q]
      BY <2>4 DEF Conf!ReloadStarts
    <3> HIDE DEF Conf!TypeOK
    <3> QED
      BY <3>1, <3>2, <3>3, <3>4
  <2>5. CASE Conf!ReloadReady(p)
    BY <2>5 DEF Conf!ReloadReady, Conf!relRest
  <2>6. CASE pc[p] = "recheck" /\ Conf!Checks(p, rel[p].id, rel[p].back, "rewrite", "failed")
    BY <2>6 DEF Conf!Checks, Conf!storeRest
  <2>7. CASE /\ pc[p] = "rewrite"
             /\ Conf!Writes(p, rel[p].id, rel[p].back, FALSE, "failed", "failed")
    BY <2>7 DEF Conf!Writes, Conf!storeRest
  <2> QED
    BY <2>1, <2>2, <2>3, <2>4, <2>5, <2>6, <2>7 DEF Conf!Reload, Conf!SavesBack
<1> QED
  BY <1>3, <1>4

-----------------------------------------------------------------------------
Places == {"idle", "start", "check", "write", "lock", "load", "ready", "recheck", "rewrite",
           "undocheck", "undo", "erase", "remove", "uncreate", "ok", "failed", "refused"}
Rows   == Conf!Cfg \cup {Conf!NoRow}
Insts  == [cfg : Rows, launched : BOOLEAN]
Reqs   == [op : {"none", "create", "save", "toggle", "delete"}, id : Conf!Ids,
           new : Rows, prev : Rows]
Rels   == [id : Conf!Ids, cfg : Rows, back : Rows]

LEMMA NothingTypes ==
  /\ Conf!NoRow \in Rows /\ Conf!NoInst \in Insts
  /\ Conf!NoReq \in Reqs /\ Conf!NoRel \in Rels
BY DEF Conf!NoInst, Conf!NoReq, Conf!NoRel, Conf!Ids, Rows, Insts, Reqs, Rels

Typed ==
  /\ row \in [Conf!Ids -> Rows] /\ inst \in [Conf!Ids -> Insts]
  /\ req \in [Handlers -> Reqs] /\ rel \in [Conf!Procs -> Rels]
  /\ nextId \in 1..(MaxIds + 1) /\ editor \in Handlers \cup {Conf!Nobody}
  /\ requests \in 0..MaxRequests /\ reloads \in 0..MaxReloads
  /\ dbFailures \in 0..MaxFaults /\ deleted \subseteq Conf!Ids

LEMMA TypesOf == Conf!TypeOK => Typed
BY DEF Conf!TypeOK, Typed, Rows, Insts, Reqs, Rels

\* The types after a step of process q that leaves m.transition alone
LEMMA StepTypes ==
  ASSUME Conf!TypeOK, Typed', NEW q \in Conf!Procs,
         NEW l \in Places \ {"recheck", "rewrite"}, Conf!Goto(q, l),
         \A p \in Conf!Procs \ {q} : rel'[p] = rel[p], holder' = holder
  PROVE  Conf!TypeOK'
<1>1. pc \in [Conf!Procs -> Places] /\ holder \in Conf!Procs \cup {Conf!Nobody}
  BY DEF Conf!TypeOK, Places
<1>2. pc' \in [Conf!Procs -> Places]
  BY <1>1 DEF Conf!Goto
<1>3. \A p \in Conf!Procs : pc'[p] \in {"recheck", "rewrite"} => rel'[p].back \in Conf!Cfg
  BY <1>1 DEF Conf!Goto, Conf!TypeOK
<1> QED
  BY <1>1, <1>2, <1>3 DEF Conf!TypeOK, Typed, Places, Rows, Insts, Reqs, Rels

LEMMA BackgroundReloadKeeps ==
  ASSUME ConfInv, NEW b \in Background, Conf!BackgroundReload(b)
  PROVE  ConfInv'
<1> USE DEF Conf!BackgroundReload, Conf!countVars
<1>1. b \in Conf!Procs /\ Conf!TypeOK /\ Mutexes /\ Requests /\ Instances /\ Deletions
  BY DEF Conf!Procs, ConfInv
<1>2. Typed
  BY <1>1, TypesOf
<1> USE DEF Typed
<1>3. \E l \in {"lock", "idle"} : Conf!Goto(b, l)
  OBVIOUS
<1>4. holder' = holder
  BY <1>1 DEF Conf!Goto, Mutexes, Reloading
<1>5. Conf!TypeOK'
  <2>1. row' \in [Conf!Ids -> Rows] /\ inst' \in [Conf!Ids -> Insts]
    BY <1>1, <1>2, NothingTypes DEF Reqs
  <2>2. /\ req' \in [Handlers -> Reqs] /\ rel' \in [Conf!Procs -> Rels]
        /\ \A p \in Conf!Procs \ {b} : rel'[p] = rel[p]
    BY <1>1, <1>2, NothingTypes DEF Reqs, Rels, Rows
  <2>3. /\ nextId' \in 1..(MaxIds + 1) /\ editor' \in Handlers \cup {Conf!Nobody}
        /\ requests' \in 0..MaxRequests /\ reloads' \in 0..MaxReloads
        /\ dbFailures' \in 0..MaxFaults /\ deleted' \subseteq Conf!Ids
    BY <1>1, <1>2 DEF Reqs
  <2> QED
    BY <1>1, <1>3, <1>4, <2>1, <2>2, <2>3, StepTypes DEF Places
<1>6. Mutexes'
  BY <1>1 DEF Conf!TypeOK, Conf!Goto, Conf!Procs, Mutexes, Reloading, Waiting
<1>7. Requests'
  BY <1>1 DEF Conf!TypeOK, Conf!Goto, Conf!Procs, Requests, Saving, Reloading, Waiting
<1>8. Instances'
  BY <1>1 DEF Conf!TypeOK, Conf!Goto, Instances
<1> HIDE DEF Typed
<1>9. Deletions'
  <2>1. /\ \A p \in Conf!Procs \ {b} : pc'[p] = pc[p] /\ rel'[p] = rel[p]
        /\ pc'[b] \in {"lock", "idle"} /\ UNCHANGED <<row, inst, req, nextId, deleted>>
    BY <1>1 DEF Conf!TypeOK, Conf!Goto
  <2>2. \A g \in Handlers : pc'[g] = pc[g]
    BY <2>1 DEF Conf!Procs
  <2> HIDE DEF Conf!BackgroundReload
  <2>3. \A i : Stopped(i) => Stopped(i)'
    BY <2>1 DEF Stopped
  <2> QED
    BY <1>1, <2>1, <2>2, <2>3 DEF Deletions
<1> QED
  BY <1>5, <1>6, <1>7, <1>8, <1>9 DEF ConfInv

\* What a request asks for when it arrives
LEMMA ArrivesRequest ==
  ASSUME NEW h \in Handlers, Conf!RequestArrives(h)
  PROVE  \E r \in Reqs : /\ req' = [req EXCEPT ![h] = r]
                         /\ r.op # "create" => r.id < nextId
                         /\ r.op \in {"create", "save"} => r.new # Conf!NoRow
                         /\ r.op # "none" /\ r.prev = Conf!NoRow
<1> DEFINE In(r) == /\ r.op # "create" => r.id < nextId
                    /\ r.op \in {"create", "save"} => r.new # Conf!NoRow
                    /\ r.op # "none" /\ r.prev = Conf!NoRow
<1>1. (\A c \in Conf!Cfg : c # Conf!NoRow) /\ Conf!NoReq \in Reqs /\ Conf!NoReq.prev = Conf!NoRow
  BY NothingTypes DEF Conf!Cfg, Conf!NoRow, Conf!NoReq
<1>2. ASSUME NEW c \in Conf!Cfg,
             req' = [req EXCEPT ![h] = [Conf!NoReq EXCEPT !.op = "create", !.new = c]]
      PROVE  \E r \in Reqs : In(r) /\ req' = [req EXCEPT ![h] = r]
  <2> DEFINE r == [Conf!NoReq EXCEPT !.op = "create", !.new = c]
  <2>1. r \in Reqs /\ r.op = "create" /\ r.new = c /\ r.prev = Conf!NoRow
    BY <1>1 DEF Reqs, Rows
  <2>2. req' = [req EXCEPT ![h] = r]
    BY <1>2
  <2> HIDE DEF r
  <2> QED
    BY <1>1, <2>1, <2>2
<1>3. ASSUME NEW c \in Conf!Cfg, NEW i \in Conf!Ids, i < nextId,
             req' = [req EXCEPT ![h] = [Conf!NoReq EXCEPT !.op = "save", !.id = i, !.new = c]]
      PROVE  \E r \in Reqs : In(r) /\ req' = [req EXCEPT ![h] = r]
  <2> DEFINE r == [Conf!NoReq EXCEPT !.op = "save", !.id = i, !.new = c]
  <2>1. r \in Reqs /\ r.op = "save" /\ r.id = i /\ r.new = c /\ r.prev = Conf!NoRow
    BY <1>1 DEF Reqs, Rows
  <2>2. req' = [req EXCEPT ![h] = r] /\ i < nextId
    BY <1>3
  <2> HIDE DEF r
  <2> QED
    BY <1>1, <2>1, <2>2
<1>4. ASSUME NEW o \in {"toggle", "delete"}, NEW i \in Conf!Ids, i < nextId,
             req' = [req EXCEPT ![h] = [Conf!NoReq EXCEPT !.op = o, !.id = i]]
      PROVE  \E r \in Reqs : In(r) /\ req' = [req EXCEPT ![h] = r]
  <2> DEFINE r == [Conf!NoReq EXCEPT !.op = o, !.id = i]
  <2>1. r \in Reqs /\ r.id = i /\ r.op = o /\ r.prev = Conf!NoRow
    BY <1>1 DEF Reqs, Rows
  <2>2. req' = [req EXCEPT ![h] = r] /\ i < nextId
    BY <1>4
  <2> HIDE DEF r
  <2> QED
    BY <1>1, <2>1, <2>2
<1>5. \E r \in Reqs : In(r) /\ req' = [req EXCEPT ![h] = r]
  <2> HIDE DEF In
  <2> QED
    BY <1>2, <1>3, <1>4 DEF Conf!RequestArrives
<1> QED
  BY <1>5

LEMMA RequestArrivesKeeps ==
  ASSUME ConfInv, NEW h \in Handlers, Conf!RequestArrives(h)
  PROVE  ConfInv'
<1> USE DEF Conf!RequestArrives, Conf!webRest
<1>1. h \in Conf!Procs /\ Conf!TypeOK /\ Mutexes /\ Requests /\ Instances /\ Deletions
  BY DEF Conf!Procs, ConfInv
<1>2. Typed
  BY <1>1, TypesOf
<1> USE DEF Typed
<1>3. \E l \in {"start"} : Conf!Goto(h, l)
  OBVIOUS
<1>4. holder' = holder
  BY <1>1 DEF Conf!Goto, Mutexes, Reloading
<1>5. PICK r \in Reqs : /\ req' = [req EXCEPT ![h] = r]
                        /\ r.op # "create" => r.id < nextId
  <2> HIDE DEF Conf!RequestArrives
  <2> QED
    BY ArrivesRequest
<1>6. /\ pc[h] = "idle" /\ Conf!Goto(h, "start")
      /\ requests < MaxRequests /\ requests' = requests + 1
      /\ UNCHANGED <<row, inst, rel, reloads, deleted, nextId, editor, dbFailures>>
  OBVIOUS
<1> USE DEF Conf!Goto
<1> HIDE DEF Conf!RequestArrives
<1>7. Conf!TypeOK'
  <2>1. row' \in [Conf!Ids -> Rows] /\ inst' \in [Conf!Ids -> Insts]
    BY <1>2, <1>6
  <2>2. /\ req' \in [Handlers -> Reqs] /\ rel' \in [Conf!Procs -> Rels]
        /\ \A p \in Conf!Procs \ {h} : rel'[p] = rel[p]
    BY <1>2, <1>5, <1>6
  <2>3. /\ nextId' \in 1..(MaxIds + 1) /\ editor' \in Handlers \cup {Conf!Nobody}
        /\ requests' \in 0..MaxRequests /\ reloads' \in 0..MaxReloads
        /\ dbFailures' \in 0..MaxFaults /\ deleted' \subseteq Conf!Ids
    BY <1>2, <1>6
  <2> QED
    BY <1>1, <1>3, <1>4, <2>1, <2>2, <2>3, StepTypes DEF Places
<1>8. Mutexes'
  <2>1. (\A p \in Conf!Procs \ {h} : pc'[p] = pc[p]) /\ pc'[h] = "start"
    BY <1>1, <1>6 DEF Conf!TypeOK
  <2> QED
    BY <1>1, <1>4, <1>6, <2>1 DEF Conf!Procs, Mutexes, Reloading, Waiting
<1>9. Requests'
  BY <1>1, <1>2, <1>5, <1>6 DEF Conf!TypeOK, Conf!Goto, Conf!Procs, Requests, Saving,
     Reloading, Waiting
<1>10. Instances'
  BY <1>1, <1>2, <1>5, <1>6 DEF Conf!TypeOK, Conf!Goto, Instances
<1>11. Deletions'
  BY <1>1, <1>2, <1>5, <1>6 DEF Conf!TypeOK, Conf!Goto, Conf!Procs, Deletions, Stopped,
     Mutexes, Requests, Reloading, Waiting
<1> QED
  BY <1>7, <1>8, <1>9, <1>10, <1>11 DEF ConfInv

LEMMA EditsKeeps ==
  ASSUME ConfInv, NEW h \in Handlers, Conf!Edits(h)
  PROVE  ConfInv'
<1> USE DEF Conf!Edits, Conf!Fault, Conf!webRest
<1>1. h \in Conf!Procs /\ Conf!TypeOK /\ Mutexes /\ Requests /\ Instances /\ Deletions
  BY DEF Conf!Procs, ConfInv
<1>2. Typed
  BY <1>1, TypesOf
<1> USE DEF Typed
<1>3. \E l \in {"erase", "check", "refused"} : Conf!Goto(h, l)
  OBVIOUS
<1>4. holder' = holder
  BY <1>1 DEF Conf!Goto, Mutexes, Reloading
<1>5. /\ \A g \in Handlers : req'[g].op = req[g].op
      /\ \A g \in Handlers \ {h} : req'[g] = req[g]
      /\ req'[h].id = req[h].id
  BY <1>1, <1>2 DEF Reqs
<1>6. Conf!TypeOK'
  <2>1. row' \in [Conf!Ids -> Rows] /\ inst' \in [Conf!Ids -> Insts]
    BY <1>1, <1>2, NothingTypes DEF Reqs
  <2>2. /\ req' \in [Handlers -> Reqs] /\ rel' \in [Conf!Procs -> Rels]
        /\ \A p \in Conf!Procs \ {h} : rel'[p] = rel[p]
    BY <1>1, <1>2, NothingTypes DEF Reqs, Rels, Rows
  <2>3. /\ nextId' \in 1..(MaxIds + 1) /\ editor' \in Handlers \cup {Conf!Nobody}
        /\ requests' \in 0..MaxRequests /\ reloads' \in 0..MaxReloads
        /\ dbFailures' \in 0..MaxFaults /\ deleted' \subseteq Conf!Ids
    BY <1>1, <1>2 DEF Reqs
  <2> QED
    BY <1>1, <1>3, <1>4, <2>1, <2>2, <2>3, StepTypes DEF Places
<1>7. Mutexes'
  BY <1>1 DEF Conf!TypeOK, Conf!Goto, Conf!Procs, Mutexes, Reloading, Waiting
<1>8. Requests'
  BY SMTT(30), <1>1 DEF Conf!TypeOK, Conf!Goto, Conf!Procs, Requests, Saving, Reloading, Waiting
<1>9. Instances'
  BY <1>1 DEF Conf!TypeOK, Conf!Goto, Instances
<1>10. Deletions'
  <2>1. /\ \A i \in Conf!Ids : Stopped(i) => Stopped(i)'
        /\ deleted' = deleted /\ nextId' = nextId /\ row' = row
    BY <1>1 DEF Conf!TypeOK, Conf!Goto, Stopped
  <2>0. PICK l \in {"erase", "check", "refused"} : pc' = [pc EXCEPT ![h] = l]
    BY <1>3 DEF Conf!Goto
  <2>2. \A g \in Handlers \ {h} : pc'[g] = pc[g]
    BY <2>0, <1>1 DEF Conf!TypeOK, Conf!Procs
  <2>3. pc'[h] \in {"erase", "check", "refused"}
    BY <2>0, <1>1 DEF Conf!TypeOK
  <2>4. \A g \in Handlers : req[g].id \in Conf!Ids
    BY <1>2 DEF Reqs
  <2> HIDE DEF Conf!Edits
  <2> QED
    BY <1>1, <1>2, <1>5, <2>1, <2>2, <2>3, <2>4 DEF Deletions
<1> QED
  BY <1>6, <1>7, <1>8, <1>9, <1>10 DEF ConfInv

LEMMA CreatesKeeps ==
  ASSUME ConfInv, NEW h \in Handlers, Conf!Creates(h)
  PROVE  ConfInv'
<1> USE DEF Conf!Creates, Conf!webRest
<1>1. h \in Conf!Procs /\ Conf!TypeOK /\ Mutexes /\ Requests /\ Instances /\ Deletions
  BY DEF Conf!Procs, ConfInv
<1>2. Typed
  BY <1>1, TypesOf
<1> USE DEF Typed
<1>3. \E l \in {"check"} : Conf!Goto(h, l)
  OBVIOUS
<1>4. holder' = holder
  BY <1>1 DEF Conf!Goto, Mutexes, Reloading
<1>5. /\ \A g \in Handlers : req'[g].op = req[g].op
      /\ \A g \in Handlers \ {h} : req'[g] = req[g]
      /\ req'[h] = [req[h] EXCEPT !.id = nextId] /\ req'[h].id = nextId
      /\ req' = [g \in Handlers |-> req'[g]]
  BY <1>1, <1>2 DEF Reqs
<1>6. /\ nextId \in Conf!Ids /\ nextId' = nextId + 1 /\ editor = Conf!Nobody /\ editor' = h
      /\ Conf!Goto(h, "check") /\ pc[h] = "start" /\ req[h].op = "create"
      /\ UNCHANGED <<row, inst, rel, deleted>>
  BY <1>2 DEF Conf!Ids
<1>7. Conf!TypeOK'
  <2>1. row' \in [Conf!Ids -> Rows] /\ inst' \in [Conf!Ids -> Insts]
    BY <1>1, <1>2, NothingTypes DEF Reqs
  <2>2. /\ req' \in [Handlers -> Reqs] /\ rel' \in [Conf!Procs -> Rels]
        /\ \A p \in Conf!Procs \ {h} : rel'[p] = rel[p]
    BY <1>2, <1>5, <1>6 DEF Reqs
  <2>3. /\ nextId' \in 1..(MaxIds + 1) /\ editor' \in Handlers \cup {Conf!Nobody}
        /\ requests' \in 0..MaxRequests /\ reloads' \in 0..MaxReloads
        /\ dbFailures' \in 0..MaxFaults /\ deleted' \subseteq Conf!Ids
    BY <1>1, <1>2 DEF Reqs
  <2> QED
    BY <1>1, <1>3, <1>4, <2>1, <2>2, <2>3, StepTypes DEF Places
<1>8. Mutexes'
  BY <1>1 DEF Conf!TypeOK, Conf!Goto, Conf!Procs, Mutexes, Reloading, Waiting
<1> HIDE DEF Conf!Creates
<1> USE DEF Conf!Goto
<1>9. Requests'
  <2>1. \A g \in Handlers \ {h} : pc[g] \in Waiting /\ pc'[g] = pc[g] /\ req'[g] = req[g]
    BY <1>1, <1>5, <1>6 DEF Mutexes, Waiting, Conf!TypeOK, Conf!Procs
  <2>2. pc'[h] = "check" /\ req'[h].id \notin deleted
    BY <1>1, <1>2, <1>5, <1>6 DEF Conf!TypeOK, Deletions, Conf!Ids
  <2>3. (\A g \in Handlers : req[g].id \in Int) /\ nextId \in Int
    BY <1>2 DEF Reqs, Conf!Ids
  <2>4. /\ req'[h].op = "create" /\ req'[h].id = nextId
        /\ nextId' = nextId + 1 /\ deleted' = deleted
    BY <1>5, <1>6
  <2> QED
    BY <1>1, <2>1, <2>2, <2>3, <2>4 DEF Requests, Saving, Reloading, Waiting
<1>10. Instances'
  BY <1>1, <1>6 DEF Conf!TypeOK, Instances
<1>11. Deletions'
  <2>1. \A i \in Conf!Ids : Stopped(i) => Stopped(i)'
    BY <1>1, <1>6 DEF Conf!TypeOK, Stopped
  <2>2. (\A g \in Handlers \ {h} : pc'[g] = pc[g]) /\ pc'[h] = "check"
    BY <1>1, <1>6 DEF Conf!TypeOK
  <2>3. \A g \in Handlers : req[g].id \in Conf!Ids
    BY <1>2 DEF Reqs
  <2>4. \A i \in deleted : i < nextId' /\ Stopped(i)'
    BY <1>1, <1>2, <1>6, <2>1 DEF Deletions, Conf!Ids
  <2> QED
    BY <1>1, <1>5, <1>6, <2>1, <2>2, <2>3, <2>4 DEF Deletions
<1> QED
  BY <1>7, <1>8, <1>9, <1>10, <1>11 DEF ConfInv

LEMMA ChecksKeeps ==
  ASSUME ConfInv, NEW h \in Handlers, pc[h] = "check",
         Conf!Checks(h, req[h].id, req[h].new, "write", "refused")
  PROVE  ConfInv'
<1> USE DEF Conf!Checks, Conf!Leaves, Conf!Fault, Conf!storeRest
<1>1. h \in Conf!Procs /\ Conf!TypeOK /\ Mutexes /\ Requests /\ Instances /\ Deletions
  BY DEF Conf!Procs, ConfInv
<1>2. Typed
  BY <1>1, TypesOf
<1> USE DEF Typed
<1>3. \E l \in {"write", "refused"} : Conf!Goto(h, l)
  OBVIOUS
<1>4. holder' = holder
  BY <1>1 DEF Conf!Goto, Mutexes, Reloading
<1>5. Conf!TypeOK'
  <2>1. row' \in [Conf!Ids -> Rows] /\ inst' \in [Conf!Ids -> Insts]
    BY <1>1, <1>2, NothingTypes DEF Reqs
  <2>2. /\ req' \in [Handlers -> Reqs] /\ rel' \in [Conf!Procs -> Rels]
        /\ \A p \in Conf!Procs \ {h} : rel'[p] = rel[p]
    BY <1>1, <1>2, NothingTypes DEF Reqs, Rels, Rows
  <2>3. /\ nextId' \in 1..(MaxIds + 1) /\ editor' \in Handlers \cup {Conf!Nobody}
        /\ requests' \in 0..MaxRequests /\ reloads' \in 0..MaxReloads
        /\ dbFailures' \in 0..MaxFaults /\ deleted' \subseteq Conf!Ids
    BY <1>1, <1>2 DEF Reqs
  <2> QED
    BY <1>1, <1>3, <1>4, <2>1, <2>2, <2>3, StepTypes DEF Places
<1>6. Mutexes'
  BY <1>1 DEF Conf!TypeOK, Conf!Goto, Conf!Procs, Mutexes, Reloading, Waiting
<1> HIDE DEF Typed
<1>7. Requests'
  <2>1. (\A g \in Handlers \ {h} : pc'[g] = pc[g]) /\ pc'[h] \in {"write", "refused"}
    BY <1>1 DEF Conf!TypeOK, Conf!Goto, Conf!Procs
  <2>2. UNCHANGED <<req, nextId, deleted>>
    OBVIOUS
  <2> HIDE DEF Conf!Checks
  <2> QED
    BY <1>1, <2>1, <2>2 DEF Requests, Saving, Reloading, Waiting
<1>8. Instances'
  BY <1>1 DEF Conf!TypeOK, Conf!Goto, Instances
<1>9. Deletions'
  BY <1>1 DEF Conf!TypeOK, Conf!Goto, Conf!Procs, Deletions, Stopped, Mutexes, Requests,
     Reloading, Waiting
<1> QED
  BY <1>5, <1>6, <1>7, <1>8, <1>9 DEF ConfInv

LEMMA StoresKeeps ==
  ASSUME ConfInv, NEW h \in Handlers, pc[h] = "write", Conf!Stores(h)
  PROVE  ConfInv'
<1> USE DEF Conf!Stores, Conf!Fault
<1>1. h \in Conf!Procs /\ Conf!TypeOK /\ Mutexes /\ Requests /\ Instances /\ Deletions
  BY DEF Conf!Procs, ConfInv
<1>2. Typed
  BY <1>1, TypesOf
<1> USE DEF Typed
<1>3. \E l \in {"lock", "refused"} : Conf!Goto(h, l)
  OBVIOUS
<1>4. holder' = holder
  BY <1>1 DEF Conf!Goto, Mutexes, Reloading
<1>5. Conf!TypeOK'
  <2>1. row' \in [Conf!Ids -> Rows] /\ inst' \in [Conf!Ids -> Insts]
    BY <1>1, <1>2, NothingTypes DEF Reqs
  <2>2. /\ req' \in [Handlers -> Reqs] /\ rel' \in [Conf!Procs -> Rels]
        /\ \A p \in Conf!Procs \ {h} : rel'[p] = rel[p]
    BY <1>1, <1>2, NothingTypes DEF Reqs, Rels, Rows
  <2>3. /\ nextId' \in 1..(MaxIds + 1) /\ editor' \in Handlers \cup {Conf!Nobody}
        /\ requests' \in 0..MaxRequests /\ reloads' \in 0..MaxReloads
        /\ dbFailures' \in 0..MaxFaults /\ deleted' \subseteq Conf!Ids
    BY <1>1, <1>2 DEF Reqs
  <2> QED
    BY <1>1, <1>3, <1>4, <2>1, <2>2, <2>3, StepTypes DEF Places
<1>6. Mutexes'
  BY <1>1 DEF Conf!TypeOK, Conf!Goto, Conf!Procs, Mutexes, Reloading, Waiting
<1>7. Requests'
  BY <1>1 DEF Conf!TypeOK, Conf!Goto, Conf!Procs, Requests, Saving, Reloading, Waiting
<1>8. Instances'
  BY <1>1 DEF Conf!TypeOK, Conf!Goto, Instances
<1>9. Deletions'
  <2>1. /\ req' = req /\ deleted' = deleted /\ nextId' = nextId /\ inst' = inst
        /\ pc'[h] \in {"lock", "refused"} /\ \A g \in Conf!Procs \ {h} : pc'[g] = pc[g]
    BY <1>1 DEF Conf!TypeOK, Conf!Goto
  <2>2. \A i \in Conf!Ids : Stopped(i) /\ i \in deleted => Stopped(i)'
    <3>1. req[h].op = "create" => req[h].id \notin deleted
      BY <1>1 DEF Requests, Waiting
    <3> QED
      BY <1>1, <2>1, <3>1 DEF Conf!TypeOK, Stopped
  <2>3. \A g \in Handlers \ {h} : pc[g] \in Waiting
    BY <1>1 DEF Mutexes, Waiting
  <2> HIDE DEF Conf!Stores
  <2> QED
    BY <1>1, <1>2, <2>1, <2>2, <2>3 DEF Deletions, Waiting, Conf!Procs
<1> QED
  BY <1>5, <1>6, <1>7, <1>8, <1>9 DEF ConfInv

LEMMA CompensatesKeeps ==
  ASSUME ConfInv, NEW h \in Handlers, Conf!Compensates(h)
  PROVE  ConfInv'
<1> USE DEF Conf!Compensates, Conf!webRest
<1>1. h \in Conf!Procs /\ Conf!TypeOK /\ Mutexes /\ Requests /\ Instances /\ Deletions
  BY DEF Conf!Procs, ConfInv
<1>2. Typed
  BY <1>1, TypesOf
<1> USE DEF Typed
<1>3. \E l \in {"remove", "undocheck"} : Conf!Goto(h, l)
  OBVIOUS
<1>4. holder' = holder
  BY <1>1 DEF Conf!Goto, Mutexes, Reloading
<1>5. Conf!TypeOK'
  <2>1. row' \in [Conf!Ids -> Rows] /\ inst' \in [Conf!Ids -> Insts]
    BY <1>1, <1>2, NothingTypes DEF Reqs
  <2>2. /\ req' \in [Handlers -> Reqs] /\ rel' \in [Conf!Procs -> Rels]
        /\ \A p \in Conf!Procs \ {h} : rel'[p] = rel[p]
    BY <1>1, <1>2, NothingTypes DEF Reqs, Rels, Rows
  <2>3. /\ nextId' \in 1..(MaxIds + 1) /\ editor' \in Handlers \cup {Conf!Nobody}
        /\ requests' \in 0..MaxRequests /\ reloads' \in 0..MaxReloads
        /\ dbFailures' \in 0..MaxFaults /\ deleted' \subseteq Conf!Ids
    BY <1>1, <1>2 DEF Reqs
  <2> QED
    BY <1>1, <1>3, <1>4, <2>1, <2>2, <2>3, StepTypes DEF Places
<1>6. Mutexes'
  BY <1>1 DEF Conf!TypeOK, Conf!Goto, Conf!Procs, Mutexes, Reloading, Waiting
<1>7. Requests'
  BY <1>1 DEF Conf!TypeOK, Conf!Goto, Conf!Procs, Requests, Saving, Reloading, Waiting
<1>8. Instances'
  BY <1>1 DEF Conf!TypeOK, Conf!Goto, Instances
<1>9. Deletions'
  BY <1>1 DEF Conf!TypeOK, Conf!Goto, Conf!Procs, Deletions, Stopped, Mutexes, Requests,
     Reloading, Waiting
<1> QED
  BY <1>5, <1>6, <1>7, <1>8, <1>9 DEF ConfInv

LEMMA RechecksKeeps ==
  ASSUME ConfInv, NEW h \in Handlers, pc[h] = "undocheck",
         Conf!Checks(h, req[h].id, req[h].prev, "undo", "refused")
  PROVE  ConfInv'
<1> USE DEF Conf!Checks, Conf!Leaves, Conf!Fault, Conf!storeRest
<1>1. h \in Conf!Procs /\ Conf!TypeOK /\ Mutexes /\ Requests /\ Instances /\ Deletions
  BY DEF Conf!Procs, ConfInv
<1>2. Typed
  BY <1>1, TypesOf
<1> USE DEF Typed
<1>3. \E l \in {"undo", "refused"} : Conf!Goto(h, l)
  OBVIOUS
<1>4. holder' = holder
  BY <1>1 DEF Conf!Goto, Mutexes, Reloading
<1>5. Conf!TypeOK'
  <2>1. row' \in [Conf!Ids -> Rows] /\ inst' \in [Conf!Ids -> Insts]
    BY <1>1, <1>2, NothingTypes DEF Reqs
  <2>2. /\ req' \in [Handlers -> Reqs] /\ rel' \in [Conf!Procs -> Rels]
        /\ \A p \in Conf!Procs \ {h} : rel'[p] = rel[p]
    BY <1>1, <1>2, NothingTypes DEF Reqs, Rels, Rows
  <2>3. /\ nextId' \in 1..(MaxIds + 1) /\ editor' \in Handlers \cup {Conf!Nobody}
        /\ requests' \in 0..MaxRequests /\ reloads' \in 0..MaxReloads
        /\ dbFailures' \in 0..MaxFaults /\ deleted' \subseteq Conf!Ids
    BY <1>1, <1>2 DEF Reqs
  <2> QED
    BY <1>1, <1>3, <1>4, <2>1, <2>2, <2>3, StepTypes DEF Places
<1>6. Mutexes'
  BY <1>1 DEF Conf!TypeOK, Conf!Goto, Conf!Procs, Mutexes, Reloading, Waiting
<1>7. Requests'
  BY <1>1 DEF Conf!TypeOK, Conf!Goto, Conf!Procs, Requests, Saving, Reloading, Waiting
<1>8. Instances'
  BY <1>1 DEF Conf!TypeOK, Conf!Goto, Instances
<1>9. Deletions'
  BY <1>1 DEF Conf!TypeOK, Conf!Goto, Conf!Procs, Deletions, Stopped, Mutexes, Requests,
     Reloading, Waiting
<1> QED
  BY <1>5, <1>6, <1>7, <1>8, <1>9 DEF ConfInv

LEMMA UndoesKeeps ==
  ASSUME ConfInv, NEW h \in Handlers, pc[h] = "undo",
         Conf!Writes(h, req[h].id, req[h].prev, FALSE, "refused", "refused")
  PROVE  ConfInv'
<1> USE DEF Conf!Writes, Conf!Leaves, Conf!Fault, Conf!storeRest
<1>1. h \in Conf!Procs /\ Conf!TypeOK /\ Mutexes /\ Requests /\ Instances /\ Deletions
  BY DEF Conf!Procs, ConfInv
<1>2. Typed
  BY <1>1, TypesOf
<1> USE DEF Typed
<1>3. \E l \in {"refused"} : Conf!Goto(h, l)
  OBVIOUS
<1>4. holder' = holder
  BY <1>1 DEF Conf!Goto, Mutexes, Reloading
<1>5. Conf!TypeOK'
  <2>1. row' \in [Conf!Ids -> Rows] /\ inst' \in [Conf!Ids -> Insts]
    BY <1>1, <1>2, NothingTypes DEF Reqs
  <2>2. /\ req' \in [Handlers -> Reqs] /\ rel' \in [Conf!Procs -> Rels]
        /\ \A p \in Conf!Procs \ {h} : rel'[p] = rel[p]
    BY <1>1, <1>2, NothingTypes DEF Reqs, Rels, Rows
  <2>3. /\ nextId' \in 1..(MaxIds + 1) /\ editor' \in Handlers \cup {Conf!Nobody}
        /\ requests' \in 0..MaxRequests /\ reloads' \in 0..MaxReloads
        /\ dbFailures' \in 0..MaxFaults /\ deleted' \subseteq Conf!Ids
    BY <1>1, <1>2 DEF Reqs
  <2> QED
    BY <1>1, <1>3, <1>4, <2>1, <2>2, <2>3, StepTypes DEF Places
<1>6. Mutexes'
  BY <1>1 DEF Conf!TypeOK, Conf!Goto, Conf!Procs, Mutexes, Reloading, Waiting
<1>7. Requests'
  BY SMTT(30), <1>1 DEF Conf!TypeOK, Conf!Goto, Conf!Procs, Requests, Saving, Reloading, Waiting
<1>8. Instances'
  BY <1>1 DEF Conf!TypeOK, Conf!Goto, Instances
<1>9. Deletions'
  BY <1>1 DEF Conf!TypeOK, Conf!Goto, Conf!Procs, Deletions, Stopped, Mutexes, Requests,
     Reloading, Waiting
<1> QED
  BY <1>5, <1>6, <1>7, <1>8, <1>9 DEF ConfInv

LEMMA UncreatesKeeps ==
  ASSUME ConfInv, NEW h \in Handlers, pc[h] = "uncreate",
         Conf!Deletes(h, req[h].id, "refused", "refused")
  PROVE  ConfInv'
<1> USE DEF Conf!Deletes, Conf!Fault, Conf!storeRest
<1>1. h \in Conf!Procs /\ Conf!TypeOK /\ Mutexes /\ Requests /\ Instances /\ Deletions
  BY DEF Conf!Procs, ConfInv
<1>2. Typed
  BY <1>1, TypesOf
<1> USE DEF Typed
<1>3. \E l \in {"refused"} : Conf!Goto(h, l)
  OBVIOUS
<1>4. holder' = holder
  BY <1>1 DEF Conf!Goto, Mutexes, Reloading
<1>5. Conf!TypeOK'
  <2>1. row' \in [Conf!Ids -> Rows] /\ inst' \in [Conf!Ids -> Insts]
    BY <1>1, <1>2, NothingTypes DEF Reqs
  <2>2. /\ req' \in [Handlers -> Reqs] /\ rel' \in [Conf!Procs -> Rels]
        /\ \A p \in Conf!Procs \ {h} : rel'[p] = rel[p]
    BY <1>1, <1>2, NothingTypes DEF Reqs, Rels, Rows
  <2>3. /\ nextId' \in 1..(MaxIds + 1) /\ editor' \in Handlers \cup {Conf!Nobody}
        /\ requests' \in 0..MaxRequests /\ reloads' \in 0..MaxReloads
        /\ dbFailures' \in 0..MaxFaults /\ deleted' \subseteq Conf!Ids
    BY <1>1, <1>2 DEF Reqs
  <2> QED
    BY <1>1, <1>3, <1>4, <2>1, <2>2, <2>3, StepTypes DEF Places
<1>6. Mutexes'
  BY <1>1 DEF Conf!TypeOK, Conf!Goto, Conf!Procs, Mutexes, Reloading, Waiting
<1>7. Requests'
  BY <1>1 DEF Conf!TypeOK, Conf!Goto, Conf!Procs, Requests, Saving, Reloading, Waiting
<1>8. Instances'
  BY <1>1 DEF Conf!TypeOK, Conf!Goto, Instances
<1>9. Deletions'
  BY <1>1 DEF Conf!TypeOK, Conf!Goto, Conf!Procs, Deletions, Stopped, Mutexes, Requests,
     Reloading, Waiting
<1> QED
  BY <1>5, <1>6, <1>7, <1>8, <1>9 DEF ConfInv

LEMMA ErasesKeeps ==
  ASSUME ConfInv, NEW h \in Handlers, Conf!Erases(h)
  PROVE  ConfInv'
<1> USE DEF Conf!Erases, Conf!Deletes, Conf!Fault, Conf!storeRest
<1>1. h \in Conf!Procs /\ Conf!TypeOK /\ Mutexes /\ Requests /\ Instances /\ Deletions
  BY DEF Conf!Procs, ConfInv
<1>2. Typed
  BY <1>1, TypesOf
<1> USE DEF Typed
<1>3. \E l \in {"remove", "refused"} : Conf!Goto(h, l)
  OBVIOUS
<1>4. holder' = holder
  BY <1>1 DEF Conf!Goto, Mutexes, Reloading
<1>5. Conf!TypeOK'
  <2>1. row' \in [Conf!Ids -> Rows] /\ inst' \in [Conf!Ids -> Insts]
    BY <1>1, <1>2, NothingTypes DEF Reqs
  <2>2. /\ req' \in [Handlers -> Reqs] /\ rel' \in [Conf!Procs -> Rels]
        /\ \A p \in Conf!Procs \ {h} : rel'[p] = rel[p]
    BY <1>1, <1>2, NothingTypes DEF Reqs, Rels, Rows
  <2>3. /\ nextId' \in 1..(MaxIds + 1) /\ editor' \in Handlers \cup {Conf!Nobody}
        /\ requests' \in 0..MaxRequests /\ reloads' \in 0..MaxReloads
        /\ dbFailures' \in 0..MaxFaults /\ deleted' \subseteq Conf!Ids
    BY <1>1, <1>2 DEF Reqs
  <2> QED
    BY <1>1, <1>3, <1>4, <2>1, <2>2, <2>3, StepTypes DEF Places
<1>6. Mutexes'
  BY <1>1 DEF Conf!TypeOK, Conf!Goto, Conf!Procs, Mutexes, Reloading, Waiting
<1>7. Requests'
  BY <1>1 DEF Conf!TypeOK, Conf!Goto, Conf!Procs, Requests, Saving, Reloading, Waiting
<1>8. Instances'
  BY <1>1 DEF Conf!TypeOK, Conf!Goto, Instances
<1>9. Deletions'
  BY <1>1 DEF Conf!TypeOK, Conf!Goto, Conf!Procs, Deletions, Stopped, Mutexes, Requests,
     Reloading, Waiting
<1> QED
  BY <1>5, <1>6, <1>7, <1>8, <1>9 DEF ConfInv

LEMMA RemovesKeeps ==
  ASSUME ConfInv, NEW h \in Handlers, Conf!Removes(h)
  PROVE  ConfInv'
<1> USE DEF Conf!Removes
<1>1. h \in Conf!Procs /\ Conf!TypeOK /\ Mutexes /\ Requests /\ Instances /\ Deletions
  BY DEF Conf!Procs, ConfInv
<1>2. Typed
  BY <1>1, TypesOf
<1> USE DEF Typed
<1>3. \E l \in {"ok", "uncreate"} : Conf!Goto(h, l)
  OBVIOUS
<1>4. holder' = holder
  BY <1>1 DEF Conf!Goto, Mutexes, Reloading
<1>5. Conf!TypeOK'
  <2>1. row' \in [Conf!Ids -> Rows] /\ inst' \in [Conf!Ids -> Insts]
    BY <1>1, <1>2, NothingTypes DEF Reqs
  <2>2. /\ req' \in [Handlers -> Reqs] /\ rel' \in [Conf!Procs -> Rels]
        /\ \A p \in Conf!Procs \ {h} : rel'[p] = rel[p]
    BY <1>1, <1>2, NothingTypes DEF Reqs, Rels, Rows
  <2>3. /\ nextId' \in 1..(MaxIds + 1) /\ editor' \in Handlers \cup {Conf!Nobody}
        /\ requests' \in 0..MaxRequests /\ reloads' \in 0..MaxReloads
        /\ dbFailures' \in 0..MaxFaults /\ deleted' \subseteq Conf!Ids
    BY <1>1, <1>2 DEF Reqs
  <2> QED
    BY <1>1, <1>3, <1>4, <2>1, <2>2, <2>3, StepTypes DEF Places
<1>6. Mutexes'
  BY <1>1 DEF Conf!TypeOK, Conf!Goto, Conf!Procs, Mutexes, Reloading, Waiting
<1>7. Requests'
  BY <1>1 DEF Conf!TypeOK, Conf!Goto, Conf!Procs, Requests, Saving, Reloading, Waiting
<1>8. Instances'
  BY <1>1 DEF Conf!TypeOK, Conf!Goto, Instances
<1>9. Deletions'
  BY <1>1 DEF Conf!TypeOK, Conf!Goto, Conf!Procs, Deletions, Stopped, Mutexes, Requests,
     Reloading, Waiting
<1> QED
  BY <1>5, <1>6, <1>7, <1>8, <1>9 DEF ConfInv

LEMMA AnswersKeeps ==
  ASSUME ConfInv, NEW h \in Handlers, Conf!Answers(h)
  PROVE  ConfInv'
<1> USE DEF Conf!Answers, Conf!countVars
<1>1. h \in Conf!Procs /\ Conf!TypeOK /\ Mutexes /\ Requests /\ Instances /\ Deletions
  BY DEF Conf!Procs, ConfInv
<1>2. Typed
  BY <1>1, TypesOf
<1> USE DEF Typed
<1>3. \E l \in {"idle"} : Conf!Goto(h, l)
  OBVIOUS
<1>4. holder' = holder
  BY <1>1 DEF Conf!Goto, Mutexes, Reloading
<1>5. Conf!TypeOK'
  <2>1. row' \in [Conf!Ids -> Rows] /\ inst' \in [Conf!Ids -> Insts]
    BY <1>1, <1>2, NothingTypes DEF Reqs
  <2>2. /\ req' \in [Handlers -> Reqs] /\ rel' \in [Conf!Procs -> Rels]
        /\ \A p \in Conf!Procs \ {h} : rel'[p] = rel[p]
    BY <1>1, <1>2, NothingTypes DEF Reqs, Rels, Rows
  <2>3. /\ nextId' \in 1..(MaxIds + 1) /\ editor' \in Handlers \cup {Conf!Nobody}
        /\ requests' \in 0..MaxRequests /\ reloads' \in 0..MaxReloads
        /\ dbFailures' \in 0..MaxFaults /\ deleted' \subseteq Conf!Ids
    BY <1>1, <1>2 DEF Reqs
  <2> QED
    BY <1>1, <1>3, <1>4, <2>1, <2>2, <2>3, StepTypes DEF Places
<1>6. Mutexes'
  BY <1>1 DEF Conf!TypeOK, Conf!Goto, Conf!Procs, Mutexes, Reloading, Waiting
<1>7. Requests'
  <2>1. \A g \in Handlers \ {h} : pc[g] \in Waiting /\ pc'[g] = pc[g] /\ req'[g] = req[g]
    BY <1>1 DEF Mutexes, Waiting, Conf!TypeOK, Conf!Goto, Conf!Procs
  <2>2. pc'[h] = "idle" /\ nextId' = nextId
    BY <1>1 DEF Conf!TypeOK, Conf!Goto
  <2> HIDE DEF Conf!Answers
  <2> QED
    BY <1>1, <2>1, <2>2 DEF Requests, Saving, Reloading, Waiting
<1>8. Instances'
  BY <1>1 DEF Conf!TypeOK, Conf!Goto, Instances
<1>9. Deletions'
  BY <1>1 DEF Conf!TypeOK, Conf!Goto, Conf!Procs, Deletions, Stopped, Mutexes, Requests,
     Reloading, Waiting
<1> QED
  BY <1>5, <1>6, <1>7, <1>8, <1>9 DEF ConfInv

-----------------------------------------------------------------------------
\* The one who holds configurationMu is the only one who has something under way
LEMMA EditorOnly ==
  ASSUME ConfInv', Unshared', NEW h \in Handlers, editor' = h,
         Checked(h)', Honest(h)'
  PROVE  AloneInv'
<1>1. \A g \in Handlers \ {h} : pc'[g] \in Waiting
  BY DEF ConfInv, Mutexes
<1>2. \A g \in Handlers \ {h} : Checked(g)'
  BY <1>1 DEF Checked, Waiting, Saving, Reloading
<1>3. \A g \in Handlers \ {h} : Honest(g)'
  BY <1>1 DEF Honest
<1>4. editor' # Conf!Nobody
  BY DEF Conf!Procs
<1> QED
  BY <1>2, <1>3, <1>4 DEF AloneInv

LEMMA NothingRuns == Conf!NoInst.cfg = Conf!NoRow /\ Runs(Conf!NoRow) = Conf!NoRow
BY DEF Conf!NoInst, Conf!NoRow, Runs

\* The types where a handler works, and that it is the one who does
Placed(h) ==
  /\ h \in Conf!Procs /\ editor = h /\ Typed /\ pc \in [Conf!Procs -> Places]
  /\ req[h].id \in Conf!Ids /\ req[h].id < nextId
  /\ pc[h] \in {"recheck", "rewrite"} => rel[h].back # Conf!NoRow

LEMMA EditorTypes ==
  ASSUME ConfInv, NEW h \in Handlers, pc[h] \notin Waiting
  PROVE  Placed(h)
<1>1. Conf!TypeOK /\ Mutexes /\ Requests
  BY DEF ConfInv
<1>2. Typed
  BY <1>1, TypesOf
<1>3. pc \in [Conf!Procs -> Places]
  BY <1>1 DEF Conf!TypeOK, Places
<1>4. h \in Conf!Procs /\ editor = h /\ req[h].id < nextId
  BY <1>1 DEF Conf!Procs, Mutexes, Requests
<1>5. req[h].id \in Conf!Ids
  BY <1>2 DEF Typed, Reqs
<1>6. pc[h] \in {"recheck", "rewrite"} => rel[h].back # Conf!NoRow
  BY <1>1, <1>4 DEF Conf!TypeOK, Conf!Cfg, Conf!NoRow
<1> QED
  BY <1>2, <1>3, <1>4, <1>5, <1>6 DEF Placed

LEMMA LocksAlone ==
  ASSUME ConfInv, ConfInv', AloneInv, NEW h \in Handlers, Conf!ReloadLocks(h)
  PROVE  AloneInv'
<1> DEFINE id == req[h].id
<1>1. /\ pc[h] = "lock" /\ Checked(h) /\ Honest(h) /\ Unshared
      /\ Requests /\ Instances /\ Deletions
  BY DEF ConfInv, AloneInv, Conf!ReloadLocks, Conf!relRest
<1>2. Placed(h)
  BY <1>1, EditorTypes DEF Waiting
<1> USE DEF Placed, Typed, Conf!Goto, Conf!ReloadLocks, Conf!relRest
<1>3. /\ req' = req /\ editor' = editor /\ nextId' = nextId
      /\ pc'[h] \in {"load"} /\ \A p \in Conf!Procs \ {h} : pc'[p] = pc[p]
  BY <1>1, <1>2
<1>4. \A j \in Conf!Ids \ {id} : row'[j] = row[j] /\ inst'[j] = inst[j]
  BY <1>1, <1>2 DEF Checked, Reloading
<1>5. Unshared'
  BY <1>1, <1>2, <1>3, <1>4 DEF Unshared, Conf!Procs, Conf!AddressesUnique, Conf!Conflict,
     Checked, Saving, Reloading
<1>6. Checked(h)'
  BY <1>1, <1>2, <1>3, <1>4 DEF Checked, Conf!Conflict, Saving, Reloading, Requests
<1>7. Honest(h)'
  BY <1>1, <1>2, <1>3, <1>4, NothingRuns DEF Honest, Checked, Clean, Waiting, Saving,
     Reloading, Requests
<1> QED
  BY <1>2, <1>3, <1>5, <1>6, <1>7, EditorOnly

LEMMA LoadFailsAlone ==
  ASSUME ConfInv, ConfInv', AloneInv, NEW h \in Handlers, Conf!LoadFails(h)
  PROVE  AloneInv'
<1> DEFINE id == req[h].id
<1>1. /\ pc[h] = "load" /\ Checked(h) /\ Honest(h) /\ Unshared
      /\ Requests /\ Instances /\ Deletions
  BY DEF ConfInv, AloneInv, Conf!LoadFails, Conf!Leaves, Conf!Fault, Conf!relRest
<1>2. Placed(h)
  BY <1>1, EditorTypes DEF Waiting
<1> USE DEF Placed, Typed, Conf!Goto, Conf!LoadFails, Conf!Leaves, Conf!Fault, Conf!relRest
<1>3. /\ req' = req /\ editor' = editor /\ nextId' = nextId
      /\ pc'[h] \in {"failed"} /\ \A p \in Conf!Procs \ {h} : pc'[p] = pc[p]
  BY <1>1, <1>2
<1>4. \A j \in Conf!Ids \ {id} : row'[j] = row[j] /\ inst'[j] = inst[j]
  BY <1>1, <1>2 DEF Checked, Reloading
<1>5. Unshared'
  BY <1>1, <1>2, <1>3, <1>4 DEF Unshared, Conf!Procs, Conf!AddressesUnique, Conf!Conflict,
     Checked, Saving, Reloading
<1>6. Checked(h)'
  BY <1>1, <1>2, <1>3, <1>4 DEF Checked, Conf!Conflict, Saving, Reloading, Requests
<1>7. Honest(h)'
  BY <1>1, <1>2, <1>3, <1>4, NothingRuns DEF Honest, Checked, Clean, Waiting, Saving,
     Reloading, Requests
<1> QED
  BY <1>2, <1>3, <1>5, <1>6, <1>7, EditorOnly

LEMMA StopsAlone ==
  ASSUME ConfInv, ConfInv', AloneInv, NEW h \in Handlers, Conf!ReloadStops(h)
  PROVE  AloneInv'
<1> DEFINE id == req[h].id
<1>1. /\ pc[h] = "load" /\ Checked(h) /\ Honest(h) /\ Unshared
      /\ Requests /\ Instances /\ Deletions
  BY DEF ConfInv, AloneInv, Conf!ReloadStops, Conf!Leaves, Conf!relRest
<1>2. Placed(h)
  BY <1>1, EditorTypes DEF Waiting
<1> USE DEF Placed, Typed, Conf!Goto, Conf!ReloadStops, Conf!Leaves, Conf!relRest
<1>3. /\ req' = req /\ editor' = editor /\ nextId' = nextId
      /\ pc'[h] \in {"ok"} /\ \A p \in Conf!Procs \ {h} : pc'[p] = pc[p]
  BY <1>1, <1>2
<1>4. \A j \in Conf!Ids \ {id} : row'[j] = row[j] /\ inst'[j] = inst[j]
  BY <1>1, <1>2 DEF Checked, Reloading
<1>5. Unshared'
  BY <1>1, <1>2, <1>3, <1>4 DEF Unshared, Conf!Procs, Conf!AddressesUnique, Conf!Conflict,
     Checked, Saving, Reloading
<1>6. Checked(h)'
  BY <1>1, <1>2, <1>3, <1>4 DEF Checked, Conf!Conflict, Saving, Reloading, Requests
<1>7. Honest(h)'
  BY <1>1, <1>2, <1>3, <1>4, NothingRuns DEF Honest, Checked, Clean, Runs, Waiting, Saving,
     Reloading, Requests
<1> QED
  BY <1>2, <1>3, <1>5, <1>6, <1>7, EditorOnly

LEMMA StartsAlone ==
  ASSUME ConfInv, ConfInv', AloneInv, NEW h \in Handlers, Conf!ReloadStarts(h)
  PROVE  AloneInv'
<1> DEFINE id == req[h].id
<1>1. /\ pc[h] = "load" /\ Checked(h) /\ Honest(h) /\ Unshared
      /\ Requests /\ Instances /\ Deletions
  BY DEF ConfInv, AloneInv, Conf!ReloadStarts, Conf!relRest
<1>2. Placed(h)
  BY <1>1, EditorTypes DEF Waiting
<1> USE DEF Placed, Typed, Conf!Goto, Conf!ReloadStarts, Conf!relRest
<1>3. /\ req' = req /\ editor' = editor /\ nextId' = nextId
      /\ pc'[h] \in {"recheck", "ready"} /\ \A p \in Conf!Procs \ {h} : pc'[p] = pc[p]
  BY <1>1, <1>2
<1>4. \A j \in Conf!Ids \ {id} : row'[j] = row[j] /\ inst'[j] = inst[j]
  BY <1>1, <1>2 DEF Checked, Reloading
<1>5. Unshared'
  BY <1>1, <1>2, <1>3, <1>4 DEF Unshared, Conf!Procs, Conf!AddressesUnique, Conf!Conflict,
     Checked, Saving, Reloading
<1>6. Checked(h)'
  BY <1>1, <1>2, <1>3, <1>4 DEF Checked, Conf!Conflict, Saving, Reloading, Requests
<1>7. Honest(h)'
  BY <1>1, <1>2, <1>3, <1>4, NothingRuns DEF Honest, Checked, Clean, Waiting, Saving,
     Reloading, Requests
<1> QED
  BY <1>2, <1>3, <1>5, <1>6, <1>7, EditorOnly

LEMMA ReadyAlone ==
  ASSUME ConfInv, ConfInv', AloneInv, NEW h \in Handlers, Conf!ReloadReady(h)
  PROVE  AloneInv'
<1> DEFINE id == req[h].id
<1>1. /\ pc[h] = "ready" /\ Checked(h) /\ Honest(h) /\ Unshared
      /\ Requests /\ Instances /\ Deletions
  BY DEF ConfInv, AloneInv, Conf!ReloadReady, Conf!Leaves, Conf!relRest
<1>2. Placed(h)
  BY <1>1, EditorTypes DEF Waiting
<1> USE DEF Placed, Typed, Conf!Goto, Conf!ReloadReady, Conf!Leaves, Conf!relRest
<1>3. /\ req' = req /\ editor' = editor /\ nextId' = nextId
      /\ pc'[h] \in {"ok", "recheck"} /\ \A p \in Conf!Procs \ {h} : pc'[p] = pc[p]
  BY <1>1, <1>2
<1>4. \A j \in Conf!Ids \ {id} : row'[j] = row[j] /\ inst'[j] = inst[j]
  BY <1>1, <1>2 DEF Checked, Reloading
<1>5. Unshared'
  BY <1>1, <1>2, <1>3, <1>4 DEF Unshared, Conf!Procs, Conf!AddressesUnique, Conf!Conflict,
     Checked, Saving, Reloading
<1>6. Checked(h)'
  BY <1>1, <1>2, <1>3, <1>4 DEF Checked, Conf!Conflict, Saving, Reloading, Requests
<1>7. Honest(h)'
  BY <1>1, <1>2, <1>3, <1>4, NothingRuns DEF Honest, Checked, Clean, Runs, Instances,
     Waiting, Saving, Reloading, Requests
<1> QED
  BY <1>2, <1>3, <1>5, <1>6, <1>7, EditorOnly

LEMMA BackChecksAlone ==
  ASSUME ConfInv, ConfInv', AloneInv, NEW h \in Handlers, pc[h] = "recheck",
         Conf!Checks(h, rel[h].id, rel[h].back, "rewrite", "failed")
  PROVE  AloneInv'
<1> DEFINE id == req[h].id
<1>1. /\ pc[h] = "recheck" /\ Checked(h) /\ Honest(h) /\ Unshared
      /\ Requests /\ Instances /\ Deletions
  BY DEF ConfInv, AloneInv, Conf!Checks, Conf!Leaves, Conf!Fault, Conf!storeRest
<1>2. Placed(h)
  BY <1>1, EditorTypes DEF Waiting
<1> USE DEF Placed, Typed, Conf!Goto, Conf!Checks, Conf!Leaves, Conf!Fault, Conf!storeRest
<1>3. /\ req' = req /\ editor' = editor /\ nextId' = nextId
      /\ pc'[h] \in {"rewrite", "failed"} /\ \A p \in Conf!Procs \ {h} : pc'[p] = pc[p]
  BY <1>1, <1>2
<1>4. \A j \in Conf!Ids \ {id} : row'[j] = row[j] /\ inst'[j] = inst[j]
  BY <1>1, <1>2 DEF Checked, Reloading
<1>5. Unshared'
  BY <1>1, <1>2, <1>3, <1>4 DEF Unshared, Conf!Procs, Conf!AddressesUnique, Conf!Conflict,
     Checked, Saving, Reloading
<1>6. Checked(h)'
  BY <1>1, <1>2, <1>3, <1>4 DEF Checked, Conf!Conflict, Saving, Reloading, Requests
<1>7. Honest(h)'
  BY <1>1, <1>2, <1>3, <1>4, NothingRuns DEF Honest, Checked, Clean, Waiting, Saving,
     Reloading, Requests
<1> QED
  BY <1>2, <1>3, <1>5, <1>6, <1>7, EditorOnly

LEMMA BackWritesAlone ==
  ASSUME ConfInv, ConfInv', AloneInv, NEW h \in Handlers, pc[h] = "rewrite",
         Conf!Writes(h, rel[h].id, rel[h].back, FALSE, "failed", "failed")
  PROVE  AloneInv'
<1> DEFINE id == req[h].id
<1>1. /\ pc[h] = "rewrite" /\ Checked(h) /\ Honest(h) /\ Unshared
      /\ Requests /\ Instances /\ Deletions
  BY DEF ConfInv, AloneInv, Conf!Writes, Conf!Leaves, Conf!Fault, Conf!storeRest
<1>2. Placed(h)
  BY <1>1, EditorTypes DEF Waiting
<1> USE DEF Placed, Typed, Conf!Goto, Conf!Writes, Conf!Leaves, Conf!Fault, Conf!storeRest
<1>3. /\ req' = req /\ editor' = editor /\ nextId' = nextId
      /\ pc'[h] \in {"failed"} /\ \A p \in Conf!Procs \ {h} : pc'[p] = pc[p]
  BY <1>1, <1>2
<1>4. \A j \in Conf!Ids \ {id} : row'[j] = row[j] /\ inst'[j] = inst[j]
  BY <1>1, <1>2 DEF Checked, Reloading
<1>5. Unshared'
  BY <1>1, <1>2, <1>3, <1>4 DEF Unshared, Conf!Procs, Conf!AddressesUnique, Conf!Conflict,
     Checked, Saving, Reloading
<1>6. Checked(h)'
  BY <1>1, <1>2, <1>3, <1>4 DEF Checked, Conf!Conflict, Saving, Reloading, Requests
<1>7. Honest(h)'
  BY <1>1, <1>2, <1>3, <1>4, NothingRuns DEF Honest, Checked, Clean, Waiting, Saving,
     Reloading, Requests
<1> QED
  BY <1>2, <1>3, <1>5, <1>6, <1>7, EditorOnly

LEMMA ChecksAlone ==
  ASSUME ConfInv, ConfInv', AloneInv, NEW h \in Handlers, pc[h] = "check",
         Conf!Checks(h, req[h].id, req[h].new, "write", "refused")
  PROVE  AloneInv'
<1> DEFINE id == req[h].id
<1>1. /\ pc[h] = "check" /\ Checked(h) /\ Honest(h) /\ Unshared
      /\ Requests /\ Instances /\ Deletions
  BY DEF ConfInv, AloneInv, Conf!Checks, Conf!Leaves, Conf!Fault, Conf!storeRest
<1>2. Placed(h)
  BY <1>1, EditorTypes DEF Waiting
<1> USE DEF Placed, Typed, Conf!Goto, Conf!Checks, Conf!Leaves, Conf!Fault, Conf!storeRest
<1>3. /\ req' = req /\ editor' = editor /\ nextId' = nextId
      /\ pc'[h] \in {"write", "refused"} /\ \A p \in Conf!Procs \ {h} : pc'[p] = pc[p]
  BY <1>1, <1>2
<1>4. \A j \in Conf!Ids \ {id} : row'[j] = row[j] /\ inst'[j] = inst[j]
  BY <1>1, <1>2 DEF Checked, Reloading
<1>5. Unshared'
  BY <1>1, <1>2, <1>3, <1>4 DEF Unshared, Conf!Procs, Conf!AddressesUnique, Conf!Conflict,
     Checked, Saving, Reloading
<1>6. Checked(h)'
  BY <1>1, <1>2, <1>3, <1>4 DEF Checked, Conf!Conflict, Saving, Reloading, Requests
<1>7. Honest(h)'
  BY <1>1, <1>2, <1>3, <1>4, NothingRuns DEF Honest, Checked, Clean, Waiting, Saving,
     Reloading, Requests
<1> QED
  BY <1>2, <1>3, <1>5, <1>6, <1>7, EditorOnly

LEMMA StoresAlone ==
  ASSUME ConfInv, ConfInv', AloneInv, NEW h \in Handlers, pc[h] = "write", Conf!Stores(h)
  PROVE  AloneInv'
<1> DEFINE id == req[h].id
<1>1. /\ pc[h] = "write" /\ Checked(h) /\ Honest(h) /\ Unshared
      /\ Requests /\ Instances /\ Deletions
  BY DEF ConfInv, AloneInv, Conf!Stores, Conf!Fault
<1>2. Placed(h)
  BY <1>1, EditorTypes DEF Waiting
<1> USE DEF Placed, Typed, Conf!Goto, Conf!Stores, Conf!Fault
<1>3. /\ req' = req /\ editor' = editor /\ nextId' = nextId
      /\ pc'[h] \in {"lock", "refused"} /\ \A p \in Conf!Procs \ {h} : pc'[p] = pc[p]
  BY <1>1, <1>2
<1>4. \A j \in Conf!Ids \ {id} : row'[j] = row[j] /\ inst'[j] = inst[j]
  BY <1>1, <1>2 DEF Checked, Reloading
<1>5. Unshared'
  <2>1. row' = row \/ row' = [row EXCEPT ![id] = req[h].new]
    OBVIOUS
  <2>2. ~Conf!Conflict(id, req[h].new)
    BY <1>1 DEF Checked
  <2>3. Conf!AddressesUnique'
    BY <1>1, <1>2, <2>1, <2>2 DEF Unshared, Conf!AddressesUnique, Conf!Conflict
  <2>4. \A b \in Background : pc'[b] = "idle"
    BY <1>1, <1>3 DEF Unshared, Conf!Procs
  <2>5. \A i \in Conf!Ids : i >= nextId => row'[i] = Conf!NoRow /\ inst'[i] = Conf!NoInst
    BY <1>1, <1>2, <1>4 DEF Unshared, Conf!Ids
  <2> QED
    BY <1>1, <1>2, <1>3, <2>3, <2>4, <2>5 DEF Unshared, Conf!Procs
<1>6. Checked(h)'
  <2>1. req[h].new # Conf!NoRow
    BY <1>1 DEF Unshared
  <2>2. ~Conf!Conflict(id, req[h].prev) => ~Conf!Conflict(id, req[h].prev)'
    BY <1>3, <1>4 DEF Conf!Conflict
  <2>3. pc'[h] = "lock" => row'[id] = req[h].new /\ rel'[h].id = id
    BY <1>1, <1>2 DEF Conf!NoRel
  <2> QED
    BY <1>1, <1>3, <2>1, <2>2, <2>3 DEF Checked, Saving, Reloading
<1>7. Honest(h)'
  BY <1>1, <1>2, <1>3, <1>4, NothingRuns DEF Honest, Checked, Clean, Waiting, Saving,
     Reloading, Requests
<1> QED
  BY <1>2, <1>3, <1>5, <1>6, <1>7, EditorOnly

LEMMA CompensatesAlone ==
  ASSUME ConfInv, ConfInv', AloneInv, NEW h \in Handlers, Conf!Compensates(h)
  PROVE  AloneInv'
<1> DEFINE id == req[h].id
<1>1. /\ pc[h] = "failed" /\ Checked(h) /\ Honest(h) /\ Unshared
      /\ Requests /\ Instances /\ Deletions
  BY DEF ConfInv, AloneInv, Conf!Compensates, Conf!webRest
<1>2. Placed(h)
  BY <1>1, EditorTypes DEF Waiting
<1> USE DEF Placed, Typed, Conf!Goto, Conf!Compensates, Conf!webRest
<1>3. /\ req' = req /\ editor' = editor /\ nextId' = nextId
      /\ pc'[h] \in {"remove", "undocheck"} /\ \A p \in Conf!Procs \ {h} : pc'[p] = pc[p]
  BY <1>1, <1>2
<1>4. \A j \in Conf!Ids \ {id} : row'[j] = row[j] /\ inst'[j] = inst[j]
  BY <1>1, <1>2 DEF Checked, Reloading
<1>5. Unshared'
  BY <1>1, <1>2, <1>3, <1>4 DEF Unshared, Conf!Procs, Conf!AddressesUnique, Conf!Conflict,
     Checked, Saving, Reloading
<1>6. Checked(h)'
  BY <1>1, <1>2, <1>3, <1>4 DEF Checked, Conf!Conflict, Saving, Reloading, Requests
<1>7. Honest(h)'
  BY <1>1, <1>2, <1>3, <1>4, NothingRuns DEF Honest, Checked, Clean, Waiting, Saving,
     Reloading, Requests
<1> QED
  BY <1>2, <1>3, <1>5, <1>6, <1>7, EditorOnly

LEMMA RechecksAlone ==
  ASSUME ConfInv, ConfInv', AloneInv, NEW h \in Handlers, pc[h] = "undocheck",
         Conf!Checks(h, req[h].id, req[h].prev, "undo", "refused")
  PROVE  AloneInv'
<1> DEFINE id == req[h].id
<1>1. /\ pc[h] = "undocheck" /\ Checked(h) /\ Honest(h) /\ Unshared
      /\ Requests /\ Instances /\ Deletions
  BY DEF ConfInv, AloneInv, Conf!Checks, Conf!Leaves, Conf!Fault, Conf!storeRest
<1>2. Placed(h)
  BY <1>1, EditorTypes DEF Waiting
<1> USE DEF Placed, Typed, Conf!Goto, Conf!Checks, Conf!Leaves, Conf!Fault, Conf!storeRest
<1>3. /\ req' = req /\ editor' = editor /\ nextId' = nextId
      /\ pc'[h] \in {"undo", "refused"} /\ \A p \in Conf!Procs \ {h} : pc'[p] = pc[p]
  BY <1>1, <1>2
<1>4. \A j \in Conf!Ids \ {id} : row'[j] = row[j] /\ inst'[j] = inst[j]
  BY <1>1, <1>2 DEF Checked, Reloading
<1>5. Unshared'
  BY <1>1, <1>2, <1>3, <1>4 DEF Unshared, Conf!Procs, Conf!AddressesUnique, Conf!Conflict,
     Checked, Saving, Reloading
<1>6. Checked(h)'
  BY <1>1, <1>2, <1>3, <1>4 DEF Checked, Conf!Conflict, Saving, Reloading, Requests
<1>7. Honest(h)'
  BY <1>1, <1>2, <1>3, <1>4, NothingRuns DEF Honest, Checked, Clean, Waiting, Saving,
     Reloading, Requests
<1> QED
  BY <1>2, <1>3, <1>5, <1>6, <1>7, EditorOnly

LEMMA UndoesAlone ==
  ASSUME ConfInv, ConfInv', AloneInv, NEW h \in Handlers, pc[h] = "undo",
         Conf!Writes(h, req[h].id, req[h].prev, FALSE, "refused", "refused")
  PROVE  AloneInv'
<1> DEFINE id == req[h].id
<1>1. /\ pc[h] = "undo" /\ Checked(h) /\ Honest(h) /\ Unshared
      /\ Requests /\ Instances /\ Deletions
  BY DEF ConfInv, AloneInv, Conf!Writes, Conf!Leaves, Conf!Fault, Conf!storeRest
<1>2. Placed(h)
  BY <1>1, EditorTypes DEF Waiting
<1> USE DEF Placed, Typed, Conf!Goto, Conf!Writes, Conf!Leaves, Conf!Fault, Conf!storeRest
<1>3. /\ req' = req /\ editor' = editor /\ nextId' = nextId
      /\ pc'[h] \in {"refused"} /\ \A p \in Conf!Procs \ {h} : pc'[p] = pc[p]
  BY <1>1, <1>2
<1>4. \A j \in Conf!Ids \ {id} : row'[j] = row[j] /\ inst'[j] = inst[j]
  BY <1>1, <1>2 DEF Checked, Reloading
<1>5. Unshared'
  <2>1. row' = row \/ row' = [row EXCEPT ![id] = req[h].prev]
    OBVIOUS
  <2>2. ~Conf!Conflict(id, req[h].prev)
    BY <1>1 DEF Checked, Saving, Requests
  <2>3. Conf!AddressesUnique'
    BY <1>1, <1>2, <2>1, <2>2 DEF Unshared, Conf!AddressesUnique, Conf!Conflict
  <2>4. \A b \in Background : pc'[b] = "idle"
    BY <1>1, <1>3 DEF Unshared, Conf!Procs
  <2>5. \A i \in Conf!Ids : i >= nextId => row'[i] = Conf!NoRow /\ inst'[i] = Conf!NoInst
    BY <1>1, <1>2, <1>4 DEF Unshared, Conf!Ids
  <2> QED
    BY <1>1, <1>2, <1>3, <2>3, <2>4, <2>5 DEF Unshared, Conf!Procs
<1>6. Checked(h)'
  BY <1>1, <1>2, <1>3, <1>4 DEF Checked, Conf!Conflict, Saving, Reloading, Requests
<1>7. Honest(h)'
  BY <1>1, <1>2, <1>3, <1>4, NothingRuns DEF Honest, Checked, Clean, Waiting, Saving,
     Reloading, Requests
<1> QED
  BY <1>2, <1>3, <1>5, <1>6, <1>7, EditorOnly

LEMMA UncreatesAlone ==
  ASSUME ConfInv, ConfInv', AloneInv, NEW h \in Handlers, pc[h] = "uncreate",
         Conf!Deletes(h, req[h].id, "refused", "refused")
  PROVE  AloneInv'
<1> DEFINE id == req[h].id
<1>1. /\ pc[h] = "uncreate" /\ Checked(h) /\ Honest(h) /\ Unshared
      /\ Requests /\ Instances /\ Deletions
  BY DEF ConfInv, AloneInv, Conf!Deletes, Conf!Fault, Conf!storeRest
<1>2. Placed(h)
  BY <1>1, EditorTypes DEF Waiting
<1> USE DEF Placed, Typed, Conf!Goto, Conf!Deletes, Conf!Fault, Conf!storeRest
<1>3. /\ req' = req /\ editor' = editor /\ nextId' = nextId
      /\ pc'[h] \in {"refused"} /\ \A p \in Conf!Procs \ {h} : pc'[p] = pc[p]
  BY <1>1, <1>2
<1>4. \A j \in Conf!Ids \ {id} : row'[j] = row[j] /\ inst'[j] = inst[j]
  BY <1>1, <1>2 DEF Checked, Reloading
<1>5. Unshared'
  BY <1>1, <1>2, <1>3, <1>4 DEF Unshared, Conf!Procs, Conf!AddressesUnique, Conf!Conflict,
     Checked, Saving, Reloading
<1>6. Checked(h)'
  BY <1>1, <1>2, <1>3, <1>4 DEF Checked, Conf!Conflict, Saving, Reloading, Requests
<1>7. Honest(h)'
  BY <1>1, <1>2, <1>3, <1>4, NothingRuns DEF Honest, Checked, Clean, Waiting, Saving,
     Reloading, Requests
<1> QED
  BY <1>2, <1>3, <1>5, <1>6, <1>7, EditorOnly

LEMMA ErasesAlone ==
  ASSUME ConfInv, ConfInv', AloneInv, NEW h \in Handlers, Conf!Erases(h)
  PROVE  AloneInv'
<1> DEFINE id == req[h].id
<1>1. /\ pc[h] = "erase" /\ Checked(h) /\ Honest(h) /\ Unshared
      /\ Requests /\ Instances /\ Deletions
  BY DEF ConfInv, AloneInv, Conf!Erases, Conf!Deletes, Conf!Fault, Conf!storeRest
<1>2. Placed(h)
  BY <1>1, EditorTypes DEF Waiting
<1> USE DEF Placed, Typed, Conf!Goto, Conf!Erases, Conf!Deletes, Conf!Fault, Conf!storeRest
<1>3. /\ req' = req /\ editor' = editor /\ nextId' = nextId
      /\ pc'[h] \in {"remove", "refused"} /\ \A p \in Conf!Procs \ {h} : pc'[p] = pc[p]
  BY <1>1, <1>2
<1>4. \A j \in Conf!Ids \ {id} : row'[j] = row[j] /\ inst'[j] = inst[j]
  BY <1>1, <1>2 DEF Checked, Reloading
<1>5. Unshared'
  BY <1>1, <1>2, <1>3, <1>4 DEF Unshared, Conf!Procs, Conf!AddressesUnique, Conf!Conflict,
     Checked, Saving, Reloading
<1>6. Checked(h)'
  BY <1>1, <1>2, <1>3, <1>4 DEF Checked, Conf!Conflict, Saving, Reloading, Requests
<1>7. Honest(h)'
  BY <1>1, <1>2, <1>3, <1>4, NothingRuns DEF Honest, Checked, Clean, Waiting, Saving,
     Reloading, Requests
<1> QED
  BY <1>2, <1>3, <1>5, <1>6, <1>7, EditorOnly

LEMMA RemovesAlone ==
  ASSUME ConfInv, ConfInv', AloneInv, NEW h \in Handlers, Conf!Removes(h)
  PROVE  AloneInv'
<1> DEFINE id == req[h].id
<1>1. /\ pc[h] = "remove" /\ Checked(h) /\ Honest(h) /\ Unshared
      /\ Requests /\ Instances /\ Deletions
  BY DEF ConfInv, AloneInv, Conf!Removes
<1>2. Placed(h)
  BY <1>1, EditorTypes DEF Waiting
<1> USE DEF Placed, Typed, Conf!Goto, Conf!Removes
<1>3. /\ req' = req /\ editor' = editor /\ nextId' = nextId
      /\ pc'[h] \in {"ok", "uncreate"} /\ \A p \in Conf!Procs \ {h} : pc'[p] = pc[p]
  BY <1>1, <1>2
<1>4. \A j \in Conf!Ids \ {id} : row'[j] = row[j] /\ inst'[j] = inst[j]
  BY <1>1, <1>2 DEF Checked, Reloading
<1>5. Unshared'
  BY <1>1, <1>2, <1>3, <1>4 DEF Unshared, Conf!Procs, Conf!AddressesUnique, Conf!Conflict,
     Checked, Saving, Reloading
<1>6. Checked(h)'
  BY <1>1, <1>2, <1>3, <1>4 DEF Checked, Conf!Conflict, Saving, Reloading, Requests
<1>7. Honest(h)'
  BY <1>1, <1>2, <1>3, <1>4, NothingRuns DEF Honest, Checked, Clean, Deletions, Waiting,
     Saving, Reloading, Requests
<1> QED
  BY <1>2, <1>3, <1>5, <1>6, <1>7, EditorOnly

LEMMA ArrivesAlone ==
  ASSUME ConfInv, ConfInv', AloneInv, NEW h \in Handlers, Conf!RequestArrives(h)
  PROVE  AloneInv'
<1>1. PICK r \in Reqs : /\ req' = [req EXCEPT ![h] = r]
                        /\ r.op # "create" => r.id < nextId
                        /\ r.op \in {"create", "save"} => r.new # Conf!NoRow
                        /\ r.op # "none" /\ r.prev = Conf!NoRow
  BY ArrivesRequest
<1>2. /\ h \in Conf!Procs /\ req \in [Handlers -> Reqs] /\ pc \in [Conf!Procs -> Places]
  BY TypesOf DEF ConfInv, Typed, Conf!Procs, Conf!TypeOK, Places
<1>3. /\ pc[h] = "idle" /\ pc'[h] = "start" /\ \A p \in Conf!Procs \ {h} : pc'[p] = pc[p]
      /\ UNCHANGED <<row, inst, rel, nextId, editor, dbFailures>>
  BY <1>2 DEF Conf!RequestArrives, Conf!webRest, Conf!Goto
<1>4. req'[h] = r /\ \A g \in Handlers \ {h} : req'[g] = req[g]
  BY <1>1, <1>2
<1>5. \A g \in Handlers \ {h} : pc'[g] = pc[g]
  BY <1>3 DEF Conf!Procs
<1>6. Unshared'
  <2>1. \A b \in Background : pc'[b] = "idle"
    BY <1>3 DEF AloneInv, Unshared, Conf!Procs
  <2>2. UNCHANGED Conf!AddressesUnique
    BY <1>3 DEF Conf!AddressesUnique
  <2>3. ASSUME NEW g \in Handlers
        PROVE  /\ pc'[g] = "start" => req'[g].op # "none" /\ req'[g].prev = Conf!NoRow
               /\ (pc'[g] = "start" /\ req'[g].op \in {"create", "save"})
                    \/ pc'[g] \in {"check", "write"} => req'[g].new # Conf!NoRow
    BY <1>1, <1>3, <1>4, <1>5 DEF AloneInv, Unshared
  <2> QED
    BY <1>3, <2>1, <2>2, <2>3 DEF AloneInv, Unshared
<1>7. ASSUME NEW g \in Handlers
      PROVE  Checked(g)' /\ Honest(g)'
  <2>1. CASE g = h
    BY <1>3, <2>1 DEF Checked, Honest, Waiting, Saving, Reloading
  <2>2. CASE g # h
    <3>1. pc'[g] = pc[g] /\ req'[g] = req[g] /\ Checked(g) /\ Honest(g)
      BY <1>4, <1>5, <2>2 DEF AloneInv
    <3> QED
      BY <1>3, <3>1 DEF Checked, Honest, Clean, Conf!Conflict
  <2> QED
    BY <2>1, <2>2
<1>8. editor' = Conf!Nobody /\ dbFailures' = 0 => \A i \in Conf!Ids : Clean(i)'
  BY <1>3 DEF AloneInv, Clean
<1> QED
  BY <1>6, <1>7, <1>8 DEF AloneInv

LEMMA EditsAlone ==
  ASSUME ConfInv, ConfInv', AloneInv, NEW h \in Handlers, Conf!Edits(h)
  PROVE  AloneInv'
<1> DEFINE id == req[h].id
<1>1. /\ h \in Conf!Procs /\ row \in [Conf!Ids -> Rows] /\ pc \in [Conf!Procs -> Places]
      /\ req \in [Handlers -> Reqs] /\ id \in Conf!Ids /\ dbFailures \in Nat
      /\ Unshared /\ pc[h] = "start" /\ req[h].op # "create"
  BY TypesOf DEF ConfInv, Typed, AloneInv, Conf!Procs, Conf!TypeOK, Places, Reqs, Conf!Edits
<1>2. /\ pc'[h] \in {"erase", "check", "refused"}
      /\ \A p \in Conf!Procs \ {h} : pc'[p] = pc[p]
      /\ UNCHANGED <<row, inst, rel, nextId>> /\ editor = Conf!Nobody /\ editor' = h
  BY <1>1 DEF Conf!Edits, Conf!webRest, Conf!Goto
<1>3. /\ req'[h].op = req[h].op /\ req'[h].id = id /\ req'[h].prev = row[id]
      /\ \A g \in Handlers \ {h} : req'[g] = req[g]
  BY <1>1 DEF Conf!Edits, Reqs
<1>4. pc'[h] = "check" => row[id] # Conf!NoRow /\ req[h].op # "delete" /\
        req'[h].new = IF req[h].op = "toggle" THEN [on |-> ~row[id].on, addr |-> row[id].addr]
                      ELSE req[h].new
  BY <1>1 DEF Conf!Edits, Conf!Goto, Reqs
<1>5. pc'[h] = "check" => req'[h].new # Conf!NoRow
  <2>1. row[id] # Conf!NoRow => row[id].addr \in Addrs
    BY <1>1 DEF Rows, Conf!Cfg
  <2>2. req[h].op \in {"save", "toggle", "delete"} \/ req[h].op = "none"
    BY <1>1 DEF Reqs
  <2>3. req[h].op = "save" => req[h].new # Conf!NoRow
    BY <1>1 DEF Unshared
  <2>4. req[h].op # "none"
    BY <1>1 DEF Unshared
  <2> QED
    BY <1>4, <2>1, <2>2, <2>3, <2>4 DEF Conf!NoRow
<1>6. Unshared'
  <2>1. \A b \in Background : pc'[b] = "idle"
    BY <1>1, <1>2 DEF Unshared, Conf!Procs
  <2>2. UNCHANGED Conf!AddressesUnique
    BY <1>2 DEF Conf!AddressesUnique
  <2>3. \A g \in Handlers \ {h} : pc'[g] = pc[g]
    BY <1>2 DEF Conf!Procs
  <2>4. ASSUME NEW g \in Handlers
        PROVE  /\ pc'[g] = "start" => req'[g].op # "none" /\ req'[g].prev = Conf!NoRow
               /\ (pc'[g] = "start" /\ req'[g].op \in {"create", "save"})
                    \/ pc'[g] \in {"check", "write"} => req'[g].new # Conf!NoRow
    BY <1>1, <1>2, <1>3, <1>5, <2>3 DEF Unshared
  <2> QED
    BY <1>1, <1>2, <2>1, <2>2, <2>4 DEF Unshared
<1>7. Checked(h)'
  <2>1. row[id] # Conf!NoRow => row[id].addr \in Addrs
    BY <1>1 DEF Rows, Conf!Cfg
  <2>2. ASSUME row[id] # Conf!NoRow, NEW j \in Conf!Ids \ {id}
        PROVE  row[j].addr # row[id].addr
    <3>1. CASE row[j] = Conf!NoRow
      BY <2>1, <2>2, <3>1 DEF Conf!NoRow
    <3>2. CASE row[j] # Conf!NoRow
      BY <1>1, <2>2, <3>2 DEF Unshared, Conf!AddressesUnique
    <3> QED
      BY <3>1, <3>2
  <2>3. row[id] # Conf!NoRow => ~Conf!Conflict(req[h].id, req[h].prev)'
    BY <1>2, <1>3, <2>2 DEF Conf!Conflict
  <2> QED
    BY <1>2, <1>3, <1>4, <2>3 DEF Checked, Saving, Reloading
<1>8. Honest(h)'
  <2>1. dbFailures' = 0 => dbFailures = 0
    BY <1>1 DEF Conf!Edits, Conf!Fault
  <2>2. dbFailures = 0 => \A i \in Conf!Ids : Clean(i)
    BY <1>2 DEF AloneInv
  <2> QED
    BY <1>1, <1>2, <1>3, <2>1, <2>2 DEF Honest, Clean, Saving, Reloading
<1> QED
  BY <1>2, <1>6, <1>7, <1>8, EditorOnly

LEMMA CreatesAlone ==
  ASSUME ConfInv, ConfInv', AloneInv, NEW h \in Handlers, Conf!Creates(h)
  PROVE  AloneInv'
<1>1. /\ h \in Conf!Procs /\ pc \in [Conf!Procs -> Places] /\ req \in [Handlers -> Reqs]
      /\ nextId \in Conf!Ids /\ Unshared /\ pc[h] = "start" /\ req[h].op = "create"
  <2>1. Typed /\ pc \in [Conf!Procs -> Places]
    BY TypesOf DEF ConfInv, Conf!TypeOK, Places
  <2>2. nextId <= MaxIds /\ pc[h] = "start" /\ req[h].op = "create"
    BY DEF Conf!Creates
  <2> QED
    BY <2>1, <2>2 DEF Typed, AloneInv, Conf!Procs, Conf!Ids
<1>2. /\ pc'[h] = "check" /\ \A p \in Conf!Procs \ {h} : pc'[p] = pc[p]
      /\ UNCHANGED <<row, inst, rel, dbFailures>> /\ editor = Conf!Nobody /\ editor' = h
      /\ nextId' = nextId + 1
  BY <1>1 DEF Conf!Creates, Conf!webRest, Conf!Goto
<1>3. /\ req'[h].op = "create" /\ req'[h].id = nextId /\ req'[h].prev = req[h].prev
      /\ req'[h].new = req[h].new /\ \A g \in Handlers \ {h} : req'[g] = req[g]
  BY <1>1 DEF Conf!Creates, Reqs
<1>4. Unshared'
  <2>1. \A b \in Background : pc'[b] = "idle"
    BY <1>1, <1>2 DEF Unshared, Conf!Procs
  <2>2. UNCHANGED Conf!AddressesUnique
    BY <1>2 DEF Conf!AddressesUnique
  <2>3. \A g \in Handlers \ {h} : pc'[g] = pc[g]
    BY <1>2 DEF Conf!Procs
  <2>4. ASSUME NEW g \in Handlers
        PROVE  /\ pc'[g] = "start" => req'[g].op # "none" /\ req'[g].prev = Conf!NoRow
               /\ (pc'[g] = "start" /\ req'[g].op \in {"create", "save"})
                    \/ pc'[g] \in {"check", "write"} => req'[g].new # Conf!NoRow
    BY <1>1, <1>2, <1>3, <2>3 DEF Unshared
  <2>5. \A i \in Conf!Ids : i >= nextId' => row'[i] = Conf!NoRow /\ inst'[i] = Conf!NoInst
    BY <1>1, <1>2 DEF Unshared, Conf!Ids
  <2> QED
    BY <1>1, <2>1, <2>2, <2>4, <2>5 DEF Unshared
<1>5. Checked(h)'
  BY <1>2, <1>3 DEF Checked, Saving, Reloading
<1>6. Honest(h)'
  <2>1. req[h].prev = Conf!NoRow /\ row[nextId] = Conf!NoRow
    BY <1>1 DEF Unshared, Conf!Ids
  <2>2. dbFailures = 0 => \A i \in Conf!Ids : Clean(i)
    BY <1>2 DEF AloneInv
  <2> QED
    BY <1>1, <1>2, <1>3, <2>1, <2>2 DEF Honest, Clean, Saving, Reloading
<1> QED
  BY <1>2, <1>4, <1>5, <1>6, EditorOnly

LEMMA AnswersAlone ==
  ASSUME ConfInv, ConfInv', AloneInv, NEW h \in Handlers, Conf!Answers(h)
  PROVE  AloneInv'
<1>1. /\ h \in Conf!Procs /\ pc \in [Conf!Procs -> Places] /\ req \in [Handlers -> Reqs]
      /\ Unshared /\ Honest(h) /\ pc[h] \in {"ok", "refused"} /\ editor = h
  BY TypesOf DEF ConfInv, Typed, AloneInv, Conf!Procs, Conf!TypeOK, Places, Conf!Answers,
     Mutexes, Waiting
<1>2. /\ pc'[h] = "idle" /\ \A p \in Conf!Procs \ {h} : pc'[p] = pc[p]
      /\ UNCHANGED <<row, inst, nextId, dbFailures>> /\ editor' = Conf!Nobody
      /\ \A g \in Handlers \ {h} : req'[g] = req[g]
  BY <1>1 DEF Conf!Answers, Conf!countVars, Conf!Goto
<1>3. \A g \in Handlers : pc'[g] \in Waiting
  BY <1>2 DEF ConfInv, Mutexes, Conf!Procs
<1>4. Unshared'
  <2>1. \A b \in Background : pc'[b] = "idle"
    BY <1>1, <1>2 DEF Unshared, Conf!Procs
  <2>2. UNCHANGED Conf!AddressesUnique
    BY <1>2 DEF Conf!AddressesUnique
  <2>3. \A g \in Handlers \ {h} : pc'[g] = pc[g]
    BY <1>2 DEF Conf!Procs
  <2>4. ASSUME NEW g \in Handlers
        PROVE  /\ pc'[g] = "start" => req'[g].op # "none" /\ req'[g].prev = Conf!NoRow
               /\ (pc'[g] = "start" /\ req'[g].op \in {"create", "save"})
                    \/ pc'[g] \in {"check", "write"} => req'[g].new # Conf!NoRow
    BY <1>1, <1>2, <2>3 DEF Unshared
  <2> QED
    BY <1>1, <1>2, <2>1, <2>2, <2>4 DEF Unshared
<1>5. \A g \in Handlers : Checked(g)' /\ Honest(g)'
  BY <1>3 DEF Checked, Honest, Waiting, Saving, Reloading
<1>6. dbFailures' = 0 => \A i \in Conf!Ids : Clean(i)'
  BY <1>1, <1>2 DEF Honest, Clean, Waiting
<1> QED
  BY <1>4, <1>5, <1>6 DEF AloneInv

-----------------------------------------------------------------------------
LEMMA ConfInit ==
  ASSUME Conf!Init
  PROVE  ConfInv /\ AloneInv
<1>1. PICK c \in Conf!Cfg, l \in BOOLEAN :
        /\ row = [i \in Conf!Ids |-> IF i = 1 THEN c ELSE Conf!NoRow]
        /\ inst = [i \in Conf!Ids |-> IF i = 1 /\ c.on THEN [cfg |-> c, launched |-> l]
                                      ELSE Conf!NoInst]
  BY DEF Conf!Init
<1>2. /\ nextId = 2 /\ pc = [p \in Conf!Procs |-> "idle"] /\ deleted = {}
      /\ req = [h \in Handlers |-> Conf!NoReq] /\ rel = [p \in Conf!Procs |-> Conf!NoRel]
      /\ holder = Conf!Nobody /\ editor = Conf!Nobody
      /\ requests = 0 /\ reloads = 0 /\ dbFailures = 0
  BY DEF Conf!Init
<1>3. /\ 1 \in Conf!Ids /\ \A i \in Conf!Ids : i \in Int /\ i >= 1
      /\ c # Conf!NoRow
  BY DEF Conf!Ids, Conf!Cfg, Conf!NoRow
<1>4. Conf!TypeOK
  <2>1. row \in [Conf!Ids -> Rows] /\ inst \in [Conf!Ids -> Insts]
    BY <1>1, NothingTypes DEF Rows, Insts
  <2>2. /\ req \in [Handlers -> Reqs] /\ rel \in [Conf!Procs -> Rels]
        /\ pc \in [Conf!Procs -> Places]
    BY <1>2, NothingTypes DEF Places
  <2>3. \A p \in Conf!Procs : pc[p] = "idle"
    BY <1>2
  <2> QED
    BY <1>2, <2>1, <2>2, <2>3 DEF Conf!TypeOK, Places, Rows, Insts, Reqs, Rels
<1>5. \A p \in Conf!Procs : pc[p] = "idle"
  BY <1>2
<1>6. \A h \in Handlers : pc[h] = "idle" /\ req[h] = Conf!NoReq
  BY <1>2 DEF Conf!Procs
<1>7. Mutexes
  BY <1>2, <1>5, <1>6 DEF Mutexes, Reloading, Waiting, Conf!Procs
<1>8. Requests
  BY <1>6 DEF Requests, Saving, Reloading, Waiting
<1>9. Instances /\ Deletions
  BY <1>1, <1>2, <1>3, <1>5, <1>6 DEF Instances, Deletions
<1>10. Unshared
  BY <1>1, <1>2, <1>3, <1>5, <1>6 DEF Unshared, Conf!AddressesUnique, Conf!Procs
<1>11. \A h \in Handlers : Checked(h) /\ Honest(h)
  BY <1>6 DEF Checked, Honest, Saving, Reloading, Waiting
<1>12. \A i \in Conf!Ids : Clean(i)
  BY <1>1, <1>3, NothingRuns DEF Clean, Runs
<1> QED
  BY <1>4, <1>7, <1>8, <1>9, <1>10, <1>11, <1>12 DEF ConfInv, AloneInv

LEMMA ConfNext ==
  ASSUME ConfInv, Conf!Next
  PROVE  ConfInv'
<1>1. ASSUME NEW p \in Conf!Procs, Conf!Reload(p)
      PROVE  ConfInv'
  BY <1>1, ReloadTypes, ReloadKeepsPlaces, ReloadKeepsRest DEF ConfInv
<1>2. ASSUME NEW b \in Background, Conf!BackgroundReload(b)
      PROVE  ConfInv'
  BY <1>2, BackgroundReloadKeeps
<1>3. ASSUME NEW h \in Handlers, Conf!Handler(h)
      PROVE  ConfInv'
  <2>1. CASE Conf!Reload(h)
    BY <1>1, <2>1 DEF Conf!Procs
  <2>2. CASE Conf!RequestArrives(h) \/ Conf!Edits(h) \/ Conf!Creates(h)
    BY <2>2, RequestArrivesKeeps, EditsKeeps, CreatesKeeps
  <2>3. CASE Conf!Stores(h)
    <3>1. CASE pc[h] = "write"
      BY <2>3, <3>1, StoresKeeps
    <3>2. CASE pc[h] # "write"
      BY <2>3, <3>2, ChecksKeeps DEF Conf!Stores
    <3> QED
      BY <3>1, <3>2
  <2>4. CASE Conf!Undoes(h)
    BY <2>4, RechecksKeeps, UndoesKeeps, UncreatesKeeps DEF Conf!Undoes
  <2>5. CASE Conf!Compensates(h) \/ Conf!Erases(h) \/ Conf!Removes(h) \/ Conf!Answers(h)
    BY <2>5, CompensatesKeeps, ErasesKeeps, RemovesKeeps, AnswersKeeps
  <2> QED
    BY <1>3, <2>1, <2>2, <2>3, <2>4, <2>5 DEF Conf!Handler
<1> QED
  BY <1>1, <1>2, <1>3 DEF Conf!Next, Conf!Procs

LEMMA AloneNext ==
  ASSUME ConfInv, ConfInv', AloneInv, Conf!Next, reloads' = 0
  PROVE  AloneInv'
<1>1. ASSUME NEW b \in Background, Conf!Reload(b) \/ Conf!BackgroundReload(b)
      PROVE  FALSE
  <2>1. b \in Conf!Procs /\ pc[b] = "idle" /\ reloads \in Nat
    BY DEF AloneInv, Unshared, Conf!Procs, ConfInv, Conf!TypeOK
  <2>2. ~Conf!Reload(b)
    BY <2>1, ReloadMoves DEF ReloadStep, Reloading
  <2>3. ~Conf!BackgroundReload(b)
    BY <2>1 DEF Conf!BackgroundReload
  <2> QED
    BY <1>1, <2>2, <2>3
<1>2. ASSUME NEW h \in Handlers, Conf!Handler(h)
      PROVE  AloneInv'
  <2>1. CASE Conf!Reload(h)
    <3>1. CASE Conf!ReloadLocks(h) \/ Conf!LoadFails(h) \/ Conf!ReloadStops(h)
      BY <3>1, LocksAlone, LoadFailsAlone, StopsAlone
    <3>2. CASE Conf!ReloadStarts(h) \/ Conf!ReloadReady(h)
      BY <3>2, StartsAlone, ReadyAlone
    <3>3. CASE Conf!SavesBack(h)
      BY <3>3, BackChecksAlone, BackWritesAlone DEF Conf!SavesBack
    <3> QED
      BY <2>1, <3>1, <3>2, <3>3 DEF Conf!Reload
  <2>2. CASE Conf!RequestArrives(h) \/ Conf!Edits(h) \/ Conf!Creates(h)
    BY <2>2, ArrivesAlone, EditsAlone, CreatesAlone
  <2>3. CASE Conf!Stores(h)
    <3>1. CASE pc[h] = "write"
      BY <2>3, <3>1, StoresAlone
    <3>2. CASE pc[h] # "write"
      BY <2>3, <3>2, ChecksAlone DEF Conf!Stores
    <3> QED
      BY <3>1, <3>2
  <2>4. CASE Conf!Undoes(h)
    BY <2>4, RechecksAlone, UndoesAlone, UncreatesAlone DEF Conf!Undoes
  <2>5. CASE Conf!Compensates(h) \/ Conf!Erases(h) \/ Conf!Removes(h) \/ Conf!Answers(h)
    BY <2>5, CompensatesAlone, ErasesAlone, RemovesAlone, AnswersAlone
  <2> QED
    BY <1>2, <2>1, <2>2, <2>3, <2>4, <2>5 DEF Conf!Handler
<1> QED
  BY <1>1, <1>2 DEF Conf!Next

\* The invariants speak of the variables of the configuration alone
LEMMA ConfFrame ==
  ASSUME UNCHANGED confVars
  PROVE  (ConfInv => ConfInv') /\ (AloneInv => AloneInv')
<1> USE DEF confVars
<1>1. UNCHANGED Conf!TypeOK /\ UNCHANGED Conf!AddressesUnique
  BY DEF Conf!TypeOK, Conf!AddressesUnique
<1>2. UNCHANGED Mutexes /\ UNCHANGED Requests /\ UNCHANGED Instances
  BY DEF Mutexes, Requests, Instances
<1>3. UNCHANGED Deletions
  BY DEF Deletions, Stopped
<1>4. UNCHANGED Unshared
  BY <1>1 DEF Unshared
<1>5. \A h \in Handlers : Checked(h) => Checked(h)'
  BY DEF Checked, Conf!Conflict
<1>6. \A h \in Handlers : Honest(h) => Honest(h)'
  BY DEF Honest, Clean
<1>7. \A i \in Conf!Ids : Clean(i) => Clean(i)'
  BY DEF Clean
<1> QED
  BY <1>1, <1>2, <1>3, <1>4, <1>5, <1>6, <1>7 DEF ConfInv, AloneInv

\* The invariant of the configuration, whatever of the store a behaviour is about.
THEOREM StoreInvariant == StoreSpec => []StoreInv
<1>1. StoreInit => StoreInv
  BY ConfInit DEF StoreInit, StoreInv
<1>2. ASSUME StoreInv, [StoreNext]_<<subject, mVars, confVars>>
      PROVE  StoreInv'
  <2>1. CASE UNCHANGED <<subject, confVars>>
    BY <1>2, <2>1, ConfFrame DEF StoreInv
  <2>2. CASE Conf!Next /\ UNCHANGED subject /\ (subject = "alone" => reloads' = 0)
    BY <1>2, <2>2, ConfNext, AloneNext DEF StoreInv
  <2> QED
    BY <1>2, <2>1, <2>2 DEF StoreNext
<1> QED
  BY <1>1, <1>2, PTL DEF StoreSpec

\* When nobody is changing anything, what runs is what is stored, every failure on the
\* way having been compensated, and what was deleted stays stopped whatever reloads
\* (webui/server.go:464-509, 534-543, manager.go:323-336).
THEOREM RowsDecideAlways == StoreSpec => []RowsDecide
<1>1. StoreInv => RowsDecide
  <2> SUFFICES ASSUME StoreInv PROVE RowsDecide
    OBVIOUS
  <2>1. subject = "alone" => Conf!RunsWhatIsStored
    BY DEF StoreInv, AloneInv, Clean, Runs, Conf!RunsWhatIsStored
  <2>2. Conf!DeletedStaysStopped
    BY DEF StoreInv, ConfInv, Deletions, Stopped, Conf!DeletedStaysStopped
  <2> QED
    BY <2>1, <2>2 DEF RowsDecide
<1> QED
  BY <1>1, StoreInvariant, PTL

\* A refused request has left the row as it found it, and an answered one has stored
\* what it was asked to store, as long as nothing else reloads (webui/server.go:464-482,
\* 534-543).
THEOREM AnswersAreTrue == StoreSpec => AnswersMatchRow
<1>1. StoreInv /\ [StoreNext]_<<subject, mVars, confVars>> =>
        [subject = "alone" =>
           \A h \in Handlers : Conf!RefusedKept(h) /\ Conf!AnsweredStored(h)]_confVars
  <2> SUFFICES ASSUME StoreInv, subject = "alone", NEW h \in Handlers
               PROVE  Conf!RefusedKept(h) /\ Conf!AnsweredStored(h)
    OBVIOUS
  <2>1. Checked(h) /\ Honest(h)
    BY DEF StoreInv, AloneInv
  <2>2. Conf!RefusedKept(h)
    BY <2>1 DEF Honest, Waiting, Conf!RefusedKept
  <2>3. Conf!AnsweredStored(h)
    BY <2>1 DEF Checked, Conf!AnsweredStored
  <2> QED
    BY <2>2, <2>3
<1> QED
  BY <1>1, StoreInvariant, PTL DEF StoreSpec, AnswersMatchRow

=============================================================================
