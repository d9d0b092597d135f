---------------------------- MODULE ManagerProofs ----------------------------
(***************************************************************************)
(* Proofs about module Manager, for every set of configurations and every  *)
(* value of the bounds: its type invariant; only the current generation's  *)
(* SOCKS5 listener accepts; a drain closes its servers in order; a reload  *)
(* keeps established sessions; every generation keeps an owner until it is *)
(* gone; the limits follow the configuration and are shared; and what      *)
(* happens to the generations implements module Succession.                *)
(***************************************************************************)
EXTENDS Manager, FiniteSetTheorems, TLAPS

\* The generation a call works on, and the room the bound leaves it
CallInv ==
  /\ op.step = "start" => ngen = 0 /\ instances = None
  /\ op.step = "loaded" => ngen + 2 <= MaxGen /\ op.old = instances
  /\ op.step \in {"waitNew", "stopNew"} =>
       ngen + 1 <= MaxGen /\ op.new = instances /\ op.new # None
  /\ op.step = "stopNew" => <<op.new, "socks">> \in refuses
  /\ op.step = "waitBack" => op.old # None

\* The goroutines of a generation start after it was created.
NotYet == \A g \in Gen, p \in Proto : g > ngen => lst[<<g, p>>] = "off"

\* An accept loop runs only in a server that may accept,
RefusalEndsLoop ==
  \A g \in Gen : lst[<<g, "socks">>] = "serving" => <<g, "socks">> \notin refuses

\* and every generation that left the map has been told to refuse.
LeftRefuses ==
  closed \/ \A g \in 1..ngen : g # instances => <<g, "socks">> \in refuses

TypeInv == TypeOK /\ CallInv
IndInv  == TypeInv /\ NotYet /\ RefusalEndsLoop /\ LeftRefuses

-----------------------------------------------------------------------------
(* Types                                                                   *)

OpType(n) == [step : OpStep, on : BOOLEAN, cfg : Versions, old : 0..n,
              new : 0..n, err : BOOLEAN]

\* The record of a free mutex: no generation is being worked on.
LEMMA IdleType ==
  /\ Idle \in [step : OpStep, on : BOOLEAN, cfg : Versions, old : {None},
               new : {None}, err : BOOLEAN]
  /\ Idle.step = "idle" /\ Idle.old = None /\ Idle.new = None
<1>1. (CHOOSE v \in Versions : TRUE) \in Versions
  BY ManagerAssumption
<1> QED
  BY <1>1 DEF Idle, OpStep

\* Idle fits whatever the number of generations is.
LEMMA IdleFits == ASSUME NEW n \in Nat PROVE Idle \in OpType(n)
BY IdleType DEF OpType, None

\* The functions the helpers build have the right range.
LEMMA CloseListenersType ==
  ASSUME lst \in [Pair -> ListenerState], NEW g
  PROVE  CloseListeners(g) \in [Pair -> ListenerState]
<1>1. \A x \in Pair : CloseListener(x) \in ListenerState
  BY DEF CloseListener, ListenerState
<1> QED
  BY <1>1 DEF CloseListeners

\* Starting the goroutines of a generation keeps the listener states a function
\* with the right range.
LEMMA LaunchedType ==
  ASSUME NEW f \in [Pair -> ListenerState], NEW g, NEW v
  PROVE  Launched(f, g, v) \in [Pair -> ListenerState]
BY DEF Launched, ListenerState

\* A new generation gets a configuration and limits of the right type.
LEMMA CreateType ==
  ASSUME TypeOK, NEW g \in Gen, NEW v \in Versions, NEW o \in Gen, Create(g, v, o)
  PROVE  /\ ngen' = g
         /\ cfgOf' \in [Gen -> Versions]
         /\ lim' \in [Gen -> Gen]
         /\ limMax' \in [Gen -> Versions]
<1>1. [cfgOf EXCEPT ![g] = v] \in [Gen -> Versions]
  BY DEF TypeOK
<1>2. [lim EXCEPT ![g] = o] \in [Gen -> Gen]
  BY DEF TypeOK
<1>3. [limMax EXCEPT ![o] = v] \in [Gen -> Versions]
  BY DEF TypeOK
<1> QED
  BY <1>1, <1>2, <1>3 DEF Create

\* Writing the configuration of a settled call leaves a row.
LEMMA SaveRuntimeType ==
  ASSUME TypeOK, NEW v \in Versions, NEW on \in BOOLEAN, SaveRuntime(v, on)
  PROVE  stored' \in [row : BOOLEAN, on : BOOLEAN, cfg : Versions]
<1>1. CASE UNCHANGED stored
  BY <1>1 DEF TypeOK
<1>2. CASE stored' = [row |-> TRUE, on |-> on, cfg |-> v]
  BY <1>2
<1> QED
  BY <1>1, <1>2 DEF SaveRuntime

\* A drain starts at one of its own states.
LEMMA ScheduleDrainType ==
  ASSUME TypeOK, NEW g, ScheduleDrain(g)
  PROVE  drain' \in [Gen -> DrainState]
BY DEF TypeOK, ScheduleDrain, DrainState

\* Shutting a generation down keeps the types of everything it touches.
LEMMA ShutdownType ==
  ASSUME TypeOK, NEW g \in Gen, Shutdown(g)
  PROVE  /\ ctxDone' \subseteq Gen
         /\ lst' \in [Pair -> ListenerState]
         /\ refuses' \subseteq Pair /\ ready' \subseteq Pair /\ open' \subseteq Pair
BY CloseListenersType DEF TypeOK, Shutdown



\* A call's record keeps its type when it takes a step,
LEMMA OpStepType ==
  ASSUME NEW n \in Nat, NEW m \in Nat, n <= m, op \in OpType(n), NEW s \in OpStep
  PROVE  [op EXCEPT !.step = s] \in OpType(m)
BY DEF OpType

\* when it begins to wait for the listeners of a generation,
LEMMA AwaitingType ==
  ASSUME NEW n \in Nat, NEW m \in Nat, n <= m, op \in OpType(n), NEW s \in OpStep,
         NEW g \in 0..m
  PROVE  Awaiting(g, s) \in OpType(m)
BY DEF OpType, Awaiting

\* and when it learns of a startup error.
LEMMA OpErrType ==
  ASSUME NEW n \in Nat, op \in OpType(n)
  PROVE  [op EXCEPT !.err = TRUE] \in OpType(n)
<1>1. TRUE \in BOOLEAN
  OBVIOUS
<1> QED
  BY <1>1, Zenon DEF OpType


\* Creating a generation the bound leaves room for
LEMMA GenerationType ==
  ASSUME TypeOK, NEW g, g = ngen + 1, ngen < MaxGen, NEW v \in Versions,
         NEW o \in Gen \cup {g}, Create(g, v, o)
  PROVE  /\ g \in Gen /\ ngen \in Nat /\ ngen <= g /\ g \in Nat
         /\ ngen' = g /\ g \in 0..MaxGen /\ g \in 0..g
         /\ cfgOf' \in [Gen -> Versions]
         /\ lim' \in [Gen -> Gen]
         /\ limMax' \in [Gen -> Versions]
         /\ instances \in 0..g /\ victim \in 0..g
<1>1. /\ g \in Gen /\ ngen \in Nat /\ ngen <= g /\ g \in Nat
      /\ g \in 0..MaxGen /\ g \in 0..g
  BY ManagerAssumption DEF TypeOK, Gen
<1>2. instances \in 0..g /\ victim \in 0..g
  BY <1>1 DEF TypeOK
<1>3. o \in Gen
  BY <1>1
<1>4. ngen' = g
  BY DEF Create
<1> QED
  BY <1>1, <1>2, <1>3, <1>4, CreateType

\* Every stretch of a lifecycle call keeps the types.
LEMMA TransitionType == TypeInv /\ Transition => TypeOK'
<1> SUFFICES ASSUME TypeInv, Transition PROVE TypeOK'
  OBVIOUS
<1>0. /\ ngen \in Nat /\ MaxGen \in Nat /\ op \in OpType(ngen) /\ TypeOK
      /\ op.cfg \in Versions /\ op.on \in BOOLEAN
      /\ op.old # None => op.old \in Gen
      /\ op.new # None => op.new \in Gen
      /\ instances # None => instances \in Gen
  <2>1. /\ ngen \in 0..MaxGen /\ MaxGen \in Nat /\ TypeOK /\ instances \in 0..ngen
        /\ op \in OpType(ngen)
    BY ManagerAssumption DEF TypeInv, TypeOK, OpType
  <2>2. /\ op.cfg \in Versions /\ op.on \in BOOLEAN /\ op.old \in 0..ngen
        /\ op.new \in 0..ngen
    BY <2>1 DEF OpType
  <2> QED
    BY <2>1, <2>2 DEF Gen, None
<1>a. Idle \in OpType(ngen)
  BY <1>0, IdleFits
<1>b. op.old # None => cfgOf[op.old] \in Versions /\ lim[op.old] \in Gen
  BY <1>0 DEF TypeOK
<1> USE DEF genVars, srvVars, drainVars, closeVars
<1>1. CASE StartAll
  <2>1. CASE stored.row /\ stored.on
    <3>1. ngen < MaxGen /\ stored.cfg \in Versions
      BY <1>0, <1>1, ManagerAssumption DEF StartAll, TypeInv, TypeOK, CallInv
    <3>2. Create(ngen + 1, stored.cfg, ngen + 1)
      BY <1>1, <2>1 DEF StartAll
    <3>3. /\ ngen + 1 \in Gen /\ ngen' = ngen + 1
          /\ ngen + 1 \in 0..MaxGen /\ ngen + 1 \in 0..(ngen + 1)
          /\ ngen + 1 \in Nat
          /\ cfgOf' \in [Gen -> Versions]
          /\ lim' \in [Gen -> Gen]
          /\ limMax' \in [Gen -> Versions]
          /\ victim \in 0..(ngen + 1)
      BY <1>0, <3>1, <3>2, GenerationType
    <3>4. op' \in OpType(ngen')
      BY <1>1, <3>3, IdleFits DEF StartAll
    <3>5. /\ launched' \subseteq Gen /\ ctxDone' \subseteq Gen
          /\ lst' \in [Pair -> ListenerState] /\ refuses' \subseteq Pair
          /\ faults' \in 0..MaxFaults
      <4>1. CASE launched' = launched \cup {ngen + 1}
                 /\ lst' = Launched(lst, ngen + 1, stored.cfg)
                 /\ UNCHANGED <<ctxDone, refuses, faults>>
        BY <1>0, <3>3, <4>1, LaunchedType DEF TypeOK
      <4>2. CASE /\ faults < MaxFaults
                 /\ faults' = faults + 1
                 /\ ctxDone' = ctxDone \cup {ngen + 1}
                 /\ refuses' = refuses \cup {x \in Pair : x[1] = ngen + 1}
                 /\ UNCHANGED <<launched, lst>>
        BY <1>0, <3>3, <4>2, ManagerAssumption DEF TypeOK
      <4> QED
        BY <1>1, <2>1, <4>1, <4>2 DEF StartAll
    <3> QED
      BY <1>0, <1>1, <2>1, <3>3, <3>4, <3>5 DEF StartAll, TypeOK, OpType
  <2>2. CASE ~(stored.row /\ stored.on)
    BY <1>0, <1>a, <1>1, <2>2 DEF StartAll, TypeOK, OpType
  <2> QED
    BY <2>1, <2>2
<1>2. CASE BeginReload
  <2>1. op' \in OpType(ngen')
    BY <1>2, <1>0 DEF BeginReload, OpStep, TypeOK, OpType, None
  <2> QED
    BY <1>0, <1>2, <2>1 DEF BeginReload, TypeOK, OpType
<1>3. CASE PreflightFails
  <2>1. stored' \in [row : BOOLEAN, on : BOOLEAN, cfg : Versions]
    BY <1>0, <1>b, <1>3, SaveRuntimeType DEF PreflightFails
  <2>2. faults' \in 0..MaxFaults
    BY <1>0, <1>3, ManagerAssumption DEF PreflightFails, TypeOK
  <2> QED
    BY <1>0, <1>a, <1>3, <2>1, <2>2 DEF PreflightFails, TypeOK, OpType
<1>4. CASE ReloadNothing
  BY <1>0, <1>a, <1>4 DEF ReloadNothing, TypeOK, OpType
<1>5. CASE EnableNew
  <2>1. ngen < MaxGen
    BY <1>0, <1>5 DEF EnableNew, TypeInv, CallInv
  <2>2. Create(ngen + 1, op.cfg, ngen + 1)
    BY <1>5 DEF EnableNew
  <2>3. /\ ngen + 1 \in Gen /\ ngen' = ngen + 1
        /\ ngen + 1 \in 0..MaxGen /\ ngen + 1 \in 0..(ngen + 1)
        /\ ngen + 1 \in Nat /\ ngen <= ngen + 1
        /\ cfgOf' \in [Gen -> Versions]
        /\ lim' \in [Gen -> Gen]
        /\ limMax' \in [Gen -> Versions]
        /\ victim \in 0..(ngen + 1)
    BY <1>0, <1>b, <1>5, <2>1, <2>2, GenerationType DEF EnableNew
  <2>4. op' \in OpType(ngen')
    BY <1>0, <1>5, <2>3, AwaitingType DEF EnableNew, OpStep
  <2>5. /\ launched' \subseteq Gen /\ refuses' \subseteq Pair
        /\ lst' \in [Pair -> ListenerState]
    BY <1>0, <1>5, <2>3, LaunchedType DEF EnableNew, TypeOK
  <2> QED
    BY <1>0, <1>5, <2>3, <2>4, <2>5 DEF EnableNew, TypeOK, OpType
<1>6. CASE DisableOld
  <2>1. op.old \in Gen /\ Shutdown(op.old)
    BY <1>0, <1>6 DEF DisableOld, TypeInv, CallInv
  <2>2. /\ ctxDone' \subseteq Gen
        /\ lst' \in [Pair -> ListenerState]
        /\ refuses' \subseteq Pair /\ ready' \subseteq Pair /\ open' \subseteq Pair
    BY <1>0, <2>1, ShutdownType
  <2>3. op' \in OpType(ngen)
    BY <1>0, <1>6, OpStepType DEF DisableOld, OpStep
  <2> QED
    BY <1>0, <1>6, <2>2, <2>3 DEF DisableOld, TypeOK, OpType, None
<1>7. CASE HotSwap
  <2>1. ngen < MaxGen
    BY <1>0, <1>7 DEF HotSwap, TypeInv, CallInv
  <2>2. Create(ngen + 1, op.cfg, lim[op.old])
    BY <1>7 DEF HotSwap
  <2>3. /\ ngen + 1 \in Gen /\ ngen' = ngen + 1
        /\ ngen + 1 \in 0..MaxGen /\ ngen + 1 \in 0..(ngen + 1)
        /\ ngen + 1 \in Nat /\ ngen <= ngen + 1
        /\ cfgOf' \in [Gen -> Versions]
        /\ lim' \in [Gen -> Gen]
        /\ limMax' \in [Gen -> Versions]
        /\ victim \in 0..(ngen + 1)
    BY <1>0, <1>b, <1>7, <2>1, <2>2, GenerationType DEF HotSwap
  <2>4. op' \in OpType(ngen')
    BY <1>0, <1>7, <2>3, AwaitingType DEF HotSwap, OpStep
  <2>5. /\ launched' \subseteq Gen /\ refuses' \subseteq Pair
        /\ lst' \in [Pair -> ListenerState]
    <3>1. CloseListeners(op.old) \in [Pair -> ListenerState]
      BY <1>0, CloseListenersType DEF TypeOK
    <3>2. <<op.old, "socks">> \in Pair
      BY <1>0, <1>7 DEF HotSwap, Pair, Proto
    <3>3. lst' = Launched(CloseListeners(op.old), ngen + 1, op.cfg)
      BY <1>7 DEF HotSwap
    <3>4. lst' \in [Pair -> ListenerState]
      BY <3>1, <3>3, LaunchedType
    <3> QED
      BY <1>0, <1>7, <2>3, <3>2, <3>4 DEF HotSwap, TypeOK
  <2> QED
    BY <1>0, <1>7, <2>3, <2>4, <2>5 DEF HotSwap, TypeOK, OpType
<1>8. CASE NewReady
  <2>1. drain' \in [Gen -> DrainState]
    BY <1>0, <1>8, ScheduleDrainType DEF NewReady, TypeOK
  <2> QED
    BY <1>0, <1>a, <1>8, <2>1 DEF NewReady, TypeOK, OpType
<1>9. CASE NewFails
  <2>1. op.new \in Gen /\ Shutdown(op.new)
    BY <1>0, <1>9 DEF NewFails, TypeInv, CallInv
  <2>2. /\ ctxDone' \subseteq Gen
        /\ lst' \in [Pair -> ListenerState]
        /\ refuses' \subseteq Pair /\ ready' \subseteq Pair /\ open' \subseteq Pair
    BY <1>0, <2>1, ShutdownType
  <2>3. op' \in OpType(ngen)
    BY <1>0, <1>9, OpStepType DEF NewFails, OpStep
  <2> QED
    BY <1>0, <1>9, <2>2, <2>3 DEF NewFails, TypeOK, OpType
<1>10. CASE DropNew
  <2>1. stored' \in [row : BOOLEAN, on : BOOLEAN, cfg : Versions]
    BY <1>0, <1>10, SaveRuntimeType DEF DropNew
  <2> QED
    BY <1>0, <1>a, <1>10, <2>1 DEF DropNew, TypeOK, OpType, None
<1>11. CASE RestorePlaceholder
  <2>1. op.old \in Gen /\ op.old \in 0..ngen /\ cfgOf[op.old] \in Versions
    BY <1>0, <1>b, <1>11 DEF RestorePlaceholder, OpType
  <2>2. stored' \in [row : BOOLEAN, on : BOOLEAN, cfg : Versions]
    BY <1>0, <2>1, <1>11, SaveRuntimeType DEF RestorePlaceholder
  <2>3. limMax' \in [Gen -> Versions]
    BY <1>0, <2>1, <1>11 DEF RestorePlaceholder, TypeOK
  <2> QED
    BY <1>0, <1>a, <1>11, <2>1, <2>2, <2>3 DEF RestorePlaceholder, TypeOK, OpType
<1>12. CASE Rollback
  <2>1. ngen < MaxGen
    BY <1>0, <1>12 DEF Rollback, TypeInv, CallInv
  <2>2. Create(ngen + 1, cfgOf[op.old], lim[op.old])
    BY <1>12 DEF Rollback
  <2>3. /\ ngen + 1 \in Gen /\ ngen' = ngen + 1
        /\ ngen + 1 \in 0..MaxGen /\ ngen + 1 \in 0..(ngen + 1)
        /\ ngen + 1 \in Nat /\ ngen <= ngen + 1
        /\ cfgOf' \in [Gen -> Versions]
        /\ lim' \in [Gen -> Gen]
        /\ limMax' \in [Gen -> Versions]
        /\ victim \in 0..(ngen + 1)
    BY <1>0, <1>b, <1>12, <2>1, <2>2, GenerationType DEF Rollback
  <2>4. op' \in OpType(ngen')
    BY <1>0, <1>12, <2>3, AwaitingType DEF Rollback, OpStep
  <2>5. /\ launched' \subseteq Gen /\ refuses' \subseteq Pair
        /\ lst' \in [Pair -> ListenerState]
    BY <1>0, <1>12, <2>3, LaunchedType DEF Rollback, TypeOK
  <2> QED
    BY <1>0, <1>12, <2>3, <2>4, <2>5 DEF Rollback, TypeOK, OpType
<1>13. CASE RollbackSettles
  <2>1. stored' \in [row : BOOLEAN, on : BOOLEAN, cfg : Versions]
    BY <1>0, <1>b, <1>13, SaveRuntimeType DEF RollbackSettles, TypeInv, CallInv
  <2>2. drain' \in [Gen -> DrainState]
    BY <1>0, <1>13, ScheduleDrainType DEF RollbackSettles
  <2> QED
    BY <1>0, <1>a, <1>13, <2>1, <2>2 DEF RollbackSettles, TypeOK, OpType
<1>14. CASE Remove
  <2>1. instances \in Gen /\ Shutdown(instances)
    BY <1>0, <1>14 DEF Remove, TypeInv, CallInv
  <2>2. /\ ctxDone' \subseteq Gen
        /\ lst' \in [Pair -> ListenerState]
        /\ refuses' \subseteq Pair /\ ready' \subseteq Pair /\ open' \subseteq Pair
    BY <1>0, <2>1, ShutdownType
  <2>3. op' \in OpType(ngen)
    BY <1>0, <1>14, IdleType, ManagerAssumption DEF Remove, OpStep, OpType, TypeOK, None
  <2> QED
    BY <1>0, <1>14, <2>2, <2>3 DEF Remove, TypeOK, OpType, None
<1>15. CASE StopJoined
  BY <1>0, <1>a, <1>15 DEF StopJoined, TypeOK, OpType
<1> QED
  BY <1>1, <1>2, <1>3, <1>4, <1>5, <1>6, <1>7, <1>8, <1>9, <1>10, <1>11, <1>12,
     <1>13, <1>14, <1>15 DEF Transition

\* A listener goroutine moves to another of its states.
LEMMA ListenerMoves ==
  ASSUME lst \in [Pair -> ListenerState], NEW g \in Gen, NEW p \in Proto,
         NEW q \in ListenerState
  PROVE  /\ [lst EXCEPT ![<<g, p>>] = q] \in [Pair -> ListenerState]
         /\ <<g, p>> \in Pair
BY DEF Pair

\* Reporting a startup error does not change what else a call is doing.
LEMMA StartupErrorType ==
  ASSUME NEW n \in Nat, op \in OpType(n), NEW g, StartupError(g)
  PROVE  op' \in OpType(n)
BY OpErrType DEF StartupError

\* The listener goroutines keep the types,
LEMMA ListenerType ==
  ASSUME TypeInv, NEW g \in Gen, NEW p \in Proto,
         ListenerLoop(g, p) \/ AcceptFails(g, p)
  PROVE  TypeOK'
<1>0. /\ ngen \in Nat /\ op \in OpType(ngen) /\ TypeOK
      /\ lst \in [Pair -> ListenerState] /\ <<g, p>> \in Pair
      /\ faults \in 0..MaxFaults /\ MaxFaults \in Nat
  BY ManagerAssumption DEF TypeInv, TypeOK, OpType, Pair
<1>f. faults < MaxFaults => faults + 1 \in 0..MaxFaults
  BY <1>0
<1> USE DEF genVars, drainVars, closeVars, listenerRest
<1>1. CASE Bind(g, p)
  <2>1. op' \in OpType(ngen)
    BY <1>0, <1>1, StartupErrorType DEF Bind
  <2>2. lst' \in [Pair -> ListenerState]
    BY <1>0, <1>1, ListenerMoves DEF Bind, ListenerState
  <2>3. faults' \in 0..MaxFaults
    BY <1>0, <1>f, <1>1 DEF Bind
  <2> QED
    BY <1>0, <1>1, <2>1, <2>2, <2>3 DEF Bind, TypeOK, OpType
<1>2. CASE Install(g, p)
  <2>1. PICK q \in {"ended", "serving"} : lst' = [lst EXCEPT ![<<g, p>>] = q]
    BY <1>2 DEF Install
  <2>2. lst' \in [Pair -> ListenerState]
    BY <1>0, <2>1, ListenerMoves DEF ListenerState
  <2> QED
    BY <1>0, <1>2, <2>2 DEF Install, TypeOK, OpType
<1>3. CASE Retry(g, p)
  <2>1. lst' \in [Pair -> ListenerState]
    BY <1>0, <1>3, ListenerMoves DEF Retry, ListenerState
  <2> QED
    BY <1>0, <1>3, <2>1 DEF Retry, TypeOK, OpType
<1>4. CASE Watch(g, p)
  <2>1. lst' \in [Pair -> ListenerState]
    BY <1>0, <1>4, ListenerMoves DEF Watch, ListenerState
  <2> QED
    BY <1>0, <1>4, <2>1 DEF Watch, TypeOK, OpType
<1>5. CASE AcceptFails(g, p)
  <2>1. op' \in OpType(ngen)
    BY <1>0, <1>5, StartupErrorType DEF AcceptFails
  <2>2. lst' \in [Pair -> ListenerState]
    BY <1>0, <1>5, ListenerMoves DEF AcceptFails, ListenerState
  <2>3. faults' \in 0..MaxFaults
    BY <1>0, <1>f, <1>5 DEF AcceptFails
  <2> QED
    BY <1>0, <1>5, <2>1, <2>2, <2>3 DEF AcceptFails, TypeOK, OpType
<1> QED
  BY <1>1, <1>2, <1>3, <1>4, <1>5 DEF ListenerLoop

\* Sessions and the administrator touch one variable each.
LEMMA ClientType ==
  ASSUME TypeInv, Sessions \/ Administrator
  PROVE  TypeOK'
<1>0. TypeOK /\ op \in OpType(ngen)
  BY DEF TypeInv, TypeOK, OpType
<1> USE DEF genVars, srvVars, drainVars, closeVars
<1>1. CASE Sessions
  <2> SUFFICES ASSUME NEW g \in Gen, NEW p \in Proto, Accept(g, p) \/ SessionEnds(g, p)
               PROVE  TypeOK'
    BY <1>1 DEF Sessions
  <2>1. open' \subseteq Pair
    BY <1>0 DEF Accept, SessionEnds, TypeOK, Pair
  <2> QED
    BY <1>0, <2>1 DEF Accept, SessionEnds, TypeOK, OpType
<1>2. CASE Administrator
  <2>1. /\ stored' \in [row : BOOLEAN, on : BOOLEAN, cfg : Versions]
        /\ saves' \in 0..MaxSaves
    <3>1. CASE DeleteRow
      <4>1. stored' = [row |-> FALSE, on |-> stored.on, cfg |-> stored.cfg]
        BY <1>0, <3>1 DEF DeleteRow, TypeOK
      <4>2. stored' \in [row : BOOLEAN, on : BOOLEAN, cfg : Versions]
        BY <1>0, <4>1 DEF TypeOK
      <4> QED
        BY <1>0, <3>1, <4>2, ManagerAssumption DEF DeleteRow, TypeOK
    <3>2. ASSUME NEW v \in Versions, NEW on \in BOOLEAN, SaveConfig(v, on)
          PROVE  /\ stored' \in [row : BOOLEAN, on : BOOLEAN, cfg : Versions]
                 /\ saves' \in 0..MaxSaves
      <4>1. stored' = [row |-> TRUE, on |-> on, cfg |-> v]
        BY <3>2 DEF SaveConfig
      <4> QED
        BY <1>0, <3>2, <4>1, ManagerAssumption DEF SaveConfig, TypeOK
    <3> QED
      BY <1>2, <3>1, <3>2 DEF Administrator
  <2> QED
    BY <1>0, <1>2, <2>1 DEF Administrator, SaveConfig, DeleteRow, TypeOK, OpType
<1> QED
  BY <1>1, <1>2

\* The drain goroutine of a retired generation keeps them,
LEMMA DrainerType ==
  ASSUME TypeInv, NEW g \in Gen, Drainer(g)
  PROVE  TypeOK'
<1>0. TypeOK /\ op \in OpType(ngen) /\ lst \in [Pair -> ListenerState]
  BY DEF TypeInv, TypeOK, OpType
<1> USE DEF genVars, closeVars, drainRest
<1>1. ASSUME NEW p \in Proto, DrainBegin(g, p)
      PROVE  TypeOK'
  <2>1. CloseListener(<<g, p>>) \in ListenerState /\ <<g, p>> \in Pair
    BY <1>0 DEF CloseListener, ListenerState, Pair
  <2>2. lst' \in [Pair -> ListenerState]
    BY <1>0, <1>1, <2>1, ListenerMoves DEF DrainBegin
  <2>3. drain' \in [Gen -> DrainState]
    BY <1>0, <1>1 DEF DrainBegin, TypeOK, DrainState
  <2> QED
    BY <1>0, <1>1, <2>1, <2>2, <2>3 DEF DrainBegin, TypeOK, OpType
<1>2. ASSUME NEW p \in Proto, DrainEnd(g, p)
      PROVE  TypeOK'
  <2>1. drain' \in [Gen -> DrainState]
    BY <1>0, <1>2 DEF DrainEnd, AfterDrain, TypeOK, DrainState
  <2> QED
    BY <1>0, <1>2, <2>1 DEF DrainEnd, TypeOK, OpType
<1>3. CASE DrainJoin(g)
  <2>1. drain' \in [Gen -> DrainState]
    BY <1>0, <1>3 DEF DrainJoin, TypeOK, DrainState
  <2> QED
    BY <1>0, <1>3, <2>1 DEF DrainJoin, TypeOK, OpType
<1>4. CASE DrainExpires(g)
  BY <1>0, <1>4 DEF DrainExpires, TypeOK, OpType
<1> QED
  BY <1>1, <1>2, <1>3, <1>4 DEF Drainer

\* and so do the signal and Close.
LEMMA ClosingType ==
  ASSUME TypeInv, Closing \/ Interrupt
  PROVE  TypeOK'
<1>0. TypeOK /\ op \in OpType(ngen) /\ ngen \in Nat
  BY ManagerAssumption DEF TypeInv, TypeOK, OpType
<1> USE DEF genVars, srvVars, drainVars, closeRest
<1>1. CASE Interrupt
  BY <1>0, <1>1 DEF Interrupt, TypeOK, OpType
<1>2. CASE CloseTake
  BY <1>0, <1>2 DEF CloseTake, TypeOK, OpType, None
<1>3. CASE CloseShutdown
  <2>1. CASE victim = None
    BY <1>0, <1>3, <2>1 DEF CloseShutdown, TypeOK, OpType
  <2>2. CASE victim # None
    <3>1. victim \in Gen
      BY <1>0, <2>2, ManagerAssumption DEF TypeOK, Gen, None
    <3>2. /\ ctxDone' \subseteq Gen
          /\ lst' \in [Pair -> ListenerState]
          /\ refuses' \subseteq Pair /\ ready' \subseteq Pair /\ open' \subseteq Pair
      BY <1>0, <1>3, <2>2, <3>1, ShutdownType DEF CloseShutdown
    <3> QED
      BY <1>0, <1>3, <3>2 DEF CloseShutdown, TypeOK, OpType
  <2> QED
    BY <2>1, <2>2
<1>4. CASE CloseJoined \/ CloseDone
  BY <1>0, <1>4 DEF CloseJoined, CloseDone, TypeOK, OpType
<1> QED
  BY <1>1, <1>2, <1>3, <1>4 DEF Closing

\* Every step keeps the types.
LEMMA TypeStep == TypeInv /\ [Next]_vars => TypeOK'
<1> SUFFICES ASSUME TypeInv, [Next]_vars PROVE TypeOK'
  OBVIOUS
<1>1. CASE UNCHANGED vars
  BY <1>1 DEF TypeInv, TypeOK, vars, genVars, srvVars, drainVars, closeVars
<1> QED
  BY <1>1, TransitionType, ListenerType, ClientType, DrainerType, ClosingType
     DEF Next

-----------------------------------------------------------------------------
(* The calls                                                               *)

\* Outside the calls only Close takes a generation out of the map, when no
\* call is in progress; a call at most learns of a startup error.
LEMMA Outside ==
  ASSUME TypeInv,
         \/ Administrator
         \/ \E g \in Gen, p \in Proto : ListenerLoop(g, p) \/ AcceptFails(g, p)
         \/ Sessions
         \/ \E g \in Gen : Drainer(g)
         \/ Interrupt
         \/ Closing
         \/ UNCHANGED vars
  PROVE  /\ ngen' = ngen
         /\ instances' = instances \/ (op.step = "idle" /\ closer' = "taken")
         /\ op' = op \/ op' = [op EXCEPT !.err = TRUE]
         /\ refuses \subseteq refuses'
         /\ closer # "open" => closer' # "open"
<1> USE DEF genVars, srvVars, drainVars, closeVars
<1>1. CASE Administrator \/ UNCHANGED vars
  BY <1>1 DEF Administrator, SaveConfig, DeleteRow, vars
<1>2. ASSUME NEW g \in Gen, NEW p \in Proto, ListenerLoop(g, p) \/ AcceptFails(g, p)
      PROVE  /\ ngen' = ngen /\ instances' = instances /\ refuses \subseteq refuses'
             /\ closer' = closer
             /\ op' = op \/ op' = [op EXCEPT !.err = TRUE]
  <2>1. CASE Bind(g, p)
    BY <2>1 DEF Bind, listenerRest, StartupError
  <2>2. CASE Install(g, p) \/ Retry(g, p)
    BY <2>2 DEF Install, Retry, listenerRest
  <2>3. CASE Watch(g, p)
    BY <2>3 DEF Watch
  <2>4. CASE AcceptFails(g, p)
    BY <2>4 DEF AcceptFails, listenerRest, StartupError
  <2> QED
    BY <1>2, <2>1, <2>2, <2>3, <2>4 DEF ListenerLoop
<1>3. CASE Sessions
  BY <1>3 DEF Sessions, Accept, SessionEnds
<1>4. ASSUME NEW g \in Gen, Drainer(g)
      PROVE  /\ ngen' = ngen /\ instances' = instances /\ refuses \subseteq refuses'
             /\ closer' = closer /\ op' = op
  BY <1>4 DEF Drainer, DrainBegin, DrainEnd, DrainJoin, DrainExpires, drainRest
<1>5. CASE Interrupt
  BY <1>5 DEF Interrupt, closeRest
<1>6. CASE Closing
  BY <1>6 DEF Closing, CloseTake, CloseShutdown, CloseJoined, CloseDone, closeRest,
              Shutdown
<1> QED
  BY <1>1, <1>2, <1>3, <1>4, <1>5, <1>6

\* What a call is doing fits the map and the number of generations.
LEMMA CallStepInv == TypeInv /\ [Next]_vars => CallInv'
<1> SUFFICES ASSUME TypeInv, [Next]_vars PROVE CallInv'
  OBVIOUS
<1>0. /\ CallInv /\ ngen \in Nat /\ MaxGen \in Nat /\ op \in OpType(ngen)
      /\ Idle.step = "idle"
  BY ManagerAssumption, IdleType DEF TypeInv, TypeOK, OpType
<1>1. CASE /\ ngen' = ngen
           /\ instances' = instances \/ (op.step = "idle" /\ closer' = "taken")
           /\ op' = op \/ op' = [op EXCEPT !.err = TRUE]
           /\ refuses \subseteq refuses'
  <2>1. op'.step = op.step /\ op'.old = op.old /\ op'.new = op.new
    BY <1>0, <1>1 DEF OpType
  <2> QED
    BY <1>0, <1>1, <2>1 DEF CallInv
<1>2. CASE op' = Idle
  BY <1>0, <1>2 DEF CallInv
<1>3. CASE BeginReload
  BY <1>0, <1>3 DEF BeginReload, CallInv, genVars
<1>4. CASE EnableNew
  BY <1>0, <1>4 DEF EnableNew, Create, Awaiting, CallInv, None
<1>5. CASE HotSwap
  BY <1>0, <1>5 DEF HotSwap, Create, Awaiting, CallInv, None
<1>6. CASE Rollback
  BY <1>0, <1>6 DEF Rollback, Create, Awaiting, CallInv, None
<1>7. CASE DisableOld
  <2>1. op'.step = "disable"
    BY <1>0, <1>7 DEF DisableOld, OpType
  <2> QED
    BY <2>1 DEF CallInv
<1>8. CASE Remove
  BY <1>8 DEF Remove, CallInv
<1>9. CASE NewFails
  <2>1. op'.step = "stopNew" /\ op'.new = op.new
    BY <1>0, <1>9 DEF NewFails, OpType
  <2>2. op.new # None /\ op.new \in Gen
    BY <1>0, <1>9 DEF NewFails, CallInv, OpType, Gen, None
  <2>3. <<op.new, "socks">> \in refuses'
    BY <1>9, <2>2 DEF NewFails, Shutdown, Pair, Proto
  <2> QED
    BY <1>0, <1>9, <2>1, <2>3 DEF NewFails, CallInv, genVars
<1> QED
  <2>1. CASE Transition
    <3>1. \/ op' = Idle \/ BeginReload \/ EnableNew \/ HotSwap \/ Rollback
          \/ DisableOld \/ Remove \/ NewFails
      BY <2>1 DEF Transition, StartAll, PreflightFails, ReloadNothing, NewReady,
                  DropNew, RestorePlaceholder, RollbackSettles, StopJoined
    <3> QED
      BY <3>1, <1>2, <1>3, <1>4, <1>5, <1>6, <1>7, <1>8, <1>9
  <2>2. CASE ~Transition
    BY <2>2, <1>1, Outside DEF Next
  <2> QED
    BY <2>1, <2>2

\* The program starts with StartAll about to run and nothing created.
LEMMA InitType == Init => TypeInv
<1> SUFFICES ASSUME Init PROVE TypeInv
  OBVIOUS
<1>1. /\ op = [step |-> "start", on |-> FALSE, cfg |-> Idle.cfg, old |-> None,
               new |-> None, err |-> FALSE]
      /\ Idle.cfg \in Versions
  BY IdleType DEF Init, Idle
<1>2. op \in OpType(0) /\ op.step = "start"
  BY <1>1 DEF OpType, OpStep, None
<1>3. CallInv
  BY <1>2 DEF CallInv, Init
<1>4. stored \in [row : BOOLEAN, on : BOOLEAN, cfg : Versions]
  BY DEF Init
<1>5. /\ cfgOf \in [Gen -> Versions] /\ lim \in [Gen -> Gen]
      /\ limMax \in [Gen -> Versions]
      /\ lst \in [Pair -> ListenerState] /\ drain \in [Gen -> DrainState]
  BY <1>1 DEF Init, ListenerState, DrainState
<1>6. ngen = 0 /\ instances = 0 /\ victim = 0
  BY DEF Init, None
<1>7. /\ launched \subseteq Gen /\ ctxDone \subseteq Gen /\ expired \subseteq Gen
      /\ refuses \subseteq Pair /\ ready \subseteq Pair /\ open \subseteq Pair
      /\ closer = "open" /\ halted = FALSE /\ saves = 0 /\ faults = 0
  BY DEF Init
<1>8. /\ instances \in 0..ngen /\ ngen \in 0..MaxGen /\ victim \in 0..ngen
      /\ saves \in 0..MaxSaves /\ faults \in 0..MaxFaults
  BY <1>6, <1>7, ManagerAssumption
<1>10. closer \in {"open", "taken", "join", "drains", "done"} /\ halted \in BOOLEAN
  BY <1>7
<1>9. op \in [step : OpStep, on : BOOLEAN, cfg : Versions,
              old : 0..ngen, new : 0..ngen, err : BOOLEAN]
  BY <1>2, <1>6 DEF OpType
<1> QED
  BY <1>3, <1>4, <1>5, <1>7, <1>8, <1>9, <1>10 DEF TypeInv, TypeOK

\* Type correctness, by the inductive invariant TypeInv.
THEOREM TypeCorrect == Spec => []TypeOK
<1>1. Init => TypeInv
  BY InitType
<1>2. TypeInv /\ [Next]_vars => TypeInv'
  BY TypeStep, CallStepInv DEF TypeInv
<1>3. TypeInv => TypeOK
  BY DEF TypeInv
<1> QED
  BY <1>1, <1>2, <1>3, PTL DEF Spec

-----------------------------------------------------------------------------
(* Only the current generation accepts                                     *)

\* What closing and launching listeners does to the goroutine of one of them
LEMMA Effects ==
  ASSUME TypeOK, NEW g \in Gen, NEW p \in Proto
  PROVE  /\ <<g, p>> \in Pair
         /\ \A f, h, v : Launched(f, h, v)[<<g, p>>] =
              IF g = h /\ (p = "socks" \/ v \in HTTPVersions) THEN "binding" ELSE f[<<g, p>>]
         /\ \A h : CloseListeners(h)[<<g, p>>] =
              IF g = h /\ lst[<<g, p>>] = "serving" THEN "ended" ELSE lst[<<g, p>>]
BY DEF Pair, Launched, CloseListeners, CloseListener

\* The type facts most steps below need
LEMMA Basics ==
  ASSUME TypeInv
  PROVE  /\ TypeOK /\ CallInv
         /\ MaxGen \in Nat /\ ngen \in Nat /\ ngen \in 0..MaxGen
         /\ instances \in 0..ngen
         /\ lst \in [Pair -> ListenerState]
         /\ op \in OpType(ngen)
BY ManagerAssumption DEF TypeInv, TypeOK, OpType

\* A goroutine that was not started stays so until its generation is created.
LEMMA NotYetStep == IndInv /\ TypeInv' /\ [Next]_vars => NotYet'
<1> SUFFICES ASSUME IndInv, TypeInv', [Next]_vars,
                    NEW g \in Gen, NEW p \in Proto, g > ngen'
             PROVE  lst'[<<g, p>>] = "off"
  BY DEF NotYet
<1>0. /\ TypeOK /\ ngen \in Nat /\ ngen' \in Nat /\ g \in Nat /\ <<g, p>> \in Pair
      /\ g > ngen => lst[<<g, p>>] = "off"
      /\ lst \in [Pair -> ListenerState]
  <2>1. /\ TypeOK /\ ngen \in Nat /\ lst \in [Pair -> ListenerState]
        /\ g \in Nat /\ <<g, p>> \in Pair
    BY Basics DEF IndInv, Gen, Pair
  <2>2. ngen' \in Nat
    BY ManagerAssumption DEF TypeInv, TypeOK
  <2>3. g > ngen => lst[<<g, p>>] = "off"
    BY DEF IndInv, NotYet
  <2> QED
    BY <2>1, <2>2, <2>3
<1> USE DEF genVars, srvVars, drainVars, closeVars
<1>1. CASE Transition
  <2>1. ngen <= ngen'
    <3>1. ngen' = ngen \/ ngen' = ngen + 1
      BY <1>1 DEF Transition, StartAll, BeginReload, PreflightFails, ReloadNothing,
         EnableNew, DisableOld, HotSwap, NewReady, NewFails, DropNew,
         RestorePlaceholder, Rollback, RollbackSettles, Remove, StopJoined, Create
    <3> QED
      BY <1>0, <3>1
  <2>2. lst[<<g, p>>] = "off"
    BY <1>0, <2>1
  <2>3. CASE lst' = lst
    BY <2>2, <2>3
  <2>4. ASSUME NEW h, lst' = CloseListeners(h)
        PROVE  lst'[<<g, p>>] = "off"
    BY <1>0, <2>2, <2>4, Effects
  <2>5. ASSUME NEW f, NEW h, NEW v, lst' = Launched(f, h, v), ngen' = h, f[<<g, p>>] = "off"
        PROVE  lst'[<<g, p>>] = "off"
    BY <1>0, <2>5, Effects
  <2>6. CASE StartAll
    BY <2>2, <2>3, <2>5, <2>6 DEF StartAll, Create
  <2>7. CASE EnableNew \/ Rollback
    BY <2>2, <2>5, <2>7 DEF EnableNew, Rollback, Create
  <2>8. CASE HotSwap
    <3>1. CloseListeners(op.old)[<<g, p>>] = "off"
      BY <1>0, <2>2, Effects
    <3> QED
      BY <2>5, <2>8, <3>1 DEF HotSwap, Create
  <2>9. CASE DisableOld \/ NewFails \/ Remove
    BY <2>4, <2>9 DEF DisableOld, NewFails, Remove, Shutdown
  <2> QED
    BY <1>1, <2>3, <2>6, <2>7, <2>8, <2>9 DEF Transition, BeginReload, PreflightFails,
       ReloadNothing, NewReady, DropNew, RestorePlaceholder, RollbackSettles, StopJoined
<1>2. ASSUME NEW h \in Gen, NEW q \in Proto, ListenerLoop(h, q) \/ AcceptFails(h, q)
      PROVE  lst'[<<g, p>>] = "off"
  <2>1. ngen' = ngen /\ lst[<<h, q>>] # "off"
    BY <1>2 DEF ListenerLoop, Bind, Install, Retry, Watch, AcceptFails, listenerRest
  <2>2. PICK r : lst' = [lst EXCEPT ![<<h, q>>] = r]
    BY <1>2 DEF ListenerLoop, Bind, Install, Retry, Watch, AcceptFails
  <2>3. <<h, q>> # <<g, p>>
    BY <1>0, <2>1
  <2> QED
    BY <1>0, <2>1, <2>2, <2>3
<1>3. ASSUME NEW h \in Gen, Drainer(h)
      PROVE  lst'[<<g, p>>] = "off"
  <2>1. ngen' = ngen
    BY <1>3 DEF Drainer, DrainBegin, DrainEnd, DrainJoin, DrainExpires, drainRest
  <2>2. CASE lst' = lst
    BY <1>0, <2>1, <2>2
  <2>3. ASSUME NEW q \in Proto, lst' = [lst EXCEPT ![<<h, q>>] = CloseListener(<<h, q>>)]
        PROVE  lst'[<<g, p>>] = "off"
    BY <1>0, <2>1, <2>3 DEF CloseListener
  <2> QED
    BY <1>3, <2>2, <2>3 DEF Drainer, DrainBegin, DrainEnd, DrainJoin, DrainExpires
<1>4. CASE Closing
  <2>1. ngen' = ngen
    BY <1>4 DEF Closing, CloseTake, CloseShutdown, CloseJoined, CloseDone, closeRest
  <2>2. lst' = lst \/ \E h : lst' = CloseListeners(h)
    BY <1>4 DEF Closing, CloseTake, CloseShutdown, CloseJoined, CloseDone, closeRest,
                Shutdown
  <2> QED
    BY <1>0, <2>1, <2>2, Effects
<1>5. CASE Administrator \/ Sessions \/ Interrupt \/ UNCHANGED vars
  <2>1. ngen' = ngen /\ lst' = lst
    BY <1>5 DEF Administrator, SaveConfig, DeleteRow, Sessions, Accept, SessionEnds,
       Interrupt, closeRest, vars
  <2> QED
    BY <1>0, <2>1
<1> QED
  BY <1>1, <1>2, <1>3, <1>4, <1>5 DEF Next

\* No step lets a server that refuses accept, and none makes one that accepts
\* refuse without closing its listener.
LEMMA RefusalStep == IndInv /\ TypeInv' /\ [Next]_vars => RefusalEndsLoop'
<1> SUFFICES ASSUME IndInv, TypeInv', [Next]_vars,
                    NEW g \in Gen, lst'[<<g, "socks">>] = "serving",
                    <<g, "socks">> \in refuses'
             PROVE  FALSE
  BY DEF RefusalEndsLoop
<1>0. /\ TypeOK /\ ngen \in Nat /\ "socks" \in Proto /\ <<g, "socks">> \in Pair
      /\ lst \in [Pair -> ListenerState]
      /\ ~(lst[<<g, "socks">>] = "serving" /\ <<g, "socks">> \in refuses)
      /\ g > ngen => lst[<<g, "socks">>] = "off"
  <2>1. /\ TypeOK /\ ngen \in Nat /\ lst \in [Pair -> ListenerState]
        /\ "socks" \in Proto /\ <<g, "socks">> \in Pair
    BY Basics DEF IndInv, Pair, Proto
  <2>2. /\ ~(lst[<<g, "socks">>] = "serving" /\ <<g, "socks">> \in refuses)
        /\ g > ngen => lst[<<g, "socks">>] = "off"
    BY <2>1 DEF IndInv, NotYet, RefusalEndsLoop
  <2> QED
    BY <2>1, <2>2
<1> USE DEF genVars, srvVars, drainVars, closeVars
<1>1. ASSUME NEW h, Shutdown(h)
      PROVE  FALSE
  <2>1. g # h
    BY <1>0, <1>1, Effects DEF Shutdown
  <2> QED
    BY <1>0, <1>1, <2>1, Effects DEF Shutdown
<1>2. CASE lst' = lst /\ refuses' = refuses
  BY <1>0, <1>2
<1>3. ASSUME NEW f, NEW h, NEW v, lst' = Launched(f, h, v)
      PROVE  g # h /\ f[<<g, "socks">>] = "serving"
  BY <1>0, <1>3, Effects
<1>4. CASE Transition
  <2>1. CASE StartAll
    <3>1. CASE lst' = lst /\ refuses' = refuses \cup {x \in Pair : x[1] = ngen + 1}
      BY <1>0, <3>1
    <3>2. CASE lst' = Launched(lst, ngen + 1, stored.cfg) /\ refuses' = refuses
      BY <1>0, <1>3, <3>2
    <3> QED
      BY <1>2, <2>1, <3>1, <3>2 DEF StartAll
  <2>2. CASE EnableNew \/ Rollback
    BY <1>0, <1>3, <2>2 DEF EnableNew, Rollback
  <2>3. CASE HotSwap
    <3>1. CloseListeners(op.old)[<<g, "socks">>] = "serving"
      BY <1>3, <2>3 DEF HotSwap
    <3>2. g # op.old /\ lst[<<g, "socks">>] = "serving"
      BY <1>0, <3>1, Effects
    <3>3. <<g, "socks">> \in refuses
      BY <2>3, <3>2 DEF HotSwap
    <3> QED
      BY <1>0, <3>2, <3>3
  <2>4. CASE DisableOld \/ NewFails \/ Remove
    BY <1>1, <2>4 DEF DisableOld, NewFails, Remove
  <2> QED
    BY <1>2, <1>4, <2>1, <2>2, <2>3, <2>4 DEF Transition, BeginReload, PreflightFails,
       ReloadNothing, NewReady, DropNew, RestorePlaceholder, RollbackSettles, StopJoined
<1>5. ASSUME NEW h \in Gen, NEW q \in Proto, ListenerLoop(h, q) \/ AcceptFails(h, q)
      PROVE  FALSE
  <2>1. PICK r : /\ lst' = [lst EXCEPT ![<<h, q>>] = r]
                 /\ r = "serving" => <<h, q>> \notin refuses
    BY <1>5 DEF ListenerLoop, Bind, Install, Retry, Watch, AcceptFails
  <2>2. refuses' = refuses \/ (q = "http" /\ refuses' = refuses \cup {<<h, q>>})
    BY <1>5 DEF ListenerLoop, Bind, Install, Retry, Watch, AcceptFails, listenerRest
  <2>3. <<g, "socks">> \in refuses
    BY <2>2
  <2>4. CASE <<h, q>> = <<g, "socks">>
    BY <1>0, <2>1, <2>3, <2>4
  <2>5. CASE <<h, q>> # <<g, "socks">>
    BY <1>0, <2>1, <2>3, <2>5
  <2> QED
    BY <2>4, <2>5
<1>6. ASSUME NEW h \in Gen, Drainer(h)
      PROVE  FALSE
  <2>1. ASSUME NEW q \in Proto, DrainBegin(h, q)
        PROVE  FALSE
    <3>1. lst' = [lst EXCEPT ![<<h, q>>] = CloseListener(<<h, q>>)]
          /\ refuses' = refuses \cup {<<h, q>>}
      BY <2>1 DEF DrainBegin
    <3>2. CloseListener(<<h, q>>) # "serving"
      BY DEF CloseListener
    <3>3. CASE <<h, q>> = <<g, "socks">>
      BY <1>0, <3>1, <3>2, <3>3
    <3>4. CASE <<h, q>> # <<g, "socks">>
      BY <1>0, <3>1, <3>4
    <3> QED
      BY <3>3, <3>4
  <2>2. CASE DrainJoin(h) \/ DrainExpires(h) \/ \E q \in Proto : DrainEnd(h, q)
    BY <1>2, <2>2 DEF DrainEnd, DrainJoin, DrainExpires
  <2> QED
    BY <1>6, <2>1, <2>2 DEF Drainer
<1>7. CASE Closing
  BY <1>1, <1>2, <1>7 DEF Closing, CloseTake, CloseShutdown, CloseJoined, CloseDone
<1>8. CASE Administrator \/ Sessions \/ Interrupt \/ UNCHANGED vars
  BY <1>2, <1>8 DEF Administrator, SaveConfig, DeleteRow, Sessions, Accept, SessionEnds,
     Interrupt, vars
<1> QED
  BY <1>4, <1>5, <1>6, <1>7, <1>8 DEF Next

\* A generation leaves the map only after its server was told to refuse.
LEMMA LeftStep == IndInv /\ TypeInv' /\ [Next]_vars => LeftRefuses'
<1> SUFFICES ASSUME IndInv, TypeInv', [Next]_vars, ~closed',
                    NEW g \in 1..ngen', g # instances'
             PROVE  <<g, "socks">> \in refuses'
  BY DEF LeftRefuses
<1>0. /\ TypeOK /\ CallInv /\ ngen \in Nat /\ ngen' \in 0..MaxGen /\ MaxGen \in Nat
      /\ g \in Nat /\ <<g, "socks">> \in Pair
      /\ op \in OpType(ngen) /\ instances \in 0..ngen
  <2>1. /\ TypeOK /\ CallInv /\ ngen \in Nat /\ MaxGen \in Nat
        /\ op \in OpType(ngen) /\ instances \in 0..ngen
    BY Basics DEF IndInv
  <2>2. ngen' \in 0..MaxGen
    BY DEF TypeInv, TypeOK
  <2>3. g \in Nat /\ g \in Gen
    BY <2>1, <2>2 DEF Gen
  <2> QED
    BY <2>1, <2>2, <2>3 DEF Pair, Proto
<1>1. closed \/ (g \in 1..ngen /\ g # instances => <<g, "socks">> \in refuses)
  BY DEF IndInv, LeftRefuses
<1> USE DEF genVars, srvVars, drainVars, closeVars
<1>2. CASE Transition
  <2>0. ~closed
    BY <1>2 DEF closed, Transition, StartAll, BeginReload, PreflightFails, ReloadNothing,
       EnableNew, DisableOld, HotSwap, NewReady, NewFails, DropNew, RestorePlaceholder,
       Rollback, RollbackSettles, Remove, StopJoined
  <2>1. CASE StartAll
    BY <1>0, <1>1, <2>0, <2>1 DEF StartAll, Create, CallInv
  <2>2. CASE EnableNew
    BY <1>0, <1>1, <2>0, <2>2 DEF EnableNew, Create, CallInv, None
  <2>3. CASE DisableOld
    BY <1>0, <1>1, <2>0, <2>3 DEF DisableOld, Shutdown, CallInv
  <2>4. CASE HotSwap
    BY <1>0, <1>1, <2>0, <2>4 DEF HotSwap, Create, CallInv
  <2>5. CASE NewFails
    BY <1>0, <1>1, <2>0, <2>5 DEF NewFails, Shutdown
  <2>6. CASE DropNew \/ RestorePlaceholder
    <3>1. /\ ngen' = ngen /\ refuses' = refuses
          /\ <<op.new, "socks">> \in refuses /\ op.new = instances
      BY <1>0, <2>6 DEF DropNew, RestorePlaceholder, CallInv
    <3> QED
      BY <1>1, <2>0, <3>1
  <2>7. CASE Rollback
    BY <1>0, <1>1, <2>0, <2>7 DEF Rollback, Create, CallInv
  <2>8. CASE Remove
    BY <1>0, <1>1, <2>0, <2>8 DEF Remove, Shutdown
  <2>9. CASE BeginReload \/ PreflightFails \/ ReloadNothing \/ NewReady
             \/ RollbackSettles \/ StopJoined
    BY <1>1, <2>0, <2>9 DEF BeginReload, PreflightFails, ReloadNothing, NewReady,
       RollbackSettles, StopJoined
  <2> QED
    BY <1>2, <2>1, <2>2, <2>3, <2>4, <2>5, <2>6, <2>7, <2>8, <2>9 DEF Transition
<1>3. CASE ~Transition
  <2>1. /\ ngen' = ngen /\ refuses \subseteq refuses' /\ ~closed
        /\ instances' = instances
    BY <1>3, Outside DEF Next, closed, IndInv
  <2> QED
    BY <1>1, <2>1
<1> QED
  BY <1>2, <1>3

\* No goroutine runs in the initial state.
LEMMA InitInd == Init => IndInv
<1> SUFFICES ASSUME Init PROVE IndInv
  OBVIOUS
<1>1. \A g \in Gen, p \in Proto : lst[<<g, p>>] = "off"
  BY DEF Init, Pair
<1>2. NotYet
  BY <1>1 DEF NotYet
<1>3. RefusalEndsLoop
  BY DEF Init, RefusalEndsLoop
<1>4. LeftRefuses
  <2>1. 1..ngen = {}
    BY DEF Init
  <2> QED
    BY <2>1 DEF LeftRefuses
<1> QED
  BY <1>2, <1>3, <1>4, InitType DEF IndInv

\* A SOCKS5 listener other than the current generation's never accepts while the
\* manager is open: whatever its retry loop was doing when the generation left
\* the map, its server refuses to install what the loop binds.
THEOREM OnlyCurrentAccepts == Spec => []OnlyCurrentAcceptsSOCKS
<1>1. Init => IndInv
  BY InitInd
<1>2. IndInv /\ [Next]_vars => IndInv'
  <2>1. IndInv /\ [Next]_vars => TypeInv'
    BY TypeStep, CallStepInv DEF IndInv, TypeInv
  <2> QED
    BY <2>1, NotYetStep, RefusalStep, LeftStep DEF IndInv
<1>3. IndInv => OnlyCurrentAcceptsSOCKS
  <2> SUFFICES ASSUME IndInv, NEW g \in Gen, lst[<<g, "socks">>] = "serving", ~closed
               PROVE  g = instances
    BY DEF OnlyCurrentAcceptsSOCKS
  <2>1. g <= ngen
    <3>1. ngen \in Nat /\ g \in Nat /\ "socks" \in Proto
      BY Basics DEF IndInv, Gen, Proto
    <3> QED
      BY <3>1 DEF IndInv, NotYet
  <2> QED
    BY <2>1 DEF IndInv, RefusalEndsLoop, LeftRefuses, Gen
<1> QED
  BY <1>1, <1>2, <1>3, PTL DEF Spec

-----------------------------------------------------------------------------
(* The SOCKS5 server outlives the requests that dial through it            *)

\* A generation that is not there yet, or has no HTTP server, has nothing of one;
HTTPSilent ==
  \A g \in Gen : g > ngen \/ ~Has(g, "http") =>
    /\ lst[<<g, "http">>] = "off"
    /\ <<g, "http">> \notin ready /\ <<g, "http">> \notin open

\* a drain closes the HTTP server to new requests before it waits for the last one.
DrainOrder ==
  \A g \in Gen :
    /\ drain[g] # "none" => g <= ngen
    /\ drain[g] = "httpWait" => <<g, "http">> \in refuses
    /\ drain[g] \in AfterHTTP =>
         /\ <<g, "http">> \notin open
         /\ <<g, "http">> \in refuses \/ ~Has(g, "http")

DrainInv == TypeInv /\ HTTPSilent /\ DrainOrder

\* What a step may do to a server that refuses, to its sessions and to drains
LEMMA StepBounds ==
  ASSUME TypeInv, [Next]_vars
  PROVE  /\ refuses \subseteq refuses'
         /\ \A g \in Gen : <<g, "http">> \in open' =>
              <<g, "http">> \in open \/ <<g, "http">> \in ready \ refuses
         /\ \A g \in Gen : <<g, "socks">> \in open' =>
              <<g, "socks">> \in open \/ lst[<<g, "socks">>] = "serving"
         /\ \/ drain' = drain
            \/ op.old \in 0..ngen /\ ScheduleDrain(op.old)
            \/ \E g \in Gen : Drainer(g)
<1>0. TypeOK /\ ngen \in Nat /\ op \in OpType(ngen) /\ op.old \in 0..ngen
  BY Basics DEF OpType
<1> USE DEF genVars, srvVars, drainVars, closeVars
<1>1. CASE Transition
  BY <1>0, <1>1 DEF Transition, StartAll, BeginReload, PreflightFails, ReloadNothing,
     EnableNew, DisableOld, HotSwap, NewReady, NewFails, DropNew, RestorePlaceholder,
     Rollback, RollbackSettles, Remove, StopJoined, Shutdown
<1>2. ASSUME NEW h \in Gen, NEW q \in Proto, ListenerLoop(h, q) \/ AcceptFails(h, q)
      PROVE  drain' = drain /\ open' \subseteq open /\ refuses \subseteq refuses'
  BY <1>2 DEF ListenerLoop, Bind, Install, Retry, Watch, AcceptFails, listenerRest
<1>3. ASSUME NEW h \in Gen, Drainer(h)
      PROVE  open' \subseteq open /\ refuses \subseteq refuses'
  BY <1>3 DEF Drainer, DrainBegin, DrainEnd, DrainJoin, DrainExpires, drainRest
<1>4. CASE Sessions
  <2>1. drain' = drain /\ refuses' = refuses
    BY <1>4 DEF Sessions, Accept, SessionEnds
  <2>2. ASSUME NEW h \in Gen, NEW q \in Proto, Accept(h, q)
        PROVE  \A g \in Gen : <<g, "http">> \in open' =>
                 <<g, "http">> \in open \/ <<g, "http">> \in ready \ refuses
    BY <2>2 DEF Accept, Proto
  <2>4. ASSUME NEW h \in Gen, NEW q \in Proto, Accept(h, q)
        PROVE  \A g \in Gen : <<g, "socks">> \in open' =>
                 <<g, "socks">> \in open \/ lst[<<g, "socks">>] = "serving"
    BY <2>4 DEF Accept, Proto
  <2>3. ASSUME NEW h \in Gen, NEW q \in Proto, SessionEnds(h, q)
        PROVE  open' \subseteq open
    BY <2>3 DEF SessionEnds
  <2> QED
    BY <1>4, <2>1, <2>2, <2>3, <2>4 DEF Sessions
<1>5. CASE Administrator \/ Interrupt \/ Closing \/ UNCHANGED vars
  BY <1>5 DEF Administrator, SaveConfig, DeleteRow, Interrupt, Closing, CloseTake,
     CloseShutdown, CloseJoined, CloseDone, Shutdown, closeRest, vars
<1> QED
  BY <1>1, <1>2, <1>3, <1>4, <1>5 DEF Next

\* Generations are numbered in turn, and none changes its configuration.
LEMMA StepCreates ==
  ASSUME TypeInv, [Next]_vars
  PROVE  \/ ngen' = ngen /\ cfgOf' = cfgOf
         \/ /\ ngen + 1 \in Gen /\ ready' = ready /\ open' = open
            /\ \E v \in Versions :
                 /\ Create(ngen + 1, v, lim'[ngen + 1])
                 /\ \E f \in {lst, CloseListeners(op.old)} :
                      lst' = f \/ lst' = Launched(f, ngen + 1, v)
<1>0. TypeOK /\ CallInv /\ MaxGen \in Nat \ {0} /\ ngen \in 0..MaxGen /\ op \in OpType(ngen)
  BY Basics, ManagerAssumption
<1> USE DEF genVars, srvVars, drainVars, closeVars
<1>a. ASSUME NEW v, NEW o, ngen + 1 \in Gen, Create(ngen + 1, v, o)
      PROVE  Create(ngen + 1, v, lim'[ngen + 1])
  BY <1>0, <1>a DEF Create, TypeOK
<1>b. /\ stored.cfg \in Versions
      /\ op.step = "loaded" => op.cfg \in Versions
      /\ \A g \in Gen : cfgOf[g] \in Versions
  BY <1>0 DEF TypeOK, OpType
<1>1. CASE StartAll
  <2>1. CASE stored.row /\ stored.on
    <3>1. ngen + 1 \in Gen
      BY <1>0, <1>1 DEF StartAll, CallInv, Gen
    <3>2. /\ Create(ngen + 1, stored.cfg, ngen + 1) /\ ready' = ready /\ open' = open
          /\ lst' = lst \/ lst' = Launched(lst, ngen + 1, stored.cfg)
      BY <1>1, <2>1 DEF StartAll
    <3> QED
      BY <1>a, <1>b, <3>1, <3>2
  <2>2. CASE ~ (stored.row /\ stored.on)
    BY <1>1, <2>2 DEF StartAll
  <2> QED
    BY <2>1, <2>2
<1>2. CASE EnableNew
  <2>1. ngen + 1 \in Gen
    BY <1>0, <1>2 DEF EnableNew, CallInv, Gen
  <2>2. /\ Create(ngen + 1, op.cfg, ngen + 1) /\ ready' = ready /\ open' = open
        /\ lst' = Launched(lst, ngen + 1, op.cfg) /\ op.step = "loaded"
    BY <1>2 DEF EnableNew
  <2> QED
    BY <1>a, <1>b, <2>1, <2>2
<1>3. CASE HotSwap
  <2>1. ngen + 1 \in Gen
    BY <1>0, <1>3 DEF HotSwap, CallInv, Gen
  <2>2. /\ Create(ngen + 1, op.cfg, lim[op.old]) /\ ready' = ready /\ open' = open
        /\ lst' = Launched(CloseListeners(op.old), ngen + 1, op.cfg) /\ op.step = "loaded"
    BY <1>3 DEF HotSwap
  <2> QED
    BY <1>a, <1>b, <2>1, <2>2
<1>4. CASE Rollback
  <2>1. ngen + 1 \in Gen
    BY <1>0, <1>4 DEF Rollback, CallInv, OpType, Gen
  <2>2. op.old \in Gen
    BY <1>0, <1>4 DEF Rollback, TypeOK, OpType
  <2>3. /\ Create(ngen + 1, cfgOf[op.old], lim[op.old]) /\ ready' = ready /\ open' = open
        /\ lst' = Launched(lst, ngen + 1, cfgOf[op.old])
    BY <1>4 DEF Rollback
  <2> QED
    BY <1>a, <1>b, <2>1, <2>2, <2>3
<1>5. CASE Transition /\ ~StartAll /\ ~EnableNew /\ ~HotSwap /\ ~Rollback
  BY <1>5 DEF Transition, BeginReload, PreflightFails, ReloadNothing,
     DisableOld, NewReady, NewFails, DropNew, RestorePlaceholder, RollbackSettles,
     Remove, StopJoined
<1>6. CASE ~Transition
  <2>1. ngen' = ngen
    BY <1>6, Outside DEF Next
  <2> QED
    BY ZenonT(60), <1>6, <2>1 DEF Next, Administrator, SaveConfig, DeleteRow, ListenerLoop, Bind,
       Install, Retry, Watch, AcceptFails, Sessions, Accept, SessionEnds, Drainer,
       DrainBegin, DrainEnd, DrainJoin, DrainExpires, Interrupt, Closing, CloseTake,
       CloseShutdown, CloseJoined, CloseDone, closeRest, drainRest, listenerRest, vars
<1> QED
  BY <1>1, <1>2, <1>3, <1>4, <1>5, <1>6

\* Nothing starts an HTTP server that is not there.
LEMMA SilentStep == DrainInv /\ TypeInv' /\ [Next]_vars => HTTPSilent'
<1> SUFFICES ASSUME DrainInv, TypeInv', [Next]_vars,
                    NEW g \in Gen, g > ngen' \/ ~Has(g, "http")'
             PROVE  /\ lst'[<<g, "http">>] = "off"
                    /\ <<g, "http">> \notin ready' /\ <<g, "http">> \notin open'
  BY DEF HTTPSilent, Has
<1>0. /\ TypeInv /\ TypeOK /\ ngen \in Nat /\ g \in Nat /\ "http" \in Proto
      /\ <<g, "http">> \in Pair /\ lst \in [Pair -> ListenerState]
      /\ cfgOf \in [Gen -> Versions]
  BY SMTT(30), Basics DEF DrainInv, Gen, Pair, Proto, TypeOK
<1>1. g > ngen \/ ~Has(g, "http")
  BY <1>0, StepCreates DEF Has, Create
<1>2. /\ lst[<<g, "http">>] = "off"
      /\ <<g, "http">> \notin ready /\ <<g, "http">> \notin open
  BY <1>1 DEF DrainInv, HTTPSilent
<1>3. <<g, "http">> \notin open'
  BY <1>0, <1>2, StepBounds
<1>4. CASE ~ (ngen' = ngen /\ cfgOf' = cfgOf)
  <2>1. PICK v \in Versions :
          /\ Create(ngen + 1, v, lim'[ngen + 1])
          /\ \E f \in {lst, CloseListeners(op.old)} :
               lst' = f \/ lst' = Launched(f, ngen + 1, v)
    BY <1>0, <1>4, StepCreates
  <2>2. ready' = ready /\ ngen + 1 \in Gen
    BY <1>0, <1>4, StepCreates
  <2>3. CloseListeners(op.old)[<<g, "http">>] = "off"
    BY <1>0, <1>2, Effects
  <2>4. g = ngen + 1 => v \notin HTTPVersions
    BY <1>0, <2>1, <2>2 DEF Create, Has
  <2>5. \A f : f[<<g, "http">>] = "off" => Launched(f, ngen + 1, v)[<<g, "http">>] = "off"
    BY <1>0, <2>4, Effects
  <2> QED
    BY <1>2, <1>3, <2>1, <2>2, <2>3, <2>5
<1>5. CASE ngen' = ngen /\ cfgOf' = cfgOf
  <2> USE DEF genVars, srvVars, drainVars, closeVars
  <2>1. CASE Transition
    <3>1. ready' \subseteq ready
      BY <2>1 DEF Transition, StartAll, BeginReload, PreflightFails, ReloadNothing,
         EnableNew, DisableOld, HotSwap, NewReady, NewFails, DropNew, RestorePlaceholder,
         Rollback, RollbackSettles, Remove, StopJoined, Shutdown
    <3>2. CASE StartAll \/ EnableNew \/ HotSwap \/ Rollback
      <4>1. StartAll /\ ~ (stored.row /\ stored.on)
        BY <1>0, <1>5, <3>2 DEF StartAll, EnableNew, HotSwap, Rollback, Create
      <4> QED
        BY <1>2, <1>3, <3>1, <4>1 DEF StartAll
    <3>3. CASE ~ (StartAll \/ EnableNew \/ HotSwap \/ Rollback)
      <4>1. lst' = lst \/ \E h : lst' = CloseListeners(h)
        BY <2>1, <3>3 DEF Transition, BeginReload, PreflightFails, ReloadNothing,
           DisableOld, NewReady, NewFails, DropNew, RestorePlaceholder, RollbackSettles,
           Remove, StopJoined, Shutdown
      <4> QED
        BY <1>0, <1>2, <1>3, <3>1, <4>1, Effects
    <3> QED
      BY <3>2, <3>3
  <2>2. ASSUME NEW h \in Gen, NEW q \in Proto, ListenerLoop(h, q) \/ AcceptFails(h, q)
        PROVE  lst'[<<g, "http">>] = "off" /\ <<g, "http">> \notin ready'
    <3>1. PICK r : lst' = [lst EXCEPT ![<<h, q>>] = r]
      BY <2>2 DEF ListenerLoop, Bind, Install, Retry, Watch, AcceptFails
    <3>2. lst[<<h, q>>] # "off" /\ ready' \subseteq ready \cup {<<h, q>>}
      BY <2>2 DEF ListenerLoop, Bind, Install, Retry, Watch, AcceptFails
    <3> QED
      BY <1>0, <1>2, <3>1, <3>2
  <2>3. ASSUME NEW h \in Gen, Drainer(h)
        PROVE  lst'[<<g, "http">>] = "off" /\ <<g, "http">> \notin ready'
    BY <1>0, <1>2, <2>3 DEF Drainer, DrainBegin, DrainEnd, DrainJoin, DrainExpires,
       CloseListener
  <2>4. CASE Closing
    <3>1. ready' \subseteq ready /\ (lst' = lst \/ \E h : lst' = CloseListeners(h))
      BY <2>4 DEF Closing, CloseTake, CloseShutdown, CloseJoined, CloseDone, Shutdown
    <3> QED
      BY <1>0, <1>2, <1>3, <3>1, Effects
  <2>5. CASE Administrator \/ Sessions \/ Interrupt \/ UNCHANGED vars
    <3>1. ready' = ready /\ lst' = lst
      BY <2>5 DEF Administrator, SaveConfig, DeleteRow, Sessions, Accept, SessionEnds,
         Interrupt, vars
    <3> QED
      BY <1>2, <1>3, <3>1
  <2> QED
    BY <1>3, <2>1, <2>2, <2>3, <2>4, <2>5 DEF Next
<1> QED
  BY <1>4, <1>5

\* Each step of a drain keeps the order, and no request starts behind it.
LEMMA OrderStep == DrainInv /\ TypeInv' /\ HTTPSilent' /\ [Next]_vars => DrainOrder'
<1> SUFFICES ASSUME DrainInv, TypeInv', HTTPSilent', [Next]_vars, NEW g \in Gen
             PROVE  /\ drain'[g] # "none" => g <= ngen'
                    /\ drain'[g] = "httpWait" => <<g, "http">> \in refuses'
                    /\ drain'[g] \in AfterHTTP =>
                         /\ <<g, "http">> \notin open'
                         /\ <<g, "http">> \in refuses' \/ ~Has(g, "http")'
  BY DEF DrainOrder, AfterHTTP, Has
<1>0. /\ TypeInv /\ TypeOK /\ ngen \in Nat /\ ngen' \in Nat /\ g \in Nat
      /\ drain \in [Gen -> DrainState] /\ cfgOf \in [Gen -> Versions]
  <2>1. TypeInv /\ TypeOK /\ ngen \in Nat /\ g \in Nat
    BY Basics DEF DrainInv, Gen
  <2>2. ngen' \in Nat
    BY ManagerAssumption DEF TypeInv, TypeOK
  <2> QED
    BY <2>1, <2>2 DEF TypeOK
<1>1. ngen <= ngen' /\ (g <= ngen => (Has(g, "http")' <=> Has(g, "http")))
  BY <1>0, StepCreates DEF Create, Has
<1>2. /\ refuses \subseteq refuses'
      /\ <<g, "http">> \in open' =>
           <<g, "http">> \in open \/ <<g, "http">> \in ready \ refuses
  BY <1>0, StepBounds
<1>3. /\ drain[g] # "none" => g <= ngen
      /\ drain[g] = "httpWait" => <<g, "http">> \in refuses
      /\ drain[g] \in AfterHTTP =>
           /\ <<g, "http">> \notin open
           /\ <<g, "http">> \in refuses \/ ~Has(g, "http")
  BY DEF DrainInv, DrainOrder
<1>4. /\ ~Has(g, "http") => <<g, "http">> \notin ready /\ <<g, "http">> \notin open
      /\ ~Has(g, "http")' => <<g, "http">> \notin open'
  BY DEF DrainInv, HTTPSilent, Has
<1>5. CASE drain'[g] = drain[g]
  BY <1>0, <1>1, <1>2, <1>3, <1>4, <1>5 DEF AfterHTTP
<1>6. CASE op.old \in 0..ngen /\ ScheduleDrain(op.old) /\ drain'[g] # drain[g]
  <2>1. op.old = g /\ drain'[g] = (IF Has(g, "http") THEN "http" ELSE "socks")
    BY <1>0, <1>6 DEF ScheduleDrain
  <2>2. g <= ngen
    BY <1>0, <1>6, <2>1
  <2>3. CASE Has(g, "http")
    BY <1>0, <1>1, <2>1, <2>2, <2>3 DEF AfterHTTP
  <2>4. CASE ~Has(g, "http")
    BY <1>0, <1>1, <1>4, <2>1, <2>2, <2>4
  <2> QED
    BY <2>3, <2>4
<1>7. ASSUME NEW h \in Gen, Drainer(h), drain'[g] # drain[g]
      PROVE  /\ drain'[g] # "none" => g <= ngen'
             /\ drain'[g] = "httpWait" => <<g, "http">> \in refuses'
             /\ drain'[g] \in AfterHTTP =>
                  /\ <<g, "http">> \notin open'
                  /\ <<g, "http">> \in refuses' \/ ~Has(g, "http")'
  <2>1. g = h
    BY <1>0, <1>7 DEF Drainer, DrainBegin, DrainEnd, DrainJoin, DrainExpires
  <2>2. drain[g] # "none" /\ g <= ngen
    BY <1>0, <1>3, <1>7, <2>1 DEF Drainer, DrainBegin, DrainEnd, DrainJoin, DrainExpires, Proto
  <2>3. CASE DrainBegin(g, "http")
    BY <1>0, <1>1, <2>2, <2>3 DEF DrainBegin, AfterHTTP
  <2>4. CASE DrainEnd(g, "http")
    BY <1>0, <1>1, <1>2, <1>3, <2>2, <2>4 DEF DrainEnd, AfterDrain, AfterHTTP
  <2>5. CASE DrainBegin(g, "socks") \/ DrainEnd(g, "socks") \/ DrainJoin(g)
    <3>1. drain[g] \in AfterHTTP /\ drain'[g] # "httpWait"
      BY <1>0, <2>5 DEF DrainBegin, DrainEnd, DrainJoin, AfterDrain, AfterHTTP
    <3> QED
      BY <1>0, <1>1, <1>2, <1>3, <1>4, <2>2, <3>1
  <2>6. CASE DrainExpires(g)
    BY <1>7, <2>6 DEF DrainExpires
  <2> QED
    BY <1>7, <2>1, <2>3, <2>4, <2>5, <2>6 DEF Drainer, Proto
<1> QED
  BY <1>0, <1>5, <1>6, <1>7, StepBounds

LEMMA InitDrain == Init => DrainInv
<1> SUFFICES ASSUME Init PROVE DrainInv
  OBVIOUS
<1>1. \A g \in Gen : <<g, "http">> \in Pair
  BY DEF Pair, Proto
<1>2. HTTPSilent
  BY <1>1 DEF Init, HTTPSilent
<1>3. DrainOrder
  BY DEF Init, DrainOrder, AfterHTTP
<1> QED
  BY <1>2, <1>3, InitType DEF DrainInv

\* The SOCKS5 server of a retired generation is not closed while a request of its HTTP
\* server is open, which may still dial through it (manager.go:614-616).
THEOREM DrainsInOrder == Spec => []HTTPDrainsBeforeSOCKS
<1>1. Init => DrainInv
  BY InitDrain
<1>2. DrainInv /\ [Next]_vars => DrainInv'
  <2>1. DrainInv /\ [Next]_vars => TypeInv'
    BY TypeStep, CallStepInv DEF DrainInv, TypeInv
  <2> QED
    BY <2>1, SilentStep, OrderStep DEF DrainInv
<1>3. DrainInv => HTTPDrainsBeforeSOCKS
  BY DEF DrainInv, DrainOrder, HTTPDrainsBeforeSOCKS, AfterHTTP
<1> QED
  BY <1>1, <1>2, <1>3, PTL DEF Spec

-----------------------------------------------------------------------------
(* What a reload does to the sessions that are there                       *)

\* Between calls nothing is being enabled.
NothingEnabled == op.step = "idle" => ~op.on

LEMMA NothingEnabledStep == TypeInv /\ NothingEnabled /\ [Next]_vars => NothingEnabled'
<1> SUFFICES ASSUME TypeInv, NothingEnabled, [Next]_vars PROVE NothingEnabled'
  OBVIOUS
<1>0. op \in OpType(ngen)
  BY Basics
<1> USE DEF NothingEnabled, genVars, srvVars, drainVars, closeVars
<1>1. CASE op' = op \/ op' = Idle
  BY <1>1 DEF Idle
<1>2. CASE \E g \in Gen : StartupError(g)
  BY <1>2 DEF StartupError
<1>3. CASE Transition
  <2>1. CASE BeginReload \/ EnableNew \/ HotSwap \/ Rollback \/ Remove
    <3>1. op'.step # "idle"
      BY <2>1 DEF BeginReload, EnableNew, HotSwap, Rollback, Remove, Awaiting
    <3> QED
      BY <3>1
  <2>2. CASE DisableOld \/ NewFails
    <3>1. op'.step # "idle"
      BY <1>0, <2>2 DEF DisableOld, NewFails, OpType
    <3> QED
      BY <3>1
  <2>3. CASE ~ (BeginReload \/ EnableNew \/ HotSwap \/ Rollback \/ Remove
                \/ DisableOld \/ NewFails)
    <3>1. op' = Idle
      BY <1>3, <2>3 DEF Transition, StartAll, PreflightFails, ReloadNothing, NewReady,
         DropNew, RestorePlaceholder, RollbackSettles, StopJoined
    <3> QED
      BY <1>1, <3>1
  <2> QED
    BY <2>1, <2>2, <2>3
<1>4. CASE \E g \in Gen, p \in Proto : ListenerLoop(g, p) \/ AcceptFails(g, p)
  BY <1>1, <1>2, <1>4 DEF ListenerLoop, Bind, Install, Retry, Watch, AcceptFails,
     listenerRest
<1>5. CASE Administrator \/ Sessions \/ (\E g \in Gen : Drainer(g)) \/ Interrupt \/ Closing
        \/ UNCHANGED vars
  <2>1. op' = op
    BY <1>5 DEF Administrator, SaveConfig, DeleteRow, Sessions, Accept, SessionEnds, Drainer,
       DrainBegin, DrainEnd, DrainJoin, DrainExpires, drainRest, Interrupt, Closing,
       CloseTake, CloseShutdown, CloseJoined, CloseDone, closeRest, vars
  <2> QED
    BY <1>1, <2>1
<1> QED
  BY <1>3, <1>4, <1>5 DEF Next

\* A Reload that keeps the server enabled, and the drain after it, end no session but those
\* of a replacement that failed and those still open at the drain's deadline or the end of
\* the root context (manager.go:316-452, 593-628).
THEOREM ReloadKeepsSessions == Spec => SessionsSurviveReload
<1>1. Init => TypeInv /\ NothingEnabled
  BY InitType DEF Init, NothingEnabled, Idle
<1>2. NothingEnabled /\ [Next]_vars =>
        [(op' # op /\ op.on) \/ drain' # drain =>
           \A s \in open \ open' : s[1] = op.new \/ s[1] \in expired \/ halted]_vars
  <2> SUFFICES ASSUME NothingEnabled, Next, (op' # op /\ op.on) \/ drain' # drain,
                      NEW s \in open \ open'
               PROVE  s[1] = op.new \/ s[1] \in expired \/ halted
    OBVIOUS
  <2> USE DEF genVars, srvVars, drainVars, closeVars
  <2>1. CASE Transition
    <3>1. CASE DisableOld \/ Remove
      BY <2>1, <3>1 DEF DisableOld, Remove, NothingEnabled
    <3>2. CASE NewFails
      BY <3>2 DEF NewFails, Shutdown
    <3>3. CASE open' = open
      BY <3>3
    <3> QED
      BY <2>1, <3>1, <3>2, <3>3 DEF Transition, StartAll, BeginReload, PreflightFails,
         ReloadNothing, EnableNew, HotSwap, NewReady, DropNew, RestorePlaceholder, Rollback,
         RollbackSettles, StopJoined
  <2>2. ASSUME NEW g \in Gen, NEW p \in Proto, ListenerLoop(g, p) \/ AcceptFails(g, p)
        PROVE  FALSE
    <3>1. drain' = drain /\ (open' = open \/ op' = op)
      BY <2>2 DEF ListenerLoop, Bind, Install, Retry, Watch, AcceptFails, listenerRest
    <3> QED
      BY <3>1
  <2>3. ASSUME NEW g \in Gen, Drainer(g)
        PROVE  s[1] \in expired \/ halted
    <3>1. PICK p \in Proto : DrainEnd(g, p)
      BY <2>3 DEF Drainer, DrainBegin, DrainJoin, DrainExpires
    <3>2. s = <<g, p>> /\ (g \in expired \/ halted)
      BY <3>1 DEF DrainEnd
    <3> QED
      BY <3>2
  <2>4. CASE Administrator \/ Sessions \/ Interrupt \/ Closing
    BY <2>4 DEF Administrator, SaveConfig, DeleteRow, Sessions, Accept, SessionEnds,
       Interrupt, Closing, CloseTake, CloseShutdown, CloseJoined, CloseDone, closeRest
  <2> QED
    BY <2>1, <2>2, <2>3, <2>4 DEF Next
<1>3. TypeInv /\ NothingEnabled /\ [Next]_vars => (TypeInv /\ NothingEnabled)'
  BY TypeStep, CallStepInv, NothingEnabledStep DEF TypeInv
<1> QED
  BY <1>1, <1>2, <1>3, PTL DEF Spec, SessionsSurviveReload

-----------------------------------------------------------------------------
(* No generation is lost, and Close leaves nothing                         *)

\* A server that was shut down accepts nothing and never will.
Shut(g) == \A p \in Proto :
  /\ <<g, p>> \notin open /\ lst[<<g, p>>] # "serving"
  /\ <<g, p>> \in refuses \/ ~Has(g, p)

Quiet(g) == Joined(g) /\ Shut(g)

HandOver == {"waitNew", "stopNew", "waitBack", "disable", "remove"}

\* Somebody will shut g down and wait for it, or has: the map, its drain, Close, or the call
\* in progress;
Owned(g) ==
  \/ g = instances
  \/ drain[g] # "none"
  \/ closed /\ g = victim
  \/ Quiet(g)
  \/ op.step \in HandOver /\ g = op.old

OwnerInv == \A g \in Gen : g <= ngen => Owned(g)

\* the calls that wait for goroutines have shut their servers down before, and Close waits for
\* the call in progress;
CallOwns ==
  /\ \A g \in Gen :
       \/ op.step = "stopNew" /\ g = op.new
       \/ op.step \in {"disable", "remove"} /\ g = op.old
       => Shut(g)
  /\ closed => op.step = "idle" /\ instances = None

\* Close shuts the map's generation down, and waits for it, and for the drains;
CloseOwns ==
  \A g \in Gen :
    /\ closer \in {"join", "drains", "done"} /\ g = victim => Shut(g)
    /\ closer \in {"drains", "done"} /\ g = victim => Joined(g)
    /\ closer = "done" => ~Draining(g)

\* and a drain closes each server for good, ends its sessions and waits for its goroutines.
DrainOwns ==
  \A g \in Gen :
    /\ drain[g] \in {"httpWait"} \cup AfterHTTP => lst[<<g, "http">>] # "serving"
    /\ drain[g] \in {"socksWait", "join", "done"} =>
         <<g, "socks">> \in refuses /\ lst[<<g, "socks">>] # "serving"
    /\ drain[g] \in {"join", "done"} => <<g, "socks">> \notin open
    /\ drain[g] = "done" => Joined(g)

NotUsed == \A g \in Gen : g > ngen => <<g, "socks">> \notin open

LossInv ==
  IndInv /\ DrainInv /\ NotUsed /\ OwnerInv /\ CallOwns /\ CloseOwns /\ DrainOwns

\* What a step may do to a listener of a generation that is there
LEMMA ListenerSteps ==
  ASSUME TypeInv, [Next]_vars, NEW g \in Gen, g <= ngen, NEW p \in Proto
  PROVE  \/ lst'[<<g, p>>] = lst[<<g, p>>]
         \/ /\ lst[<<g, p>>] \notin {"off", "ended"}
            /\ lst'[<<g, p>>] = "serving" => <<g, p>> \notin refuses
<1>0. /\ TypeOK /\ ngen \in Nat /\ g \in Nat /\ <<g, p>> \in Pair
      /\ lst \in [Pair -> ListenerState]
  BY Basics DEF Gen, Pair
<1> USE DEF genVars, srvVars, drainVars, closeVars
<1>1. ASSUME NEW h, lst' = CloseListeners(h)
      PROVE  lst'[<<g, p>>] = lst[<<g, p>>] \/ (lst[<<g, p>>] = "serving" /\ lst'[<<g, p>>] = "ended")
  BY <1>0, <1>1, Effects
<1>2. ASSUME NEW f, NEW v, lst' = Launched(f, ngen + 1, v)
      PROVE  lst'[<<g, p>>] = f[<<g, p>>]
  BY <1>0, <1>2, Effects
<1>3. CASE Transition
  <2>1. CASE StartAll \/ EnableNew \/ Rollback
    <3>1. lst' = lst \/ \E v : lst' = Launched(lst, ngen + 1, v)
      BY <2>1 DEF StartAll, EnableNew, Rollback
    <3> QED
      BY <1>2, <3>1
  <2>2. CASE HotSwap
    <3>1. lst' = Launched(CloseListeners(op.old), ngen + 1, op.cfg)
      BY <2>2 DEF HotSwap
    <3>2. lst'[<<g, p>>] = CloseListeners(op.old)[<<g, p>>]
      BY <1>2, <3>1
    <3> QED
      BY <1>0, <3>2, Effects
  <2>3. CASE ~ (StartAll \/ EnableNew \/ HotSwap \/ Rollback)
    <3>1. lst' = lst \/ \E h : lst' = CloseListeners(h)
      BY <1>3, <2>3 DEF Transition, BeginReload, PreflightFails, ReloadNothing,
         DisableOld, NewReady, NewFails, DropNew, RestorePlaceholder, RollbackSettles,
         Remove, StopJoined, Shutdown
    <3> QED
      BY <1>1, <3>1
  <2> QED
    BY <2>1, <2>2, <2>3
<1>4. ASSUME NEW h \in Gen, NEW q \in Proto, ListenerLoop(h, q) \/ AcceptFails(h, q)
      PROVE  \/ lst'[<<g, p>>] = lst[<<g, p>>]
             \/ /\ lst[<<g, p>>] \notin {"off", "ended"}
                /\ lst'[<<g, p>>] = "serving" => <<g, p>> \notin refuses
  <2>1. PICK r : /\ lst' = [lst EXCEPT ![<<h, q>>] = r]
                 /\ r = "serving" => <<h, q>> \notin refuses
    BY <1>4 DEF ListenerLoop, Bind, Install, Retry, Watch, AcceptFails
  <2>2. lst[<<h, q>>] \notin {"off", "ended"}
    BY <1>4 DEF ListenerLoop, Bind, Install, Retry, Watch, AcceptFails
  <2>3. CASE <<g, p>> = <<h, q>>
    BY <1>0, <2>1, <2>2, <2>3
  <2>4. CASE <<g, p>> # <<h, q>>
    BY <1>0, <2>1, <2>4
  <2> QED
    BY <2>3, <2>4
<1>5. ASSUME NEW h \in Gen, Drainer(h)
      PROVE  lst'[<<g, p>>] = lst[<<g, p>>] \/ (lst[<<g, p>>] = "serving" /\ lst'[<<g, p>>] = "ended")
  BY <1>0, <1>5 DEF Drainer, DrainBegin, DrainEnd, DrainJoin, DrainExpires, CloseListener
<1>6. CASE Closing
  <2>1. lst' = lst \/ \E h : lst' = CloseListeners(h)
    BY <1>6 DEF Closing, CloseTake, CloseShutdown, CloseJoined, CloseDone, Shutdown
  <2> QED
    BY <1>1, <2>1
<1>7. CASE Administrator \/ Sessions \/ Interrupt \/ UNCHANGED vars
  BY <1>7 DEF Administrator, SaveConfig, DeleteRow, Sessions, Accept, SessionEnds, Interrupt,
     vars
<1> QED
  BY <1>3, <1>4, <1>5, <1>6, <1>7 DEF Next

\* What was shut down stays shut, and goroutines that ended do not start again.
LEMMA ShutStays ==
  ASSUME TypeInv, HTTPSilent, [Next]_vars, NEW g \in Gen, g <= ngen
  PROVE  /\ Shut(g) => Shut(g)'
         /\ Joined(g) => Joined(g)'
<1>0. TypeOK /\ ngen \in Nat /\ g \in Nat /\ cfgOf \in [Gen -> Versions]
  BY Basics DEF Gen, TypeOK
<1>1. \A p \in Proto : Has(g, p)' <=> Has(g, p)
  BY <1>0, StepCreates DEF Create, Has
<1>2. ~Has(g, "http") =>
        lst[<<g, "http">>] = "off" /\ <<g, "http">> \notin ready
  BY DEF HTTPSilent
<1>3. ASSUME Shut(g), NEW p \in Proto
      PROVE  /\ <<g, p>> \notin open' /\ lst'[<<g, p>>] # "serving"
             /\ <<g, p>> \in refuses' \/ ~Has(g, p)'
  <2>1. /\ <<g, p>> \notin open /\ lst[<<g, p>>] # "serving"
        /\ <<g, p>> \in refuses \/ ~Has(g, p)
    BY <1>3 DEF Shut
  <2>2. p = "http" \/ p = "socks"
    BY DEF Proto
  <2>3. <<g, p>> \in refuses' \/ ~Has(g, p)'
    BY <1>1, <2>1, StepBounds
  <2>4. <<g, p>> \notin open'
    BY <1>2, <2>1, <2>2, StepBounds DEF Has
  <2>5. lst'[<<g, p>>] # "serving"
    <3>1. CASE <<g, p>> \in refuses
      BY <2>1, <3>1, ListenerSteps
    <3>2. CASE ~Has(g, p)
      <4>1. lst[<<g, p>>] = "off"
        BY <1>2, <2>2, <3>2 DEF Has
      <4> QED
        BY <4>1, ListenerSteps
    <3> QED
      BY <2>1, <3>1, <3>2
  <2> QED
    BY <2>3, <2>4, <2>5
<1>4. Shut(g) => Shut(g)'
  BY <1>3 DEF Shut, Has
<1>5. Joined(g) => Joined(g)'
  BY ListenerSteps DEF Joined
<1> QED
  BY <1>4, <1>5

\* Shutdown shuts.
LEMMA ShutdownShuts ==
  ASSUME TypeOK, NEW g \in Gen, Shutdown(g)
  PROVE  Shut(g)'
<1> SUFFICES ASSUME NEW p \in Proto
             PROVE  /\ <<g, p>> \notin open' /\ lst'[<<g, p>>] # "serving"
                    /\ <<g, p>> \in refuses'
  BY DEF Shut, Has
<1>1. <<g, p>> \in Pair /\ CloseListeners(g)[<<g, p>>] # "serving"
  BY Effects
<1> QED
  BY <1>1 DEF Shutdown

\* Outside the calls and the beginning of Close nobody changes hands.
LEMMA Elsewhere ==
  ASSUME TypeInv, [Next]_vars, ~Transition, ~CloseTake
  PROVE  /\ op'.step = op.step /\ op'.old = op.old /\ op'.new = op.new
         /\ ngen' = ngen /\ instances' = instances /\ victim' = victim
         /\ closer' = "open" <=> closer = "open"
<1> USE DEF genVars, srvVars, drainVars, closeVars
<1>0. op \in OpType(ngen)
  BY Basics
<1>1. ASSUME NEW h \in Gen, NEW q \in Proto, ListenerLoop(h, q) \/ AcceptFails(h, q)
      PROVE  /\ op' = op \/ op' = [op EXCEPT !.err = TRUE]
             /\ ngen' = ngen /\ instances' = instances /\ victim' = victim /\ closer' = closer
  BY <1>1 DEF ListenerLoop, Bind, Install, Retry, Watch, AcceptFails, listenerRest, StartupError
<1>2. CASE Administrator \/ Sessions \/ (\E h \in Gen : Drainer(h)) \/ Interrupt \/ Closing
           \/ UNCHANGED vars
  <2>1. /\ op' = op /\ ngen' = ngen /\ instances' = instances /\ victim' = victim
        /\ closer' = "open" <=> closer = "open"
    BY <1>2 DEF Administrator, SaveConfig, DeleteRow, Sessions, Accept, SessionEnds, Drainer,
       DrainBegin, DrainEnd, DrainJoin, DrainExpires, drainRest, Interrupt, Closing,
       CloseTake, CloseShutdown, CloseJoined, CloseDone, Shutdown, closeRest, vars
  <2> QED
    BY <2>1
<1>3. op' = [op EXCEPT !.err = TRUE] =>
        op'.step = op.step /\ op'.old = op.old /\ op'.new = op.new
  BY <1>0 DEF OpType
<1> QED
  BY <1>1, <1>2, <1>3 DEF Next

\* A drain that was started is not forgotten, and outside the calls none is started.
LEMMA DrainStays ==
  ASSUME TypeInv, [Next]_vars, NEW g \in Gen
  PROVE  /\ drain[g] # "none" => drain'[g] # "none"
         /\ ~Transition /\ ~Draining(g) => ~Draining(g)'
<1>0. TypeOK /\ drain \in [Gen -> DrainState]
  BY Basics DEF TypeOK
<1>1. ASSUME NEW h \in Gen, Drainer(h)
      PROVE  /\ drain[g] # "none" => drain'[g] # "none"
             /\ ~Draining(g) => ~Draining(g)'
  BY <1>0, <1>1 DEF Drainer, DrainBegin, DrainEnd, DrainJoin, DrainExpires, AfterDrain, Proto,
     Draining
<1>2. ScheduleDrain(op.old) => (drain[g] # "none" => drain'[g] # "none")
  BY <1>0 DEF ScheduleDrain
<1>3. ~Transition /\ ~ (\E h \in Gen : Drainer(h)) => drain' = drain
  <2> USE DEF genVars, srvVars, drainVars, closeVars
  <2> QED
    BY ZenonT(60) DEF Next, Administrator, SaveConfig, DeleteRow, ListenerLoop, Bind, Install, Retry,
       Watch, AcceptFails, listenerRest, Sessions, Accept, SessionEnds, Interrupt, Closing,
       CloseTake, CloseShutdown, CloseJoined, CloseDone, Shutdown, closeRest, vars
<1> QED
  BY <1>1, <1>2, <1>3, StepBounds DEF Draining

\* A generation that is not there has no sessions.
LEMMA NotUsedStep == LossInv /\ TypeInv' /\ [Next]_vars => NotUsed'
<1> SUFFICES ASSUME LossInv, TypeInv', [Next]_vars, NEW g \in Gen, g > ngen'
             PROVE  <<g, "socks">> \notin open'
  BY DEF NotUsed
<1>1. TypeInv /\ ngen \in Nat /\ ngen' \in Nat /\ g \in Nat
  <2>1. TypeInv /\ g \in Nat
    BY DEF LossInv, IndInv, Gen
  <2>2. ngen' \in Nat
    BY ManagerAssumption DEF TypeInv, TypeOK
  <2> QED
    BY <2>1, <2>2, Basics
<1>2. ngen <= ngen'
  BY <1>1, StepCreates DEF Create
<1>3. <<g, "socks">> \notin open /\ lst[<<g, "socks">>] = "off"
  <2>1. g > ngen /\ "socks" \in Proto
    BY <1>1, <1>2 DEF Proto
  <2>2. NotUsed /\ NotYet
    BY DEF LossInv, IndInv
  <2> QED
    BY <2>1, <2>2 DEF NotUsed, NotYet
<1> QED
  BY <1>1, <1>3, StepBounds

\* The calls shut down what they wait for.
LEMMA CallOwnsStep == LossInv /\ TypeInv' /\ [Next]_vars => CallOwns'
<1> SUFFICES ASSUME LossInv, TypeInv', [Next]_vars PROVE CallOwns'
  OBVIOUS
<1>0. /\ TypeInv /\ TypeOK /\ CallInv /\ HTTPSilent /\ CallOwns /\ ngen \in Nat
      /\ op \in OpType(ngen) /\ instances \in 0..ngen
  BY Basics DEF LossInv, IndInv, DrainInv
<1>a. op.new \in 0..ngen /\ op.old \in 0..ngen
  BY <1>0 DEF OpType
<1>b. \A g \in Gen : g <= ngen /\ Shut(g) => Shut(g)'
  BY <1>0, ShutStays
<1>c. \A g \in Gen : Shutdown(g) => Shut(g)'
  BY <1>0, ShutdownShuts
<1>d. \A g \in Gen : g = op.new \/ g = op.old => g <= ngen
  BY <1>a, <1>0 DEF Gen
<1> USE DEF genVars, srvVars, drainVars, closeVars
<1>1. CASE ~Transition /\ ~CloseTake
  <2>1. /\ op'.step = op.step /\ op'.old = op.old /\ op'.new = op.new
        /\ instances' = instances /\ (closer' = "open" <=> closer = "open")
    BY <1>0, <1>1, Elsewhere
  <2>2. ASSUME NEW g \in Gen,
               \/ op.step = "stopNew" /\ g = op.new
               \/ op.step \in {"disable", "remove"} /\ g = op.old
        PROVE  Shut(g)'
    BY <1>0, <1>b, <1>d, <2>2 DEF CallOwns
  <2> QED
    BY <1>0, <2>1, <2>2 DEF CallOwns, closed
<1>2. CASE CloseTake
  BY <1>2 DEF CloseTake, CallOwns, closeRest, closed
<1>3. CASE Transition
  <2>1. ~closed'
    <3>1. closer' = closer
      BY <1>3 DEF Transition, StartAll, BeginReload, PreflightFails, ReloadNothing,
         EnableNew, DisableOld, HotSwap, NewReady, NewFails, DropNew, RestorePlaceholder,
         Rollback, RollbackSettles, Remove, StopJoined
    <3>2. ~closed
      BY <1>0, <1>3 DEF CallOwns, Transition, StartAll, BeginReload, PreflightFails,
         ReloadNothing, EnableNew, DisableOld, HotSwap, NewReady, NewFails, DropNew,
         RestorePlaceholder, Rollback, RollbackSettles, Remove, StopJoined
    <3> QED
      BY <3>1, <3>2 DEF closed
  <2>2. CASE DisableOld
    <3>1. op'.step = "disable" /\ op'.old = op.old /\ Shutdown(op.old)
      BY <1>0, <2>2 DEF DisableOld, OpType
    <3>2. \A g \in Gen : g = op.old => Shut(g)'
      BY <1>c, <3>1
    <3> QED
      BY <2>1, <3>1, <3>2 DEF CallOwns
  <2>3. CASE Remove
    <3>1. op'.step = "remove" /\ op'.old = instances /\ Shutdown(instances)
      BY <2>3 DEF Remove
    <3>2. \A g \in Gen : g = instances => Shut(g)'
      BY <1>c, <3>1
    <3> QED
      BY <2>1, <3>1, <3>2 DEF CallOwns
  <2>4. CASE NewFails
    <3>1. op'.step = "stopNew" /\ op'.new = op.new /\ Shutdown(op.new)
      BY <1>0, <2>4 DEF NewFails, OpType
    <3>2. \A g \in Gen : g = op.new => Shut(g)'
      BY <1>c, <3>1
    <3> QED
      BY <2>1, <3>1, <3>2 DEF CallOwns
  <2>5. CASE ~ (DisableOld \/ Remove \/ NewFails)
    <3>1. op'.step \in {"idle", "loaded", "waitNew", "waitBack"}
      <4>1. CASE BeginReload \/ EnableNew \/ HotSwap \/ Rollback
        BY <4>1 DEF BeginReload, EnableNew, HotSwap, Rollback, Awaiting
      <4>2. CASE ~ (BeginReload \/ EnableNew \/ HotSwap \/ Rollback)
        <5>1. op' = Idle
          BY <1>3, <2>5, <4>2 DEF Transition, StartAll, PreflightFails, ReloadNothing,
             NewReady, DropNew, RestorePlaceholder, RollbackSettles, StopJoined
        <5> QED
          BY <5>1 DEF Idle
      <4> QED
        BY <4>1, <4>2
    <3> QED
      BY <2>1, <3>1 DEF CallOwns
  <2> QED
    BY <2>2, <2>3, <2>4, <2>5
<1> QED
  BY <1>1, <1>2, <1>3

\* Whoever gives a generation up has handed it on.
LEMMA OwnerStep == LossInv /\ TypeInv' /\ [Next]_vars => OwnerInv'
<1> SUFFICES ASSUME LossInv, TypeInv', [Next]_vars, NEW g \in Gen, g <= ngen'
             PROVE  Owned(g)'
  BY DEF OwnerInv
<1>0. /\ TypeInv /\ TypeOK /\ CallInv /\ HTTPSilent /\ CallOwns /\ OwnerInv
      /\ ngen \in Nat /\ ngen' \in Nat /\ g \in Nat /\ g # None
      /\ op \in OpType(ngen) /\ instances \in 0..ngen
      /\ drain \in [Gen -> DrainState]
  <2>1. TypeInv /\ HTTPSilent /\ CallOwns /\ OwnerInv /\ g \in Nat /\ g # None
    BY DEF LossInv, IndInv, DrainInv, Gen, None
  <2>2. ngen' \in Nat
    BY ManagerAssumption DEF TypeInv, TypeOK
  <2> QED
    BY <2>1, <2>2, Basics DEF TypeOK
<1> USE DEF genVars, srvVars, drainVars, closeVars
<1>1. CASE g <= ngen /\ Quiet(g)
  BY <1>0, <1>1, ShutStays DEF Owned, Quiet
<1>2. CASE drain[g] # "none"
  BY <1>0, <1>2, DrainStays DEF Owned
<1>3. CASE closed /\ g = victim
  <2>1. ~CloseTake
    BY <1>3 DEF CloseTake, closed
  <2>2. ~Transition
    BY <1>0, <1>3 DEF CallOwns, Transition, StartAll, BeginReload, PreflightFails,
       ReloadNothing, EnableNew, DisableOld, HotSwap, NewReady, NewFails, DropNew,
       RestorePlaceholder, Rollback, RollbackSettles, Remove, StopJoined
  <2> QED
    BY <1>0, <1>3, <2>1, <2>2, Elsewhere DEF Owned, closed
<1>4. CASE g = instances /\ ~Quiet(g)
  <2>1. CASE ~Transition /\ ~CloseTake
    BY <1>0, <1>4, <2>1, Elsewhere DEF Owned
  <2>2. CASE CloseTake
    BY <1>4, <2>2 DEF CloseTake, Owned, closed
  <2>3. CASE DisableOld
    <3>1. op'.step = "disable" /\ op'.old = op.old /\ op.old = instances
      BY <1>0, <2>3 DEF DisableOld, OpType, CallInv
    <3> QED
      BY <1>4, <3>1 DEF Owned, HandOver
  <2>4. CASE HotSwap
    <3>1. op'.step = "waitNew" /\ op'.old = op.old /\ op.old = instances
      BY <1>0, <2>4 DEF HotSwap, Awaiting, CallInv
    <3> QED
      BY <1>4, <3>1 DEF Owned, HandOver
  <2>5. CASE Remove
    BY <1>4, <2>5 DEF Remove, Owned, HandOver
  <2>6. CASE DropNew \/ RestorePlaceholder \/ Rollback
    <3>1. op.step = "stopNew" /\ Joined(op.new) /\ op.new = instances
      BY <1>0, <2>6 DEF DropNew, RestorePlaceholder, Rollback, CallInv
    <3>2. Quiet(g)
      BY <1>0, <1>4, <3>1 DEF CallOwns, Quiet
    <3> QED
      BY <1>4, <3>2
  <2>7. CASE EnableNew \/ StartAll
    BY <1>0, <1>4, <2>7 DEF EnableNew, StartAll, CallInv
  <2>8. CASE instances' = instances
    BY <1>4, <2>8 DEF Owned
  <2> QED
    BY <2>1, <2>2, <2>3, <2>4, <2>5, <2>6, <2>7, <2>8 DEF Transition, BeginReload,
       PreflightFails, ReloadNothing, NewReady, NewFails, RollbackSettles, StopJoined
<1>5. CASE op.step \in HandOver /\ g = op.old /\ ~Quiet(g)
  <2>1. CASE ~Transition /\ ~CloseTake
    BY <1>0, <1>5, <2>1, Elsewhere DEF Owned
  <2>2. CASE NewReady \/ RollbackSettles
    <3>1. ScheduleDrain(g)
      BY <1>0, <1>5, <2>2 DEF NewReady, RollbackSettles
    <3> QED
      BY <1>0, <3>1 DEF ScheduleDrain, Owned
  <2>3. CASE NewFails
    <3>1. op'.step = "stopNew" /\ op'.old = op.old
      BY <1>0, <2>3 DEF NewFails, OpType
    <3> QED
      BY <1>5, <3>1 DEF Owned, HandOver
  <2>4. CASE Rollback
    <3>1. op'.step = "waitBack" /\ op'.old = op.old
      BY <2>4 DEF Rollback, Awaiting
    <3> QED
      BY <1>5, <3>1 DEF Owned, HandOver
  <2>5. CASE RestorePlaceholder
    BY <1>5, <2>5 DEF RestorePlaceholder, Owned
  <2>6. CASE StopJoined
    <3>1. op.step \in {"disable", "remove"} /\ Joined(op.old)
      BY <2>6 DEF StopJoined
    <3>2. Quiet(g)
      BY <1>0, <1>5, <3>1 DEF CallOwns, Quiet
    <3> QED
      BY <1>5, <3>2
  <2>7. CASE DropNew
    BY <1>0, <1>5, <2>7 DEF DropNew
  <2> QED
    BY <1>5, <2>1, <2>2, <2>3, <2>4, <2>5, <2>6, <2>7 DEF Transition, StartAll, BeginReload,
       PreflightFails, ReloadNothing, EnableNew, DisableOld, HotSwap, Remove, CloseTake,
       HandOver
<1>6. CASE g > ngen
  <2>1. ~ (ngen' = ngen /\ cfgOf' = cfgOf) /\ Transition
    BY <1>0, <1>6, Outside DEF Next
  <2>2. ngen' = ngen + 1
    BY <1>0, <2>1, StepCreates DEF Create
  <2>3. instances' = ngen + 1
    BY <1>0, <2>1, <2>2 DEF Transition, StartAll, BeginReload, PreflightFails, ReloadNothing,
       EnableNew, DisableOld, HotSwap, NewReady, NewFails, DropNew, RestorePlaceholder,
       Rollback, RollbackSettles, Remove, StopJoined
  <2> QED
    BY <1>0, <1>6, <2>2, <2>3 DEF Owned
<1>7. g <= ngen => Owned(g)
  BY <1>0 DEF OwnerInv
<1> QED
  BY <1>0, <1>1, <1>2, <1>3, <1>4, <1>5, <1>6, <1>7 DEF Owned

\* Close goes on when what it waits for has ended.
LEMMA CloseOwnsStep == LossInv /\ TypeInv' /\ [Next]_vars => CloseOwns'
<1> SUFFICES ASSUME LossInv, TypeInv', [Next]_vars, NEW g \in Gen
             PROVE  /\ closer' \in {"join", "drains", "done"} /\ g = victim' => Shut(g)'
                    /\ closer' \in {"drains", "done"} /\ g = victim' => Joined(g)'
                    /\ closer' = "done" => ~Draining(g)'
  BY DEF CloseOwns
<1>0. /\ TypeInv /\ TypeOK /\ HTTPSilent /\ CallOwns /\ ngen \in Nat /\ victim \in 0..ngen
      /\ closer \in {"open", "taken", "join", "drains", "done"} /\ g # None
      /\ closer \in {"join", "drains", "done"} /\ g = victim => Shut(g)
      /\ closer \in {"drains", "done"} /\ g = victim => Joined(g)
      /\ closer = "done" => ~Draining(g)
  <2>1. TypeInv /\ HTTPSilent /\ CallOwns /\ CloseOwns /\ g # None
    BY DEF LossInv, IndInv, DrainInv, Gen, None
  <2>2. victim \in 0..ngen /\ closer \in {"open", "taken", "join", "drains", "done"}
    BY <2>1 DEF TypeInv, TypeOK
  <2> QED
    BY <2>1, <2>2, Basics DEF CloseOwns
<1>a. g = victim => g <= ngen
  BY <1>0 DEF Gen
<1>b. g = victim => (Shut(g) => Shut(g)') /\ (Joined(g) => Joined(g)')
  BY <1>0, <1>a, ShutStays
<1> USE DEF genVars, srvVars, drainVars, closeVars
<1>1. CASE CloseShutdown
  <2>1. closer' = "join" /\ victim' = victim
    BY <1>1 DEF CloseShutdown
  <2>2. g = victim => Shutdown(g)
    BY <1>0, <1>1 DEF CloseShutdown
  <2>3. g = victim => Shut(g)'
    BY <1>0, <2>2, ShutdownShuts
  <2> QED
    BY <2>1, <2>3
<1>2. CASE CloseJoined
  <2>1. closer = "join" /\ closer' = "drains" /\ victim' = victim /\ (g = victim => Joined(g))
    BY <1>0, <1>2 DEF CloseJoined
  <2> QED
    BY <1>0, <1>b, <2>1
<1>3. CASE CloseDone
  <2>1. closer = "drains" /\ closer' = "done" /\ victim' = victim /\ ~Draining(g) /\ drain' = drain
    BY <1>3 DEF CloseDone
  <2>2. ~Draining(g)'
    BY <2>1 DEF Draining
  <2> QED
    BY <1>0, <1>b, <2>1, <2>2
<1>4. CASE CloseTake
  BY <1>4 DEF CloseTake
<1>5. CASE ~Closing /\ ~Transition
  <2>1. closer' = closer /\ victim' = victim
    BY ZenonT(60), <1>5 DEF Next, Administrator, SaveConfig, DeleteRow, ListenerLoop, Bind, Install, Retry,
       Watch, AcceptFails, listenerRest, Sessions, Accept, SessionEnds, Drainer,
       DrainBegin, DrainEnd, DrainJoin, DrainExpires, drainRest, Interrupt, closeRest, vars
  <2>2. ~Draining(g) => ~Draining(g)'
    BY <1>0, <1>5, DrainStays
  <2> QED
    BY <1>0, <1>b, <2>1, <2>2
<1>6. CASE Transition
  <2>1. closer' = closer
    BY <1>6 DEF Transition, StartAll, BeginReload, PreflightFails, ReloadNothing,
       EnableNew, DisableOld, HotSwap, NewReady, NewFails, DropNew, RestorePlaceholder,
       Rollback, RollbackSettles, Remove, StopJoined
  <2>2. ~closed
    BY <1>0, <1>6 DEF CallOwns, Transition, StartAll, BeginReload, PreflightFails,
       ReloadNothing, EnableNew, DisableOld, HotSwap, NewReady, NewFails, DropNew,
       RestorePlaceholder, Rollback, RollbackSettles, Remove, StopJoined
  <2> QED
    BY <2>1, <2>2 DEF closed
<1> QED
  BY <1>1, <1>2, <1>3, <1>4, <1>5, <1>6 DEF Closing

\* A drain goes on to the next server when the one before is closed for good.
LEMMA DrainOwnsStep == LossInv /\ TypeInv' /\ HTTPSilent' /\ [Next]_vars => DrainOwns'
<1> DEFINE Closed(g) ==
      /\ drain[g] \in {"httpWait"} \cup AfterHTTP => lst[<<g, "http">>] # "serving"
      /\ drain[g] \in {"socksWait", "join", "done"} =>
           <<g, "socks">> \in refuses /\ lst[<<g, "socks">>] # "serving"
      /\ drain[g] \in {"join", "done"} => <<g, "socks">> \notin open
      /\ drain[g] = "done" => Joined(g)
<1> SUFFICES ASSUME LossInv, TypeInv', HTTPSilent', [Next]_vars, NEW g \in Gen
             PROVE  Closed(g)'
  BY DEF DrainOwns
<1>0. /\ TypeInv /\ TypeOK /\ HTTPSilent /\ DrainOrder /\ Closed(g)
      /\ g \in Nat /\ ngen \in Nat /\ <<g, "http">> \in Pair /\ <<g, "socks">> \in Pair
      /\ lst \in [Pair -> ListenerState] /\ drain \in [Gen -> DrainState]
      /\ cfgOf \in [Gen -> Versions]
  <2>1. TypeInv /\ HTTPSilent /\ DrainOrder /\ DrainOwns
    BY DEF LossInv, IndInv, DrainInv
  <2>2. g \in Nat /\ <<g, "http">> \in Pair /\ <<g, "socks">> \in Pair
    BY DEF Gen, Pair, Proto
  <2> QED
    BY <2>1, <2>2, Basics DEF DrainOwns, TypeOK
<1>a. /\ drain[g] # "none" => g <= ngen
      /\ drain[g] \in {"httpWait"} \cup AfterHTTP =>
           <<g, "http">> \in refuses \/ lst[<<g, "http">>] = "off"
  BY <1>0 DEF DrainOrder, HTTPSilent, AfterHTTP
<1>b. ASSUME g <= ngen, NEW p \in Proto, lst[<<g, p>>] # "serving",
             <<g, p>> \in refuses \/ lst[<<g, p>>] = "off"
      PROVE  lst'[<<g, p>>] # "serving"
  BY <1>0, <1>b, ListenerSteps
<1>c. drain[g] \in {"httpWait"} \cup AfterHTTP => lst'[<<g, "http">>] # "serving"
  BY <1>0, <1>a, <1>b DEF Proto, AfterHTTP
<1>d. drain[g] \in {"socksWait", "join", "done"} =>
        <<g, "socks">> \in refuses' /\ lst'[<<g, "socks">>] # "serving"
  BY <1>0, <1>a, <1>b, StepBounds DEF Proto
<1>e. drain[g] \in {"join", "done"} => <<g, "socks">> \notin open'
  BY <1>0, StepBounds
<1>f. drain[g] = "done" => Joined(g)'
  BY <1>0, <1>a, ShutStays
<1>1. CASE drain'[g] = drain[g]
  BY <1>1, <1>c, <1>d, <1>e, <1>f
<1>2. CASE op.old \in 0..ngen /\ ScheduleDrain(op.old) /\ drain'[g] # drain[g]
  <2>1. op.old = g /\ drain'[g] = (IF Has(g, "http") THEN "http" ELSE "socks")
    BY <1>0, <1>2 DEF ScheduleDrain
  <2>2. Has(g, "http")' <=> Has(g, "http")
    BY <1>0, <1>2, <2>1, StepCreates DEF Create, Has
  <2>3. ~Has(g, "http") => lst'[<<g, "http">>] = "off"
    BY <2>2 DEF HTTPSilent
  <2> QED
    BY <2>1, <2>3 DEF AfterHTTP
<1>3. ASSUME NEW h \in Gen, Drainer(h), drain'[g] # drain[g]
      PROVE  Closed(g)'
  <2>1. g = h
    BY <1>0, <1>3 DEF Drainer, DrainBegin, DrainEnd, DrainJoin, DrainExpires
  <2>2. CASE DrainBegin(g, "http")
    <3>1. drain'[g] = "httpWait" /\ lst'[<<g, "http">>] # "serving"
      BY <1>0, <2>2 DEF DrainBegin, CloseListener
    <3> QED
      BY <3>1 DEF AfterHTTP
  <2>3. CASE DrainBegin(g, "socks")
    <3>1. /\ drain[g] = "socks" /\ drain'[g] = "socksWait" /\ lst'[<<g, "socks">>] # "serving"
          /\ <<g, "socks">> \in refuses'
      BY <1>0, <2>3 DEF DrainBegin, CloseListener
    <3> QED
      BY <1>c, <3>1 DEF AfterHTTP
  <2>4. CASE DrainEnd(g, "http")
    <3>1. drain[g] = "httpWait" /\ drain'[g] = "socks"
      BY <1>0, <2>4 DEF DrainEnd, AfterDrain
    <3> QED
      BY <1>c, <3>1 DEF AfterHTTP
  <2>5. CASE DrainEnd(g, "socks")
    <3>1. drain[g] = "socksWait" /\ drain'[g] = "join" /\ <<g, "socks">> \notin open'
      BY <1>0, <2>5 DEF DrainEnd, AfterDrain
    <3> QED
      BY <1>c, <1>d, <3>1 DEF AfterHTTP
  <2>6. CASE DrainJoin(g)
    <3>1. drain[g] = "join" /\ drain'[g] = "done" /\ Joined(g)
      BY <1>0, <2>6 DEF DrainJoin
    <3>2. Joined(g)'
      BY <1>0, <1>a, <3>1, ShutStays
    <3> QED
      BY <1>c, <1>d, <1>e, <3>1, <3>2 DEF AfterHTTP
  <2>7. CASE DrainExpires(g)
    BY <1>3, <2>7 DEF DrainExpires
  <2> QED
    BY <1>3, <2>1, <2>2, <2>3, <2>4, <2>5, <2>6, <2>7 DEF Drainer, Proto
<1> QED
  BY <1>0, <1>1, <1>2, <1>3, StepBounds

LEMMA InitLoss == Init => LossInv
<1> SUFFICES ASSUME Init PROVE LossInv
  OBVIOUS
<1>1. ngen = 0 /\ op.step = "start" /\ closer = "open" /\ open = {}
      /\ drain = [g \in Gen |-> "none"]
  BY DEF Init, Idle
<1>2. \A g \in Gen : ~ (g <= 0)
  BY DEF Gen
<1>3. NotUsed /\ OwnerInv /\ CallOwns /\ CloseOwns
  BY <1>1, <1>2 DEF NotUsed, OwnerInv, CallOwns, CloseOwns, closed
<1>4. DrainOwns
  BY <1>1 DEF DrainOwns, AfterHTTP
<1> QED
  BY <1>3, <1>4, InitInd, InitDrain DEF LossInv

LEMMA LossStep == LossInv /\ [Next]_vars => LossInv'
<1> SUFFICES ASSUME LossInv, [Next]_vars PROVE LossInv'
  OBVIOUS
<1>1. IndInv /\ DrainInv
  BY DEF LossInv
<1>2. IndInv' /\ TypeInv'
  <2>1. TypeInv'
    BY <1>1, TypeStep, CallStepInv DEF IndInv, TypeInv
  <2> QED
    BY <1>1, <2>1, NotYetStep, RefusalStep, LeftStep DEF IndInv
<1>3. DrainInv' /\ HTTPSilent'
  BY <1>1, <1>2, SilentStep, OrderStep DEF DrainInv
<1> QED
  BY <1>2, <1>3, NotUsedStep, OwnerStep, CallOwnsStep, CloseOwnsStep, DrainOwnsStep
     DEF LossInv

\* Every generation has an owner: that is why none is lost.
LEMMA OwnersLoseNothing == LossInv => NoOrphan /\ CloseLeavesNothing
<1> SUFFICES ASSUME LossInv PROVE NoOrphan /\ CloseLeavesNothing
  OBVIOUS
<1>0. /\ OwnerInv /\ CallOwns /\ CloseOwns /\ DrainOwns /\ NotUsed /\ NotYet /\ HTTPSilent
      /\ DrainOrder /\ TypeOK /\ ngen \in 0..MaxGen /\ ngen \in Nat
  BY Basics DEF LossInv, IndInv, DrainInv
<1>1. NoOrphan
  <2> SUFFICES ASSUME op.step = "idle", NEW g \in 1..ngen
               PROVE  \/ g = instances
                      \/ drain[g] # "none"
                      \/ closed /\ g = victim
                      \/ Joined(g) /\ \A p \in Proto : <<g, p>> \notin open
    BY DEF NoOrphan
  <2>1. g \in Gen /\ g <= ngen
    BY <1>0, ManagerAssumption DEF Gen
  <2> QED
    BY <1>0, <2>1 DEF OwnerInv, Owned, HandOver, Quiet, Shut
<1>2. CloseLeavesNothing
  <2> SUFFICES ASSUME closer = "done"
               PROVE  instances = None /\ open = {} /\ \A g \in Gen : Joined(g)
    BY DEF CloseLeavesNothing
  <2>1. instances = None /\ op.step = "idle"
    BY <1>0 DEF CallOwns, closed
  <2>2. ASSUME NEW g \in Gen
        PROVE  Joined(g) /\ \A p \in Proto : <<g, p>> \notin open
    <3>1. CASE g > ngen
      BY <1>0, <3>1 DEF NotUsed, NotYet, HTTPSilent, Joined, Proto
    <3>2. CASE drain[g] # "none"
      <4>1. drain[g] = "done"
        BY <1>0, <3>2 DEF CloseOwns, Draining
      <4> QED
        BY <1>0, <4>1 DEF DrainOwns, DrainOrder, AfterHTTP, Proto
    <3>3. CASE g = victim
      BY <1>0, <3>3 DEF CloseOwns, Shut
    <3>4. CASE Quiet(g)
      BY <3>4 DEF Quiet, Shut
    <3>5. g <= ngen \/ g > ngen
      BY <1>0 DEF Gen
    <3>6. g # instances
      BY <2>1 DEF Gen, None
    <3> QED
      BY <1>0, <2>1, <3>1, <3>2, <3>3, <3>4, <3>5, <3>6 DEF OwnerInv, Owned, HandOver
  <2>3. open \subseteq Pair
    BY <1>0 DEF TypeOK
  <2> QED
    BY <2>1, <2>2, <2>3 DEF Pair
<1> QED
  BY <1>1, <1>2

-----------------------------------------------------------------------------
(* The limits follow the configuration, and generations share them         *)

\* The maxima in force are those of the map's generation, in the middle of a call too.
LimitsFit == instances # None => limMax[lim[instances]] = cfgOf[instances]

\* While nobody writes the configuration there is one object of limits, that of the first
\* generation, and the calls put back what was stored.
OneObject ==
  saves = 0 =>
    /\ stored.row
    /\ ngen >= 1 => stored.on /\ op.step # "start" /\ (closed \/ instances # None)
    /\ ngen = 0 => op.step = "start" \/ ~stored.on
    /\ op.step \in {"loaded", "waitNew", "stopNew", "waitBack"} =>
         op.on = stored.on /\ op.cfg = stored.cfg
    /\ op.step \in {"waitNew", "stopNew"} => op.old # None
    /\ \A g \in Gen : g <= ngen => lim[g] = 1 /\ cfgOf[g] = stored.cfg
    /\ ngen >= 1 => limMax[1] = stored.cfg

\* What is open fits the one budget.
OpenFits ==
  IsFiniteSet(open) /\ (saves = 0 => Cardinality(open) <= Limit[stored.cfg])

LimitsInv == LossInv /\ LimitsFit /\ OneObject /\ OpenFits

\* A replacement gets its limits' maxima with its limits.
LEMMA LimitsFitStep == LimitsInv /\ [Next]_vars => LimitsFit'
<1> SUFFICES ASSUME LimitsInv, [Next]_vars PROVE LimitsFit'
  OBVIOUS
<1>0. /\ TypeInv /\ TypeOK /\ CallInv /\ LimitsFit /\ ngen \in Nat /\ op \in OpType(ngen)
      /\ lim \in [Gen -> Gen] /\ limMax \in [Gen -> Versions] /\ cfgOf \in [Gen -> Versions]
  <2>1. TypeInv /\ LimitsFit
    BY DEF LimitsInv, LossInv, IndInv
  <2> QED
    BY <2>1, Basics DEF TypeOK
<1>a. op.old # None => op.old \in Gen
  <2>1. op.old \in 0..ngen /\ ngen \in 0..MaxGen
    BY <1>0, Basics DEF OpType
  <2> QED
    BY <2>1, ManagerAssumption DEF Gen, None
<1>b. op.step \in {"loaded", "stopNew"} => ngen + 1 \in Gen
  <2>0. MaxGen \in Nat
    BY ManagerAssumption
  <2>1. CASE op.step = "loaded"
    <3>1. ngen + 2 <= MaxGen
      BY <1>0, <2>1 DEF CallInv
    <3> QED
      BY <1>0, <2>0, <3>1 DEF Gen
  <2>2. CASE op.step = "stopNew"
    <3>1. ngen + 1 <= MaxGen
      BY <1>0, <2>2 DEF CallInv
    <3> QED
      BY <1>0, <2>0, <3>1 DEF Gen
  <2> QED
    BY <2>1, <2>2
<1>1. \A v : \A o \in Gen : ngen + 1 \in Gen /\ Create(ngen + 1, v, o) =>
        limMax'[lim'[ngen + 1]] = cfgOf'[ngen + 1]
  BY <1>0 DEF Create
<1> USE DEF genVars, srvVars, drainVars, closeVars
<1>2. CASE StartAll /\ stored.row /\ stored.on
  <2>1. ngen + 1 \in Gen
    BY <1>0, <1>2, ManagerAssumption DEF StartAll, CallInv, Gen
  <2>2. Create(ngen + 1, stored.cfg, ngen + 1) /\ instances' = ngen + 1
    BY <1>2 DEF StartAll
  <2> QED
    BY <1>1, <2>1, <2>2 DEF LimitsFit
<1>3. CASE EnableNew
  <2>1. ngen + 1 \in Gen
    BY <1>0, <1>3, Basics, ManagerAssumption DEF EnableNew, CallInv, Gen
  <2>2. Create(ngen + 1, op.cfg, ngen + 1) /\ instances' = ngen + 1
    BY <1>3 DEF EnableNew
  <2> QED
    BY <1>1, <2>1, <2>2 DEF LimitsFit
<1>4. CASE HotSwap \/ Rollback
  <2>1. ngen + 1 \in Gen /\ op.old \in Gen
    BY <1>a, <1>b, <1>4 DEF HotSwap, Rollback
  <2>2. /\ \E v : Create(ngen + 1, v, lim[op.old])
        /\ instances' = ngen + 1
    BY <1>4 DEF HotSwap, Rollback
  <2> QED
    BY <1>0, <1>1, <2>1, <2>2 DEF LimitsFit
<1>5. CASE RestorePlaceholder
  <2>1. op.old \in Gen
    BY <1>a, <1>5 DEF RestorePlaceholder
  <2> QED
    BY <1>0, <1>5, <2>1 DEF RestorePlaceholder, LimitsFit
<1>6. CASE Transition /\ ~ (StartAll /\ stored.row /\ stored.on) /\ ~EnableNew /\ ~HotSwap
           /\ ~Rollback /\ ~RestorePlaceholder
  <2>1. lim' = lim /\ limMax' = limMax /\ cfgOf' = cfgOf /\ instances' \in {instances, None}
    BY <1>6 DEF Transition, StartAll, BeginReload, PreflightFails, ReloadNothing, DisableOld,
       NewReady, NewFails, DropNew, RollbackSettles, Remove, StopJoined
  <2> QED
    BY <1>0, <2>1 DEF LimitsFit
<1>7. CASE ~Transition
  <2>1. lim' = lim /\ limMax' = limMax /\ cfgOf' = cfgOf /\ instances' \in {instances, None}
    BY ZenonT(60), <1>7 DEF Next, Administrator, SaveConfig, DeleteRow, ListenerLoop, Bind, Install, Retry,
       Watch, AcceptFails, listenerRest, Sessions, Accept, SessionEnds, Drainer,
       DrainBegin, DrainEnd, DrainJoin, DrainExpires, drainRest, Interrupt, Closing,
       CloseTake, CloseShutdown, CloseJoined, CloseDone, closeRest, vars
  <2> QED
    BY <1>0, <2>1 DEF LimitsFit
<1> QED
  BY <1>2, <1>3, <1>4, <1>5, <1>6, <1>7

\* The calls write to the row what is in it.
LEMMA OneObjectStep ==
  LimitsInv /\ TypeInv' /\ [Next]_vars /\ saves' = 0 => saves = 0 /\ stored' = stored /\ OneObject'
<1> SUFFICES ASSUME LimitsInv, TypeInv', [Next]_vars, saves' = 0
             PROVE  saves = 0 /\ stored' = stored /\ OneObject'
  OBVIOUS
<1>0. /\ TypeInv /\ TypeOK /\ CallInv /\ CallOwns /\ OneObject
      /\ ngen \in Nat /\ op \in OpType(ngen) /\ instances \in 0..ngen /\ saves \in Nat
      /\ stored \in [row : BOOLEAN, on : BOOLEAN, cfg : Versions]
      /\ lim \in [Gen -> Gen] /\ limMax \in [Gen -> Versions] /\ cfgOf \in [Gen -> Versions]
  <2>1. TypeInv /\ CallOwns /\ OneObject
    BY DEF LimitsInv, LossInv, IndInv
  <2>2. saves \in Nat
    BY <2>1, ManagerAssumption DEF TypeInv, TypeOK
  <2> QED
    BY <2>1, <2>2, Basics DEF TypeOK
<1>a. \A g : g \in 0..ngen /\ g # None => g \in Gen /\ g <= ngen
  BY <1>0, Basics DEF Gen, None
<1>b. op.old \in 0..ngen
  BY <1>0 DEF OpType
<1> USE DEF genVars, srvVars, drainVars, closeVars
<1>1. ~Administrator
  BY <1>0 DEF Administrator, SaveConfig, DeleteRow
<1>2. CASE ~Transition
  <2>1. /\ saves' = saves /\ stored' = stored /\ ngen' = ngen
        /\ lim' = lim /\ limMax' = limMax /\ cfgOf' = cfgOf
        /\ op' = op \/ op' = [op EXCEPT !.err = TRUE]
        /\ (instances' = instances /\ (closed => closed')) \/ closed'
    BY ZenonT(60), <1>1, <1>2 DEF Next, ListenerLoop, Bind, Install, Retry, StartupError,
       Watch, AcceptFails, listenerRest, Sessions, Accept, SessionEnds, Drainer,
       DrainBegin, DrainEnd, DrainJoin, DrainExpires, drainRest, Interrupt, Closing,
       CloseTake, CloseShutdown, CloseJoined, CloseDone, closeRest, vars, closed
  <2>2. op'.step = op.step /\ op'.on = op.on /\ op'.cfg = op.cfg /\ op'.old = op.old
    BY <1>0, <2>1 DEF OpType
  <2> QED
    BY <1>0, <2>1, <2>2 DEF OneObject
<1>3. CASE Transition
  <2>1. saves' = saves /\ closer' = closer
    BY <1>3 DEF Transition, StartAll, BeginReload, PreflightFails, ReloadNothing,
       EnableNew, DisableOld, HotSwap, NewReady, NewFails, DropNew, RestorePlaceholder,
       Rollback, RollbackSettles, Remove, StopJoined
  <2>2. ~closed /\ ~closed'
    <3>1. ~closed
      BY <1>0, <1>3 DEF CallOwns, Transition, StartAll, BeginReload, PreflightFails,
         ReloadNothing, EnableNew, DisableOld, HotSwap, NewReady, NewFails, DropNew,
         RestorePlaceholder, Rollback, RollbackSettles, Remove, StopJoined
    <3> QED
      BY <2>1, <3>1 DEF closed
  <2>3. /\ stored.row
        /\ ngen >= 1 => stored.on /\ op.step # "start" /\ instances # None
        /\ ngen = 0 => op.step = "start" \/ ~stored.on
        /\ op.step \in {"loaded", "waitNew", "stopNew", "waitBack"} =>
             op.on = stored.on /\ op.cfg = stored.cfg
        /\ op.step \in {"waitNew", "stopNew"} => op.old # None
        /\ \A g \in Gen : g <= ngen => lim[g] = 1 /\ cfgOf[g] = stored.cfg
        /\ ngen >= 1 => limMax[1] = stored.cfg
    BY <1>0, <2>1, <2>2 DEF OneObject
  <2>4. op.step = "loaded" /\ op.on => op.old # None
    <3> SUFFICES ASSUME op.step = "loaded", op.on
                 PROVE  op.old # None
      OBVIOUS
    <3>1. stored.on /\ op.old = instances
      BY <1>0, <2>3 DEF CallInv
    <3>2. ngen >= 1
      BY <1>0, <2>3, <3>1
    <3> QED
      BY <2>3, <3>1, <3>2
  <2>5. op.old # None => ngen >= 1 /\ stored.on /\ lim[op.old] = 1 /\ cfgOf[op.old] = stored.cfg
    BY <1>0, <1>a, <1>b, <2>3 DEF None
  <2>6. \A v, on : SaveRuntime(v, on) /\ v = stored.cfg /\ on = stored.on => stored' = stored
    BY <1>0, <2>3 DEF SaveRuntime
  <2>7. Idle.step = "idle"
    BY DEF Idle
  <2>8. CASE StartAll
    <3>1. ngen = 0 /\ stored' = stored /\ op' = Idle
      BY <1>0, <2>8 DEF StartAll, CallInv
    <3>2. CASE ~stored.on
      <4>1. ngen' = ngen /\ lim' = lim /\ cfgOf' = cfgOf /\ limMax' = limMax
        BY <2>8, <3>2 DEF StartAll
      <4> QED
        BY <2>1, <2>3, <2>7, <3>1, <3>2, <4>1 DEF OneObject
    <3>3. CASE stored.on
      <4>1. Create(1, stored.cfg, 1) /\ instances' = 1
        BY <2>3, <2>8, <3>1, <3>3 DEF StartAll
      <4>2. 1 \in Gen
        BY ManagerAssumption DEF Gen
      <4>3. ngen' = 1 /\ lim'[1] = 1 /\ cfgOf'[1] = stored.cfg /\ limMax'[1] = stored.cfg
        BY <1>0, <4>1, <4>2 DEF Create
      <4>4. \A g \in Gen : g <= 1 => g = 1
        BY DEF Gen
      <4>5. instances' # None /\ op'.step = "idle" /\ ~ (ngen' = 0)
        BY <2>7, <3>1, <4>1, <4>3 DEF None
      <4>6. \A g \in Gen : g <= ngen' => lim'[g] = 1 /\ cfgOf'[g] = stored.cfg
        BY <4>3, <4>4
      <4> QED
        BY <2>1, <2>3, <3>1, <3>3, <4>3, <4>5, <4>6 DEF OneObject
    <3> QED
      BY <3>2, <3>3
  <2>9. CASE EnableNew \/ Remove \/ DropNew
    BY <2>3, <2>4, <2>9 DEF EnableNew, Remove, DropNew
  <2>10. CASE DisableOld
    BY <2>3, <2>5, <2>10 DEF DisableOld
  <2>11. CASE HotSwap \/ Rollback
    <3>1. /\ op.old # None /\ ngen + 1 \in Gen /\ instances' = ngen + 1 /\ stored' = stored
          /\ op'.step \in {"waitNew", "waitBack"} /\ op'.on = op.on /\ op'.cfg = op.cfg
          /\ op'.old = op.old /\ op.step \in {"loaded", "stopNew"}
          /\ ngen \in Nat /\ 1 \in Gen
      <4>1. op.step \in {"loaded", "stopNew"}
        BY <2>11 DEF HotSwap, Rollback
      <4>2. ngen + 1 \in Gen /\ 1 \in Gen
        <5>0. MaxGen \in Nat \ {0} /\ ngen \in Nat
          BY <1>0, ManagerAssumption
        <5>1. CASE op.step = "loaded"
          <6>1. ngen + 2 <= MaxGen
            BY <1>0, <5>1 DEF CallInv
          <6> QED
            BY <5>0, <6>1 DEF Gen
        <5>2. CASE op.step = "stopNew"
          <6>1. ngen + 1 <= MaxGen
            BY <1>0, <5>2 DEF CallInv
          <6> QED
            BY <5>0, <6>1 DEF Gen
        <5> QED
          BY <4>1, <5>1, <5>2
      <4>3. CASE HotSwap
        BY <1>0, <4>1, <4>2, <4>3 DEF HotSwap, Awaiting
      <4>4. CASE Rollback
        BY <1>0, <4>1, <4>2, <4>4 DEF Rollback, Awaiting
      <4> QED
        BY <2>11, <4>3, <4>4
    <3>2. Create(ngen + 1, stored.cfg, 1)
      BY <2>3, <2>5, <2>11, <3>1 DEF HotSwap, Rollback
    <3>3. /\ ngen' = ngen + 1 /\ limMax'[1] = stored.cfg
          /\ \A g \in Gen : g <= ngen' => lim'[g] = 1 /\ cfgOf'[g] = stored.cfg
      BY <1>0, <2>3, <3>1, <3>2 DEF Create, Gen
    <3> QED
      BY <2>1, <2>3, <2>5, <3>1, <3>3 DEF OneObject, None
  <2>12. CASE PreflightFails \/ RestorePlaceholder \/ RollbackSettles
    <3>1. op.old # None
      BY <1>0, <2>4, <2>12 DEF PreflightFails, RestorePlaceholder, RollbackSettles, CallInv
    <3>2. SaveRuntime(cfgOf[op.old], TRUE)
      BY <2>12, <3>1 DEF PreflightFails, RestorePlaceholder, RollbackSettles
    <3>3. stored' = stored
      BY <2>5, <2>6, <3>1, <3>2
    <3>4. /\ op' = Idle /\ ngen' = ngen /\ lim' = lim /\ cfgOf' = cfgOf /\ instances' # None
          /\ limMax' = limMax \/ limMax' = [limMax EXCEPT ![lim[op.old]] = cfgOf[op.old]]
      BY <2>3, <2>5, <2>12, <3>1 DEF PreflightFails, RestorePlaceholder, RollbackSettles
    <3>5. limMax'[1] = stored.cfg
      BY <1>0, <2>3, <2>5, <3>1, <3>4
    <3> QED
      BY <2>1, <2>3, <2>5, <2>7, <3>1, <3>3, <3>4, <3>5 DEF OneObject
  <2>13. CASE BeginReload
    <3>1. /\ stored' = stored /\ ngen' = ngen /\ lim' = lim /\ cfgOf' = cfgOf /\ limMax' = limMax
          /\ instances' = instances /\ op'.step = "loaded" /\ op'.on = stored.on
          /\ op'.cfg = stored.cfg /\ op.step = "idle"
      BY <2>13 DEF BeginReload
    <3> QED
      BY <2>1, <2>3, <3>1 DEF OneObject
  <2>14. CASE NewFails
    <3>1. /\ stored' = stored /\ ngen' = ngen /\ lim' = lim /\ cfgOf' = cfgOf /\ limMax' = limMax
          /\ instances' = instances /\ op'.step = "stopNew" /\ op'.on = op.on
          /\ op'.cfg = op.cfg /\ op'.old = op.old /\ op.step = "waitNew"
      BY <1>0, <2>14 DEF NewFails, OpType
    <3> QED
      BY <2>1, <2>3, <3>1 DEF OneObject
  <2>15. CASE ReloadNothing \/ NewReady \/ StopJoined
    <3>1. /\ stored' = stored /\ ngen' = ngen /\ lim' = lim /\ cfgOf' = cfgOf /\ limMax' = limMax
          /\ instances' = instances /\ op' = Idle /\ op.step # "start"
      BY <2>15 DEF ReloadNothing, NewReady, StopJoined
    <3> QED
      BY <2>1, <2>3, <2>7, <3>1 DEF OneObject
  <2> QED
    BY <1>3, <2>8, <2>9, <2>10, <2>11, <2>12, <2>13, <2>14, <2>15 DEF Transition
<1> QED
  BY <1>2, <1>3

\* A session starts only within the limits.
LEMMA OpenFitsStep == LimitsInv /\ TypeInv' /\ [Next]_vars => OpenFits'
<1> SUFFICES ASSUME LimitsInv, TypeInv', [Next]_vars PROVE OpenFits'
  OBVIOUS
<1>0. /\ TypeInv /\ TypeOK /\ HTTPSilent /\ NotYet /\ NotUsed /\ OneObject /\ OpenFits
      /\ ngen \in Nat /\ open \subseteq Pair
  <2>1. TypeInv /\ HTTPSilent /\ NotYet /\ NotUsed /\ OneObject /\ OpenFits
    BY DEF LimitsInv, LossInv, IndInv, DrainInv
  <2> QED
    BY <2>1, Basics DEF TypeOK
<1>a. saves' = 0 => saves = 0 /\ stored' = stored
  BY OneObjectStep
<1>b. saves = 0 => Limit[stored.cfg] \in Nat
  BY <1>0, ManagerAssumption DEF TypeOK
<1>1. CASE open' \subseteq open
  <2>1. IsFiniteSet(open') /\ Cardinality(open') <= Cardinality(open)
    BY <1>0, <1>1, FS_Subset DEF OpenFits
  <2>2. Cardinality(open') \in Nat /\ Cardinality(open) \in Nat
    BY <1>0, <2>1, FS_CardinalityType DEF OpenFits
  <2> QED
    BY <1>0, <1>a, <1>b, <2>1, <2>2 DEF OpenFits
<1>2. ASSUME NEW g \in Gen, NEW p \in Proto, Accept(g, p)
      PROVE  OpenFits'
  <2>1. /\ <<g, p>> \notin open /\ open' = open \cup {<<g, p>>}
        /\ Cardinality(Charged(lim[g])) < Limit[limMax[lim[g]]]
    BY <1>2 DEF Accept
  <2>2. IsFiniteSet(open') /\ Cardinality(open') = Cardinality(open) + 1
    BY <1>0, <2>1, FS_AddElement DEF OpenFits
  <2>3. g <= ngen
    <3>1. p = "socks" \/ p = "http"
      BY DEF Proto
    <3>2. g > ngen => lst[<<g, p>>] = "off" /\ <<g, "http">> \notin ready
      BY <1>0 DEF NotYet, HTTPSilent
    <3>3. lst[<<g, p>>] = "serving" \/ <<g, "http">> \in ready
      BY <1>2, <3>1 DEF Accept
    <3> QED
      BY <1>0, <3>2, <3>3 DEF Gen
  <2>4. CASE saves = 0
    <3>1. ngen >= 1 /\ lim[g] = 1 /\ limMax[1] = stored.cfg
      BY <1>0, <2>3, <2>4 DEF OneObject, Gen
    <3>2. \A s \in open : s[1] \in Gen /\ s[1] <= ngen
      <4> SUFFICES ASSUME NEW h \in Gen, NEW q \in Proto, <<h, q>> \in open
                   PROVE  h <= ngen
        BY <1>0 DEF Pair
      <4>1. h > ngen => <<h, "socks">> \notin open /\ <<h, "http">> \notin open
        BY <1>0 DEF NotUsed, HTTPSilent
      <4> QED
        BY <1>0, <4>1 DEF Proto, Gen
    <3>3. Charged(lim[g]) = open
      BY <1>0, <2>4, <3>1, <3>2 DEF OneObject, Charged
    <3>4. Cardinality(open) < Limit[stored.cfg]
      BY <2>1, <3>1, <3>3
    <3>5. Cardinality(open) \in Nat
      BY <1>0, FS_CardinalityType DEF OpenFits
    <3>6. Cardinality(open') <= Limit[stored.cfg]
      BY <1>b, <2>2, <2>4, <3>4, <3>5
    <3> QED
      BY <1>a, <2>2, <3>6 DEF OpenFits
  <2>5. CASE saves # 0
    BY <1>a, <2>2, <2>5 DEF OpenFits
  <2> QED
    BY <2>4, <2>5
<1>3. open' \subseteq open \/ \E g \in Gen, p \in Proto : Accept(g, p)
  <2> USE DEF genVars, srvVars, drainVars, closeVars
  <2>1. CASE Transition
    BY <2>1 DEF Transition, StartAll, BeginReload, PreflightFails, ReloadNothing,
       EnableNew, DisableOld, HotSwap, NewReady, NewFails, DropNew, RestorePlaceholder,
       Rollback, RollbackSettles, Remove, StopJoined, Shutdown
  <2>2. CASE ~Transition
    BY ZenonT(60), <2>2 DEF Next, Administrator, SaveConfig, DeleteRow, ListenerLoop, Bind, Install, Retry,
       Watch, AcceptFails, listenerRest, Sessions, SessionEnds, Drainer,
       DrainBegin, DrainEnd, DrainJoin, DrainExpires, drainRest, Interrupt, Closing,
       CloseTake, CloseShutdown, CloseJoined, CloseDone, Shutdown, closeRest, vars
  <2> QED
    BY <2>1, <2>2
<1> QED
  BY <1>1, <1>2, <1>3

\* The limits in force are those of the current generation's configuration, also after a
\* replacement that failed; and generations old and new share them, so that all sessions
\* together stay within the budget while nobody writes the configuration
\* (manager.go:316-452, policy/access.go:194-196).
THEOREM LimitsAreKept == Spec => []LimitsHold
<1>1. Init => LimitsInv
  <2> SUFFICES ASSUME Init PROVE LimitsInv
    OBVIOUS
  <2>1. /\ ngen = 0 /\ instances = None /\ op.step = "start" /\ open = {} /\ stored.row
        /\ stored.cfg \in Versions
    BY DEF Init, Idle
  <2>2. \A g \in Gen : ~ (g <= 0)
    BY DEF Gen
  <2>3. LimitsFit /\ OneObject
    BY <2>1, <2>2 DEF LimitsFit, OneObject
  <2>4. OpenFits
    BY <2>1, FS_EmptySet, ManagerAssumption DEF OpenFits
  <2> QED
    BY <2>3, <2>4, InitLoss DEF LimitsInv
<1>2. LimitsInv /\ [Next]_vars => LimitsInv'
  <2> SUFFICES ASSUME LimitsInv, [Next]_vars PROVE LimitsInv'
    OBVIOUS
  <2>1. LossInv' /\ TypeInv'
    BY LossStep DEF LimitsInv, LossInv, IndInv
  <2>2. OneObject'
    <3>1. CASE saves' = 0
      BY <2>1, <3>1, OneObjectStep
    <3>2. CASE saves' # 0
      BY <3>2 DEF OneObject
    <3> QED
      BY <3>1, <3>2
  <2> QED
    BY <2>1, <2>2, LimitsFitStep, OpenFitsStep DEF LimitsInv
<1>3. LimitsInv => LimitsHold
  BY DEF LimitsInv, LimitsFit, OpenFits, LimitsHold, LimitsFollowCurrent, BudgetShared
<1> QED
  BY <1>1, <1>2, <1>3, PTL DEF Spec

-----------------------------------------------------------------------------
(* Generations succeed one another                                         *)

\* The signal ends every generation's context; before it, only a generation that was shut
\* down has none;
HaltEnds   == halted => ctxDone = Gen
OverIsShut == halted \/ \A g \in ctxDone : g <= ngen /\ Shut(g)

\* a generation was started or stopped;
StartedOrOver == \A g \in Gen : g <= ngen => g \in launched \cup ctxDone

\* one that left the map refuses, unless Close is about to stop it;
GoneRefuses ==
  \A g \in Gen :
    g <= ngen /\ g # instances /\ ~(closed /\ g = victim) => <<g, "socks">> \in refuses

\* only one that left the map drains, and is over when it waits for its goroutines;
DrainLeaves ==
  \A g \in Gen :
    /\ g \in expired => drain[g] # "none"
    /\ drain[g] # "none" => g # instances /\ ~(closed /\ g = victim)
    /\ drain[g] \in {"join", "done"} => g \in ctxDone

\* and a call has not begun to drain the generation it replaces.
CallOrder ==
  op.step \in {"waitNew", "stopNew", "waitBack"} =>
    /\ op.old # instances
    /\ op.old \in Gen => drain[op.old] = "none"
    /\ op.step = "stopNew" => op.new \in ctxDone

SuccInv ==
  /\ LossInv
  /\ HaltEnds /\ OverIsShut /\ StartedOrOver /\ GoneRefuses /\ DrainLeaves /\ CallOrder

\* What SuccInv says of the types
LEMMA SuccFacts ==
  ASSUME SuccInv
  PROVE  /\ TypeInv /\ TypeOK /\ CallInv /\ MaxGen \in Nat /\ ngen \in Nat /\ ngen \in 0..MaxGen
         /\ op \in OpType(ngen) /\ op.old \in 0..ngen /\ op.new \in 0..ngen
         /\ instances \in 0..ngen /\ victim \in 0..ngen /\ Gen \subseteq Nat
         /\ \A n \in 0..ngen : n \in Gen \/ n = None
         /\ drain \in [Gen -> DrainState] /\ ctxDone \subseteq Gen /\ expired \subseteq Gen
         /\ open \subseteq Pair
<1>1. TypeInv
  BY DEF SuccInv, LossInv, IndInv
<1>2. Gen \subseteq Nat /\ \A n \in 0..ngen : n \in Gen \/ n = None
  BY <1>1, Basics DEF Gen, None
<1> QED
  BY <1>1, <1>2, Basics DEF TypeOK, OpType

\* A context ends with its generation, or with all of them.
LEMMA ContextSteps ==
  ASSUME SuccInv, [Next]_vars
  PROVE  /\ halted' = halted \/ (~halted /\ halted' /\ ctxDone' = Gen)
         /\ \/ ctxDone' = ctxDone
            \/ Interrupt
            \/ \E g \in Gen : ctxDone' = ctxDone \cup {g} /\ g <= ngen /\ Shutdown(g)
            \/ \E g \in Gen : ctxDone' = ctxDone \cup {g} /\ DrainEnd(g, "socks")
            \/ /\ StartAll /\ ngen + 1 \in Gen /\ ngen' = ngen + 1
               /\ ctxDone' = ctxDone \cup {ngen + 1} /\ lst' = lst
               /\ refuses' = refuses \cup {x \in Pair : x[1] = ngen + 1}
<1>0. /\ TypeInv /\ ngen \in Nat /\ op.old \in 0..ngen /\ op.new \in 0..ngen
      /\ instances \in 0..ngen /\ victim \in 0..ngen
      /\ \A n \in 0..ngen : n \in Gen \/ n = None
      /\ CallInv /\ MaxGen \in Nat \ {0} /\ Gen \subseteq Nat
  BY SuccFacts, ManagerAssumption
<1> USE DEF genVars, srvVars, drainVars, closeVars
<1>1. CASE Transition
  <2>1. CASE StartAll
    <3>1. halted' = halted
      BY <2>1 DEF StartAll
    <3>2. CASE ctxDone' = ctxDone
      BY <3>1, <3>2
    <3>3. CASE ctxDone' # ctxDone
      <4>1. /\ ctxDone' = ctxDone \cup {ngen + 1} /\ lst' = lst
            /\ refuses' = refuses \cup {x \in Pair : x[1] = ngen + 1}
            /\ Create(ngen + 1, stored.cfg, ngen + 1)
        BY <2>1, <3>3 DEF StartAll
      <4>2. ngen + 1 \in Gen /\ ngen' = ngen + 1
        BY <1>0, <2>1, <4>1 DEF StartAll, CallInv, Gen, Create
      <4> QED
        BY <2>1, <3>1, <4>1, <4>2
    <3> QED
      BY <3>2, <3>3
  <2>2. CASE DisableOld \/ NewFails \/ Remove
    <3>1. halted' = halted
      BY <2>2 DEF DisableOld, NewFails, Remove
    <3>2. PICK n \in 0..ngen : n # None /\ Shutdown(n)
      BY <1>0, <2>2 DEF DisableOld, NewFails, Remove, CallInv
    <3>3. n \in Gen /\ n <= ngen
      BY <1>0, <3>2
    <3> QED
      BY <3>1, <3>2, <3>3 DEF Shutdown
  <2>3. CASE ~ (StartAll \/ DisableOld \/ NewFails \/ Remove)
    BY <1>1, <2>3 DEF Transition, BeginReload, PreflightFails, ReloadNothing,
       EnableNew, HotSwap, NewReady, DropNew, RestorePlaceholder, Rollback, RollbackSettles,
       StopJoined
  <2> QED
    BY <2>1, <2>2, <2>3
<1>2. ASSUME NEW g \in Gen, NEW p \in Proto, ListenerLoop(g, p) \/ AcceptFails(g, p)
      PROVE  ctxDone' = ctxDone /\ halted' = halted
  BY <1>2 DEF ListenerLoop, Bind, Install, Retry, Watch, AcceptFails, listenerRest
<1>3. ASSUME NEW g \in Gen, Drainer(g)
      PROVE  /\ halted' = halted
             /\ \/ ctxDone' = ctxDone
                \/ ctxDone' = ctxDone \cup {g} /\ DrainEnd(g, "socks")
  BY <1>3 DEF Drainer, DrainBegin, DrainEnd, DrainJoin, DrainExpires, drainRest, Proto
<1>4. CASE Interrupt
  BY <1>4 DEF Interrupt
<1>5. CASE Closing
  <2>1. CASE CloseShutdown /\ victim # None
    <3>1. victim \in Gen /\ victim <= ngen /\ Shutdown(victim) /\ halted' = halted
      BY <1>0, <2>1 DEF CloseShutdown
    <3> QED
      BY <3>1 DEF Shutdown
  <2>2. CASE ~ (CloseShutdown /\ victim # None)
    BY <1>5, <2>2 DEF Closing, CloseTake, CloseShutdown, CloseJoined, CloseDone, closeRest
  <2> QED
    BY <2>1, <2>2
<1>6. CASE Administrator \/ Sessions \/ UNCHANGED vars
  BY <1>6 DEF Administrator, SaveConfig, DeleteRow, Sessions, Accept, SessionEnds, vars
<1> QED
  BY <1>1, <1>2, <1>3, <1>4, <1>5, <1>6 DEF Next

LEMMA HaltEndsStep == SuccInv /\ TypeInv' /\ [Next]_vars => HaltEnds'
<1> SUFFICES ASSUME SuccInv, TypeInv', [Next]_vars, halted' PROVE ctxDone' = Gen
  BY DEF HaltEnds
<1>1. ctxDone' \subseteq Gen
  BY DEF TypeInv, TypeOK
<1>2. CASE halted
  <2>1. ctxDone = Gen
    BY <1>2 DEF SuccInv, HaltEnds
  <2> QED
    BY <1>1, <1>2, <2>1, ContextSteps DEF Interrupt
<1>3. CASE ~halted
  BY <1>3, ContextSteps
<1> QED
  BY <1>2, <1>3

\* What is over is shut: it was shut down, or has drained, or never started.
LEMMA OverIsShutStep == SuccInv /\ LossInv' /\ [Next]_vars => OverIsShut'
<1> SUFFICES ASSUME SuccInv, LossInv', [Next]_vars, ~halted', NEW g \in Gen, g \in ctxDone'
             PROVE  g <= ngen' /\ Shut(g)'
  <2>1. ASSUME LossInv' PROVE ctxDone' \subseteq Gen
    BY <2>1 DEF LossInv, IndInv, TypeInv, TypeOK
  <2> QED
    BY <2>1 DEF OverIsShut
<1>0. /\ TypeInv /\ TypeOK /\ ngen \in Nat /\ Gen \subseteq Nat
      /\ ngen' \in Nat /\ TypeOK' /\ DrainOwns' /\ DrainOrder' /\ HTTPSilent' /\ HTTPSilent
  <2>1. /\ DrainOwns' /\ DrainOrder' /\ HTTPSilent' /\ HTTPSilent /\ TypeInv'
    BY DEF SuccInv, LossInv, DrainInv
  <2>2. ngen' \in Nat /\ TypeOK'
    BY <2>1, ManagerAssumption DEF TypeInv, TypeOK
  <2> QED
    BY <2>1, <2>2, SuccFacts
<1>1. ngen <= ngen' /\ ~halted
  <2>1. ngen <= ngen'
    BY <1>0, StepCreates DEF Create
  <2>2. ~halted
    BY ContextSteps
  <2> QED
    BY <2>1, <2>2
<1>2. CASE g \in ctxDone
  <2>1. g <= ngen /\ Shut(g)
    BY <1>1, <1>2 DEF SuccInv, OverIsShut
  <2> QED
    BY <1>0, <1>1, <2>1, ShutStays
<1>3. ASSUME g <= ngen, Shutdown(g) PROVE g <= ngen' /\ Shut(g)'
  BY <1>0, <1>1, <1>3, ShutdownShuts
<1>4. ASSUME DrainEnd(g, "socks") PROVE g <= ngen' /\ Shut(g)'
  <2>1. drain'[g] = "join"
    BY <1>0, <1>4 DEF DrainEnd, AfterDrain, TypeOK
  <2>2. g <= ngen' /\ <<g, "socks">> \in refuses' /\ <<g, "socks">> \notin open'
        /\ lst'[<<g, "socks">>] # "serving"
    BY <1>0, <2>1 DEF DrainOwns, DrainOrder
  <2>3. /\ <<g, "http">> \notin open' /\ lst'[<<g, "http">>] # "serving"
        /\ <<g, "http">> \in refuses' \/ ~Has(g, "http")'
    BY <1>0, <2>1 DEF DrainOwns, DrainOrder, AfterHTTP
  <2> QED
    BY <2>2, <2>3 DEF Shut, Proto
<1>5. ASSUME StartAll, ngen + 1 \in Gen, ngen' = ngen + 1, lst' = lst, g = ngen + 1,
             refuses' = refuses \cup {x \in Pair : x[1] = ngen + 1}
      PROVE  g <= ngen' /\ Shut(g)'
  <2>1. open' = open
    BY <1>5 DEF StartAll
  <2>2. g > ngen
    BY <1>0, <1>5
  <2>3. \A p \in Proto : <<g, p>> \in Pair /\ <<g, p>> \in refuses'
    BY <1>5 DEF Pair
  <2>4. \A p \in Proto : lst[<<g, p>>] = "off" /\ <<g, p>> \notin open
    BY <1>0, <2>2 DEF SuccInv, LossInv, IndInv, NotYet, NotUsed, HTTPSilent, Proto
  <2> QED
    BY <1>0, <1>5, <2>1, <2>3, <2>4 DEF Shut
<1> QED
  BY <1>0, <1>1, <1>2, <1>3, <1>4, <1>5, ContextSteps DEF Interrupt

\* A generation is in the map when it has just been created, and was started or is over.
LEMMA Creates ==
  ASSUME TypeInv, [Next]_vars
  PROVE  \/ ngen' = ngen /\ launched \subseteq launched'
         \/ /\ StartAll \/ EnableNew \/ HotSwap \/ Rollback
            /\ ngen' = ngen + 1 /\ instances' = ngen + 1
            /\ launched \subseteq launched' /\ ngen + 1 \in launched' \cup ctxDone'
<1> USE DEF genVars, srvVars, drainVars, closeVars
<1>1. CASE StartAll \/ EnableNew \/ HotSwap \/ Rollback
  BY <1>1 DEF StartAll, EnableNew, HotSwap, Rollback, Create
<1>2. CASE Transition /\ ~ (StartAll \/ EnableNew \/ HotSwap \/ Rollback)
  BY <1>2 DEF Transition, BeginReload, PreflightFails, ReloadNothing, DisableOld, NewReady,
     NewFails, DropNew, RestorePlaceholder, RollbackSettles, Remove, StopJoined
<1>3. CASE ~Transition
  BY ZenonT(60), <1>3 DEF Next, Administrator, SaveConfig, DeleteRow, ListenerLoop,
     Bind, Install, Retry, Watch, AcceptFails, Sessions, Accept, SessionEnds, Drainer,
     DrainBegin, DrainEnd, DrainJoin, DrainExpires, Interrupt, Closing, CloseTake,
     CloseShutdown, CloseJoined, CloseDone, closeRest, drainRest, listenerRest, vars
<1> QED
  BY <1>1, <1>2, <1>3

LEMMA StartedOrOverStep == SuccInv /\ TypeInv' /\ [Next]_vars => StartedOrOver'
<1> SUFFICES ASSUME SuccInv, TypeInv', [Next]_vars, NEW g \in Gen, g <= ngen'
             PROVE  g \in launched' \cup ctxDone'
  BY DEF StartedOrOver
<1>0. TypeInv /\ ngen \in Nat /\ g \in Nat /\ ctxDone \subseteq Gen
  BY SuccFacts
<1>1. ctxDone \subseteq ctxDone'
  BY <1>0, ContextSteps DEF Interrupt
<1>2. g <= ngen => g \in launched \cup ctxDone
  BY DEF SuccInv, StartedOrOver
<1> QED
  BY <1>0, <1>1, <1>2, Creates

\* What the calls and Close do to the map
LEMMA MapSteps ==
  ASSUME SuccInv, [Next]_vars, instances' # instances
  PROVE  \/ /\ DisableOld \/ Remove \/ DropNew
            /\ instances' = None
         \/ RestorePlaceholder /\ instances' = op.old
         \/ (StartAll \/ EnableNew \/ HotSwap \/ Rollback) /\ instances' = ngen + 1
         \/ CloseTake /\ instances' = None /\ victim' = instances
<1>0. TypeInv
  BY SuccFacts
<1>1. CASE Transition
  BY <1>1 DEF Transition, StartAll, BeginReload, PreflightFails, ReloadNothing, EnableNew,
     DisableOld, HotSwap, NewReady, NewFails, DropNew, RestorePlaceholder, Rollback,
     RollbackSettles, Remove, StopJoined
<1>2. CASE ~Transition
  BY <1>0, <1>2, Elsewhere DEF CloseTake
<1> QED
  BY <1>1, <1>2

\* Once Close has begun it keeps its generation.
LEMMA CloseKeeps ==
  ASSUME SuccInv, [Next]_vars
  PROVE  /\ closed => closed' /\ victim' = victim /\ instances' = instances /\ ~Transition
         /\ ~closed /\ closed' => CloseTake
         /\ ~CloseTake => victim' = victim
<1>0. TypeInv /\ CallOwns
  BY SuccFacts DEF SuccInv, LossInv
<1>1. closed => ~Transition /\ ~CloseTake
  BY <1>0 DEF CallOwns, Transition, StartAll, BeginReload, PreflightFails, ReloadNothing,
     EnableNew, DisableOld, HotSwap, NewReady, NewFails, DropNew, RestorePlaceholder,
     Rollback, RollbackSettles, Remove, StopJoined, CloseTake, closed
<1>2. Transition => closer' = closer /\ victim' = victim
  BY DEF Transition, StartAll, BeginReload, PreflightFails, ReloadNothing,
     EnableNew, DisableOld, HotSwap, NewReady, NewFails, DropNew, RestorePlaceholder,
     Rollback, RollbackSettles, Remove, StopJoined, closeVars
<1> QED
  BY <1>0, <1>1, <1>2, Elsewhere DEF closed

LEMMA GoneRefusesStep == SuccInv /\ TypeInv' /\ [Next]_vars => GoneRefuses'
<1> SUFFICES ASSUME SuccInv, TypeInv', [Next]_vars, NEW g \in Gen, g <= ngen',
                    g # instances', ~(closed' /\ g = victim')
             PROVE  <<g, "socks">> \in refuses'
  BY DEF GoneRefuses
<1>0. /\ TypeInv /\ CallInv /\ ngen \in Nat /\ g \in Nat /\ g # None
      /\ refuses \subseteq refuses' /\ <<g, "socks">> \in Pair /\ op \in OpType(ngen)
  BY SuccFacts, StepBounds DEF Gen, None, Pair, Proto
<1>1. g <= ngen
  BY <1>0, Creates
<1>2. CASE g # instances /\ ~(closed /\ g = victim)
  BY <1>0, <1>1, <1>2 DEF SuccInv, GoneRefuses
<1>3. CASE closed /\ g = victim
  BY <1>3, CloseKeeps
<1>4. CASE g = instances
  <2>1. CASE DisableOld \/ HotSwap
    <3>1. op.old = instances
      BY <1>0, <2>1 DEF DisableOld, HotSwap, CallInv
    <3> QED
      BY <1>0, <1>4, <2>1, <3>1 DEF DisableOld, HotSwap, Shutdown
  <2>2. CASE Remove
    BY <1>0, <1>4, <2>2 DEF Remove, Shutdown
  <2>3. CASE DropNew \/ RestorePlaceholder \/ Rollback
    BY <1>0, <1>4, <2>3 DEF DropNew, RestorePlaceholder, Rollback, CallInv
  <2>4. CASE StartAll \/ EnableNew
    BY <1>0, <1>4, <2>4 DEF StartAll, EnableNew, CallInv
  <2>5. CASE CloseTake
    BY <1>4, <2>5 DEF CloseTake, closed
  <2> QED
    BY <1>4, <2>1, <2>2, <2>3, <2>4, <2>5, MapSteps
<1> QED
  BY <1>2, <1>3, <1>4

\* A generation that a call replaces begins to drain when the call ends.
LEMMA DrainStarts ==
  ASSUME SuccInv, [Next]_vars, NEW g \in Gen, drain[g] = "none"
  PROVE  \/ drain'[g] = "none"
         \/ g = op.old /\ (NewReady \/ RollbackSettles)
<1>0. TypeInv /\ drain \in [Gen -> DrainState]
  BY SuccFacts
<1>1. CASE Transition
  <2>1. CASE NewReady \/ RollbackSettles
    BY <1>0, <2>1 DEF NewReady, RollbackSettles, ScheduleDrain
  <2>2. CASE ~ (NewReady \/ RollbackSettles)
    BY <1>1, <2>2 DEF Transition, StartAll, BeginReload, PreflightFails, ReloadNothing,
       EnableNew, DisableOld, HotSwap, NewFails, DropNew, RestorePlaceholder, Rollback,
       Remove, StopJoined, drainVars
  <2> QED
    BY <2>1, <2>2
<1>2. CASE ~Transition
  <2>1. ~Draining(g)'
    BY <1>0, <1>2, DrainStays DEF Draining
  <2>2. ASSUME NEW h \in Gen, Drainer(h) PROVE drain'[g] # "done"
    BY <1>0, <2>2 DEF Drainer, DrainBegin, DrainEnd, DrainJoin, DrainExpires, AfterDrain
  <2>3. ScheduleDrain(op.old) => drain'[g] # "done"
    BY <1>0 DEF ScheduleDrain
  <2>4. drain'[g] # "done"
    BY <1>0, <2>2, <2>3, StepBounds
  <2> QED
    BY <2>1, <2>4 DEF Draining
<1> QED
  BY <1>1, <1>2

LEMMA DrainLeavesStep == SuccInv /\ TypeInv' /\ [Next]_vars => DrainLeaves'
<1> SUFFICES ASSUME SuccInv, TypeInv', [Next]_vars, NEW g \in Gen
             PROVE  /\ g \in expired' => drain'[g] # "none"
                    /\ drain'[g] # "none" => g # instances' /\ ~(closed' /\ g = victim')
                    /\ drain'[g] \in {"join", "done"} => g \in ctxDone'
  BY DEF DrainLeaves
<1>0. /\ TypeInv /\ CallInv /\ ngen \in Nat /\ g \in Nat /\ g # None
      /\ drain \in [Gen -> DrainState] /\ ctxDone \subseteq Gen
      /\ g \in expired => drain[g] # "none"
      /\ drain[g] # "none" => g # instances /\ ~(closed /\ g = victim) /\ g <= ngen
      /\ drain[g] \in {"join", "done"} => g \in ctxDone
      /\ CallOrder /\ CallOwns
  <2>1. CallOrder /\ CallOwns /\ DrainLeaves /\ DrainOrder
    BY DEF SuccInv, LossInv, DrainInv
  <2>2. g \in Nat /\ g # None
    BY DEF Gen, None
  <2> QED
    BY <2>1, <2>2, SuccFacts DEF DrainLeaves, DrainOrder
<1>1. g \in expired' => drain'[g] # "none"
  <2>1. CASE g \in expired
    BY <1>0, <2>1, DrainStays
  <2>2. CASE g \in expired' /\ g \notin expired
    <3>1. drain[g] # "none"
      <4>1. (\E h \in Gen : DrainExpires(h)) \/ CloseTake
        <5> USE DEF genVars, srvVars, drainVars, closeVars
        <5>1. CASE Transition
          BY <2>2, <5>1 DEF Transition, StartAll, BeginReload, PreflightFails, ReloadNothing,
             EnableNew, DisableOld, HotSwap, NewReady, NewFails, DropNew, RestorePlaceholder,
             Rollback, RollbackSettles, Remove, StopJoined
        <5>2. CASE ~Transition
          BY ZenonT(60), <2>2, <5>2 DEF Next, Administrator, SaveConfig, DeleteRow,
             ListenerLoop, Bind, Install, Retry, Watch, AcceptFails, listenerRest, Sessions,
             Accept, SessionEnds, Drainer, DrainBegin, DrainEnd, DrainJoin, drainRest,
             Interrupt, Closing, CloseShutdown, CloseJoined, CloseDone, closeRest, vars
        <5> QED
          BY <5>1, <5>2
      <4> QED
        BY <2>2, <4>1 DEF DrainExpires, CloseTake, Draining
    <3> QED
      BY <3>1, DrainStays, <1>0
  <2> QED
    BY <2>1, <2>2
<1>2. ASSUME drain'[g] # "none" PROVE g # instances' /\ ~(closed' /\ g = victim')
  <2>1. CASE drain[g] = "none"
    <3>1. g = op.old /\ (NewReady \/ RollbackSettles)
      BY <1>2, <2>1, DrainStarts
    <3>2. op.step \in {"waitNew", "waitBack"} /\ instances' = instances /\ Transition
          /\ closer' = closer
      BY <3>1 DEF NewReady, RollbackSettles, Transition, closeVars
    <3>3. op.old # instances /\ ~closed
      BY <1>0, <3>2 DEF CallOrder, CallOwns
    <3> QED
      BY <3>1, <3>2, <3>3 DEF closed
  <2>2. CASE drain[g] # "none"
    <3>1. g # instances'
      <4>1. CASE RestorePlaceholder /\ instances' = op.old
        BY <1>0, <2>2, <4>1 DEF RestorePlaceholder, CallOrder
      <4> QED
        BY <1>0, <2>2, <4>1, MapSteps
    <3>2. ~(closed' /\ g = victim')
      <4>1. CASE CloseTake
        BY <1>0, <2>2, <4>1 DEF CloseTake
      <4>2. CASE ~CloseTake
        BY <1>0, <2>2, <4>2, CloseKeeps
      <4> QED
        BY <4>1, <4>2
    <3> QED
      BY <3>1, <3>2
  <2> QED
    BY <2>1, <2>2
<1>3. ASSUME drain'[g] \in {"join", "done"} PROVE g \in ctxDone'
  <2>1. ctxDone \subseteq ctxDone'
    BY <1>0, ContextSteps DEF Interrupt
  <2>2. CASE drain[g] \in {"join", "done"}
    BY <1>0, <2>1, <2>2
  <2>3. CASE drain[g] \notin {"join", "done"}
    <3>1. ASSUME NEW h \in Gen, Drainer(h) PROVE g \in ctxDone'
      BY <1>0, <1>3, <2>3, <3>1 DEF Drainer, DrainBegin, DrainEnd, DrainJoin, DrainExpires,
         AfterDrain, Proto
    <3>2. ~ScheduleDrain(op.old)
      BY <1>0, <1>3, <2>3 DEF ScheduleDrain
    <3> QED
      BY <1>0, <1>3, <2>3, <3>1, <3>2, StepBounds
  <2> QED
    BY <2>2, <2>3
<1> QED
  BY <1>1, <1>2, <1>3

LEMMA CallOrderStep == SuccInv /\ TypeInv' /\ [Next]_vars => CallOrder'
<1> SUFFICES ASSUME SuccInv, TypeInv', [Next]_vars, op'.step \in {"waitNew", "stopNew", "waitBack"}
             PROVE  /\ op'.old # instances'
                    /\ op'.old \in Gen => drain'[op'.old] = "none"
                    /\ op'.step = "stopNew" => op'.new \in ctxDone'
  BY DEF CallOrder
<1>0. /\ TypeInv /\ CallInv /\ ngen \in Nat /\ op.old \in 0..ngen /\ op \in OpType(ngen)
      /\ ctxDone \subseteq Gen /\ CallOrder /\ DrainLeaves /\ Idle.step = "idle"
      /\ \A n \in 0..ngen : n \in Gen \/ n = None
  BY SuccFacts, IdleType DEF SuccInv
<1>1. ctxDone \subseteq ctxDone'
  BY <1>0, ContextSteps DEF Interrupt
<1>2. CASE ~Transition
  <2>1. /\ op'.step = op.step /\ op'.old = op.old /\ op'.new = op.new
        /\ instances' = instances
    BY <1>0, <1>2, Elsewhere, IdleType DEF CloseTake
  <2>2. op.old \in Gen => drain'[op.old] = "none"
    BY <1>0, <1>2, <2>1, DrainStarts DEF CallOrder, Transition
  <2> QED
    BY <1>0, <1>1, <2>1, <2>2 DEF CallOrder
<1>3. CASE EnableNew
  <2>1. op'.step = "waitNew" /\ op'.old = None /\ instances' = ngen + 1
    BY <1>3 DEF EnableNew, Awaiting
  <2> QED
    BY <1>0, <2>1 DEF None, Gen
<1>4. CASE HotSwap
  <2>1. /\ op'.step = "waitNew" /\ op'.old = op.old /\ instances' = ngen + 1
        /\ op.old = instances /\ drain' = drain
    BY <1>0, <1>4 DEF HotSwap, Awaiting, CallInv, drainVars
  <2>2. op.old \in Gen => drain[op.old] = "none"
    BY <1>0, <2>1 DEF DrainLeaves
  <2> QED
    BY <1>0, <2>1, <2>2
<1>5. CASE Rollback
  <2>1. /\ op'.step = "waitBack" /\ op'.old = op.old /\ instances' = ngen + 1
        /\ drain' = drain /\ op.step = "stopNew"
    BY <1>5 DEF Rollback, Awaiting, drainVars
  <2> QED
    BY <1>0, <2>1 DEF CallOrder
<1>6. CASE NewFails
  <2>1. /\ op'.step = "stopNew" /\ op'.old = op.old /\ op'.new = op.new
        /\ drain' = drain /\ op.step = "waitNew" /\ instances' = instances
        /\ op.new \in ctxDone'
    BY <1>0, <1>6 DEF NewFails, drainVars, OpType, Shutdown
  <2> QED
    BY <1>0, <2>1 DEF CallOrder
<1>7. CASE Transition /\ ~ (EnableNew \/ HotSwap \/ Rollback \/ NewFails)
  <2>1. DisableOld \/ BeginReload \/ Remove => op'.step \in {"disable", "loaded", "remove"}
    BY <1>0 DEF DisableOld, BeginReload, Remove, OpType
  <2>2. \/ StartAll \/ PreflightFails \/ ReloadNothing \/ NewReady \/ DropNew
        \/ RestorePlaceholder \/ RollbackSettles \/ StopJoined
        => op' = Idle
    BY DEF StartAll, PreflightFails, ReloadNothing, NewReady, DropNew, RestorePlaceholder,
       RollbackSettles, StopJoined
  <2> QED
    BY <1>0, <1>7, <2>1, <2>2 DEF Transition
<1> QED
  BY <1>2, <1>3, <1>4, <1>5, <1>6, <1>7

LEMMA InitSucc == Init => SuccInv
<1> SUFFICES ASSUME Init PROVE SuccInv
  OBVIOUS
<1>1. /\ ngen = 0 /\ op.step = "start" /\ ~halted /\ expired = {} /\ ctxDone = {}
      /\ drain = [g \in Gen |-> "none"]
  BY DEF Init, Idle
<1>2. \A g \in Gen : ~ (g <= 0)
  BY DEF Gen
<1>3. HaltEnds /\ OverIsShut /\ StartedOrOver /\ GoneRefuses /\ DrainLeaves /\ CallOrder
  BY <1>1, <1>2 DEF HaltEnds, OverIsShut, StartedOrOver, GoneRefuses, DrainLeaves, CallOrder
<1> QED
  BY <1>3, InitLoss DEF SuccInv

LEMMA SuccStep == SuccInv /\ [Next]_vars => SuccInv'
<1> SUFFICES ASSUME SuccInv, [Next]_vars PROVE SuccInv'
  OBVIOUS
<1>1. LossInv' /\ TypeInv'
  <2>1. LossInv'
    BY LossStep DEF SuccInv
  <2> QED
    BY <2>1 DEF LossInv, IndInv
<1> QED
  BY <1>1, HaltEndsStep, OverIsShutStep, StartedOrOverStep, GoneRefusesStep, DrainLeavesStep,
     CallOrderStep DEF SuccInv

\* The generation in the map serves, and so does the one Close is about to stop.
Serves(g) == g = instances \/ (closer = "taken" /\ g = victim)

Due == {g \in expired : LifeOf(g) \in {"retired", "closing"}}

\* A generation goes on with its life when nothing that decides it changes.
LEMMA LifeGoesOn ==
  ASSUME NEW g \in Gen, ngen' = ngen,
         \/ g \in ctxDone /\ g \in ctxDone'
         \/ /\ g \in ctxDone <=> g \in ctxDone'
            /\ drain[g] \in AfterHTTP <=> drain'[g] \in AfterHTTP
            /\ Serves(g) <=> Serves(g)'
  PROVE  LifeOf(g)' = LifeOf(g)
BY DEF LifeOf, Serves

\* The actions of the succession, generation by generation
LEMMA Stutters ==
  ASSUME \A g \in Gen : LifeOf(g)' = LifeOf(g), open' = open, Due' = Due, halted' = halted
  PROVE  UNCHANGED Clients!vars
BY DEF Clients!vars, Due

LEMMA DoesSucceed ==
  ASSUME NEW g \in Gen, ~halted, Gen \subseteq Nat,
         \A h \in Gen : LifeOf(h) # "none" => h < g,
         \A h \in Gen : LifeOf(h)' = IF h = g THEN "current"
                        ELSE IF LifeOf(h) = "current" THEN "retired" ELSE LifeOf(h),
         open' = open, Due' = Due, halted' = halted
  PROVE  Clients!Next
<1>1. LifeOf(g) = "none"
  OBVIOUS
<1>2. [h \in Gen |-> LifeOf(h)]' # [h \in Gen |-> LifeOf(h)]
  BY <1>1
<1>3. Clients!Succeeds(g)
  BY DEF Clients!Succeeds, Clients!Newest, Due
<1> QED
  BY <1>2, <1>3 DEF Clients!Next

LEMMA IsStillborn ==
  ASSUME NEW g \in Gen, Gen \subseteq Nat,
         \A h \in Gen : LifeOf(h) # "none" => h < g,
         \A h \in Gen : LifeOf(h)' = IF h = g THEN "over" ELSE LifeOf(h),
         open' = open, Due' = Due, halted' = halted
  PROVE  Clients!Next
<1>1. LifeOf(g) = "none"
  OBVIOUS
<1>2. [h \in Gen |-> LifeOf(h)]' # [h \in Gen |-> LifeOf(h)]
  BY <1>1
<1>3. Clients!Stillborn(g)
  BY DEF Clients!Stillborn, Clients!Newest, Due
<1> QED
  BY <1>2, <1>3 DEF Clients!Next

LEMMA StoppedIsOver ==
  ASSUME NEW g \in Gen, LifeOf(g) = "current", open \subseteq Pair,
         \A h \in Gen : LifeOf(h)' = IF h = g THEN "over" ELSE LifeOf(h),
         open' = {x \in open : x[1] # g}, Due' = Due, halted' = halted
  PROVE  Clients!Next
<1>1. [h \in Gen |-> LifeOf(h)]' # [h \in Gen |-> LifeOf(h)]
  OBVIOUS
<1>2. open' = open \ Clients!Of(g)
  BY DEF Clients!Of, Pair, Proto
<1>3. Clients!Stops(g)
  BY <1>2 DEF Clients!Stops, Due
<1> QED
  BY <1>1, <1>3 DEF Clients!Next

LEMMA HTTPCloses ==
  ASSUME NEW g \in Gen, LifeOf(g) = "retired",
         <<g, "http">> \in open => g \in Due,
         \A h \in Gen : LifeOf(h)' = IF h = g THEN "closing" ELSE LifeOf(h),
         open' = open \ {<<g, "http">>}, Due' = Due, halted' = halted
  PROVE  Clients!Next
<1>1. [h \in Gen |-> LifeOf(h)]' # [h \in Gen |-> LifeOf(h)]
  OBVIOUS
<1>2. Clients!ClosesHTTP(g)
  BY DEF Clients!ClosesHTTP, Clients!ClosesServer, Due
<1> QED
  BY <1>1, <1>2 DEF Clients!Next

LEMMA SOCKSCloses ==
  ASSUME NEW g \in Gen, LifeOf(g) = "closing",
         <<g, "socks">> \in open => g \in Due,
         \A h \in Gen : LifeOf(h)' = IF h = g THEN "over" ELSE LifeOf(h),
         open' = open \ {<<g, "socks">>}, Due' = Due \ {g}, halted' = halted
  PROVE  Clients!Next
<1>1. [h \in Gen |-> LifeOf(h)]' # [h \in Gen |-> LifeOf(h)]
  OBVIOUS
<1>2. Clients!ClosesSOCKS(g)
  BY DEF Clients!ClosesSOCKS, Clients!ClosesServer, Due
<1> QED
  BY <1>1, <1>2 DEF Clients!Next

LEMMA TimeIsOver ==
  ASSUME \A h \in Gen : LifeOf(h)' = LifeOf(h), expired \subseteq expired', expired' \subseteq Gen,
         open' = open, halted' = halted
  PROVE  Clients!Next \/ UNCHANGED Clients!vars
<1>1. Due \subseteq Due' /\ \A g \in Due' : g \in Gen /\ LifeOf(g) \in {"retired", "closing"}
  BY DEF Due
<1>2. CASE Due' = Due
  BY <1>2, Stutters
<1>3. CASE Due' # Due
  <2>1. Clients!TimesOut
    BY <1>1, <1>3 DEF Clients!TimesOut, Clients!Replaced, Due
  <2> QED
    BY <2>1 DEF Clients!Next
<1> QED
  BY <1>2, <1>3

LEMMA SessionBegins ==
  ASSUME NEW g \in Gen, NEW p \in Proto, <<g, p>> \notin open, open' = open \cup {<<g, p>>},
         \/ LifeOf(g) = "current"
         \/ LifeOf(g) = "retired" /\ p = "http"
         \/ LifeOf(g) = "over" /\ halted,
         \A h \in Gen : LifeOf(h)' = LifeOf(h), Due' = Due, halted' = halted
  PROVE  Clients!Next
<1>1. Clients!Begins(g, p)
  BY DEF Clients!Begins, Due
<1> QED
  BY <1>1 DEF Clients!Next, Proto

LEMMA SessionGoes ==
  ASSUME NEW g \in Gen, NEW p \in Proto, open' = open \ {<<g, p>>},
         \A h \in Gen : LifeOf(h)' = LifeOf(h), Due' = Due, halted' = halted
  PROVE  Clients!Next \/ UNCHANGED Clients!vars
<1>1. CASE <<g, p>> \in open
  <2>1. Clients!Ends(g, p)
    BY <1>1 DEF Clients!Ends, Due
  <2> QED
    BY <1>1, <2>1 DEF Clients!Next, Proto
<1>2. CASE <<g, p>> \notin open
  <2>1. open' = open
    BY <1>2
  <2> QED
    BY <2>1, Stutters
<1> QED
  BY <1>1, <1>2

LEMMA SessionsAreCut ==
  ASSUME halted, open' \subseteq open,
         \A h \in Gen : LifeOf(h)' = LifeOf(h), Due' = Due, halted' = halted
  PROVE  Clients!Next \/ UNCHANGED Clients!vars
<1>1. Clients!Cuts
  BY DEF Clients!Cuts, Due
<1>2. CASE open' = open
  BY <1>2, Stutters
<1> QED
  BY <1>1, <1>2 DEF Clients!Next

\* A server that accepts was created, and is not shut.
LEMMA AcceptServes ==
  ASSUME SuccInv, NEW g \in Gen, NEW p \in Proto, Accept(g, p)
  PROVE  g <= ngen /\ ~Shut(g) /\ (p = "http" => drain[g] \notin AfterHTTP)
<1>0. /\ NotYet /\ HTTPSilent /\ DrainOrder /\ ngen \in Nat /\ g \in Nat
      /\ p \in {"socks", "http"} /\ {"socks", "http"} \subseteq Proto
  BY SuccFacts DEF SuccInv, LossInv, IndInv, DrainInv, Proto
<1>1. CASE p = "socks"
  <2>1. lst[<<g, "socks">>] = "serving"
    BY <1>1 DEF Accept
  <2>2. g <= ngen
    BY <1>0, <2>1 DEF NotYet
  <2> QED
    BY <1>0, <1>1, <2>1, <2>2 DEF Shut
<1>2. CASE p = "http"
  <2>1. <<g, "http">> \in ready /\ <<g, "http">> \notin refuses
    BY <1>2 DEF Accept
  <2>2. g <= ngen /\ Has(g, "http")
    BY <1>0, <2>1 DEF HTTPSilent
  <2>3. drain[g] \notin AfterHTTP
    BY <2>1, <2>2 , <1>0 DEF DrainOrder
  <2> QED
    BY <1>0, <2>1, <2>2, <2>3 DEF Shut
<1> QED
  BY <1>0, <1>1, <1>2

\* When the program ends every generation is over, and nothing else is promised.
LEMMA HaltedClients ==
  ASSUME SuccInv, [Next]_vars, halted
  PROVE  Clients!Next \/ UNCHANGED Clients!vars
<1>0. /\ TypeInv /\ ngen \in Nat /\ Gen \subseteq Nat /\ ctxDone = Gen /\ ctxDone' = Gen
      /\ halted' = halted /\ NotYet /\ HTTPSilent
      /\ Proto = {"socks", "http"}
  <2>1. ctxDone = Gen /\ NotYet /\ HTTPSilent
    BY DEF SuccInv, HaltEnds, LossInv, IndInv, DrainInv
  <2>2. halted' = halted /\ ctxDone' = Gen
    BY <2>1, SuccFacts, ContextSteps DEF Interrupt
  <2> QED
    BY <2>1, <2>2, SuccFacts DEF Proto
<1>1. \A g \in Gen : LifeOf(g) = (IF g > ngen THEN "none" ELSE "over")
  BY <1>0 DEF LifeOf
<1>2. \A g \in Gen : LifeOf(g)' = (IF g > ngen' THEN "none" ELSE "over")
  BY <1>0 DEF LifeOf
<1>3. Due = {} /\ Due' = {}
  <2>1. expired \subseteq Gen
    BY SuccFacts
  <2>2. \A g \in Gen : g \notin Due
    BY <1>1 DEF Due
  <2>3. \A g \in Gen : g \notin Due'
    BY <1>2 DEF Due
  <2>4. expired' \subseteq Gen
    <3>1. TypeOK'
      BY <1>0, TypeStep
    <3> QED
      BY <3>1 DEF TypeOK
  <2> QED
    BY <2>1, <2>2, <2>3, <2>4 DEF Due
<1>4. CASE ngen' # ngen
  <2>1. ngen + 1 \in Gen /\ ngen' = ngen + 1 /\ open' = open
    BY <1>0, <1>4, StepCreates DEF Create
  <2>2. /\ \A h \in Gen : LifeOf(h) # "none" => h < ngen + 1
        /\ \A h \in Gen : LifeOf(h)' = IF h = ngen + 1 THEN "over" ELSE LifeOf(h)
    BY <1>0, <1>1, <1>2, <2>1
  <2> QED
    BY <1>0, <1>3, <2>1, <2>2, IsStillborn
<1>5. CASE ngen' = ngen
  <2>1. \A h \in Gen : LifeOf(h)' = LifeOf(h)
    BY <1>1, <1>2, <1>5
  <2>2. CASE open' \subseteq open
    BY <1>0, <1>3, <2>1, <2>2, SessionsAreCut
  <2>3. CASE ~(open' \subseteq open)
    <3>1. PICK g \in Gen, p \in Proto : Accept(g, p)
      <4>1. CASE Transition
        BY <2>3, <4>1 DEF Transition, StartAll, BeginReload, PreflightFails, ReloadNothing,
           EnableNew, DisableOld, HotSwap, NewReady, NewFails, DropNew, RestorePlaceholder,
           Rollback, RollbackSettles, Remove, StopJoined, Shutdown, srvVars
      <4>2. ASSUME NEW g \in Gen, NEW p \in Proto, ListenerLoop(g, p) \/ AcceptFails(g, p)
            PROVE  open' \subseteq open
        BY <4>2 DEF ListenerLoop, Bind, Install, Retry, Watch, AcceptFails, listenerRest
      <4>3. ASSUME NEW g \in Gen, Drainer(g) PROVE open' \subseteq open
        BY <4>3 DEF Drainer, DrainBegin, DrainEnd, DrainJoin, DrainExpires
      <4>4. Administrator \/ Interrupt \/ Closing \/ UNCHANGED vars => open' \subseteq open
        BY DEF Administrator, SaveConfig, DeleteRow, Interrupt, Closing, CloseTake,
           CloseShutdown, CloseJoined, CloseDone, Shutdown, srvVars, vars
      <4>5. ASSUME NEW g \in Gen, NEW p \in Proto, SessionEnds(g, p)
            PROVE  open' \subseteq open
        BY <4>5 DEF SessionEnds
      <4> QED
        BY <2>3, <4>1, <4>2, <4>3, <4>4, <4>5 DEF Next, Sessions
    <3>2. g <= ngen
      BY <1>0, <3>1, AcceptServes
    <3>3. LifeOf(g) = "over"
      BY <1>0, <1>1, <3>2
    <3> QED
      BY <1>0, <1>3, <2>1, <3>1, <3>3, SessionBegins DEF Accept
  <2> QED
    BY <2>2, <2>3
<1> QED
  BY <1>4, <1>5

\* The signal
LEMMA InterruptClients ==
  ASSUME SuccInv, Interrupt
  PROVE  Clients!Next
<1>1. \A g \in Gen : LifeOf(g)' = IF LifeOf(g) = "none" THEN "none" ELSE "over"
  BY DEF Interrupt, LifeOf, closeRest, genVars
<1>2. Due' = {}
  <2>1. expired' = expired /\ expired \subseteq Gen
    BY SuccFacts DEF Interrupt, drainVars
  <2> QED
    BY <1>1, <2>1 DEF Due
<1>3. Clients!Halts
  BY <1>1, <1>2 DEF Clients!Halts, Due, Interrupt, srvVars
<1> QED
  BY <1>3 DEF Clients!Next

\* A generation is created and serves in the place of the one in the map, or is stopped
\* before it was started.
LEMMA CreateClients ==
  ASSUME SuccInv, [Next]_vars, ~halted, ngen' # ngen
  PROVE  Clients!Next
<1>0. /\ TypeInv /\ CallInv /\ ngen \in Nat /\ Gen \subseteq Nat /\ ngen + 1 \in Gen
      /\ ngen' = ngen + 1 /\ open' = open /\ halted' = halted /\ closer' = closer
      /\ instances' = ngen + 1 /\ drain' = drain /\ expired' = expired
      /\ expired \subseteq Gen /\ instances \in 0..ngen
      /\ StartAll \/ EnableNew \/ HotSwap \/ Rollback
  <2>1. /\ instances' = ngen + 1 /\ ngen' = ngen + 1 /\ ngen \in Nat
        /\ StartAll \/ EnableNew \/ HotSwap \/ Rollback
    BY SuccFacts, Creates
  <2>2. ngen + 1 \in Gen /\ open' = open
    BY <2>1, SuccFacts, StepCreates
  <2>3. drain' = drain /\ expired' = expired /\ closer' = closer /\ halted' = halted
    BY <2>1 DEF StartAll, EnableNew, HotSwap, Rollback, drainVars, closeVars
  <2> QED
    BY <2>1, <2>2, <2>3, SuccFacts
<1>1. closer # "taken" /\ ngen + 1 \notin ctxDone /\ drain[ngen + 1] = "none"
  <2>1. ~closed
    BY <1>0, CloseKeeps DEF Transition
  <2>2. ngen + 1 \notin ctxDone
    BY <1>0 DEF SuccInv, OverIsShut
  <2>3. drain[ngen + 1] = "none"
    <3>1. \A h \in Gen : drain[h] # "none" => h <= ngen
      BY DEF SuccInv, LossInv, DrainInv, DrainOrder
    <3> QED
      BY <1>0, <3>1
  <2> QED
    BY <2>1, <2>2, <2>3 DEF closed
<1>2. \A h \in Gen : LifeOf(h) # "none" => h < ngen + 1
  BY <1>0 DEF LifeOf
<1>3. LifeOf(ngen + 1) = "none"
  BY <1>0 DEF LifeOf
<1>4. CASE ctxDone' = ctxDone
  <2>1. \A h \in Gen : LifeOf(h)' = IF h = ngen + 1 THEN "current"
                       ELSE IF LifeOf(h) = "current" THEN "retired" ELSE LifeOf(h)
    <3> SUFFICES ASSUME NEW h \in Gen
                 PROVE  LifeOf(h)' = IF h = ngen + 1 THEN "current"
                          ELSE IF LifeOf(h) = "current" THEN "retired" ELSE LifeOf(h)
      OBVIOUS
    <3>1. h \in Nat /\ (h > ngen' <=> h > ngen + 1)
      BY <1>0
    <3>2. CASE h = ngen + 1
      BY <1>0, <1>1, <1>4, <3>1, <3>2 DEF LifeOf, AfterHTTP
    <3>3. CASE h > ngen + 1
      BY <1>0, <3>1, <3>3 DEF LifeOf
    <3>4. CASE h <= ngen
      BY <1>0, <1>1, <1>4, <3>1, <3>4 DEF LifeOf
    <3> QED
      BY <1>0, <3>1, <3>2, <3>3, <3>4
  <2>2. Due' = Due
    <3>1. \A h \in expired : LifeOf(h)' \in {"retired", "closing"}
                             <=> LifeOf(h) \in {"retired", "closing"}
      <4> SUFFICES ASSUME NEW h \in expired
                   PROVE  LifeOf(h)' \in {"retired", "closing"}
                          <=> LifeOf(h) \in {"retired", "closing"}
        OBVIOUS
      <4>1. h \in Gen /\ h # instances /\ h # ngen + 1
        <5>1. h \in Gen
          BY <1>0
        <5>2. drain[h] # "none" /\ h # instances
          BY <5>1 DEF SuccInv, DrainLeaves
        <5> QED
          BY <1>1, <5>1, <5>2
      <4>2. LifeOf(h) # "current"
        BY <1>1, <4>1 DEF LifeOf
      <4> QED
        BY <2>1, <4>1, <4>2
    <3> QED
      BY <1>0, <3>1 DEF Due
  <2> QED
    BY <1>0, <1>2, <2>1, <2>2, DoesSucceed
<1>5. CASE ctxDone' # ctxDone
  <2>1. /\ StartAll /\ ctxDone' = ctxDone \cup {ngen + 1}
    BY <1>0, <1>5 DEF StartAll, EnableNew, HotSwap, Rollback
  <2>2. ngen = 0
    BY <1>0, <2>1 DEF StartAll, CallInv
  <2>3. \A h \in Gen : LifeOf(h)' = IF h = ngen + 1 THEN "over" ELSE LifeOf(h)
    BY <1>0, <2>1, <2>2 DEF LifeOf, Gen
  <2>4. \A h \in Gen : LifeOf(h) = "none"
    BY <1>0, <2>2 DEF LifeOf, Gen
  <2>5. Due' = Due
    <3>1. \A h \in Gen : LifeOf(h) \notin {"retired", "closing"}
      BY <2>4
    <3>2. \A h \in Gen : LifeOf(h)' \notin {"retired", "closing"}
      BY <2>3, <3>1
    <3>3. Due = {}
      BY <1>0, <3>1 DEF Due
    <3>4. Due' = {}
      BY <1>0, <3>2 DEF Due
    <3> QED
      BY <3>3, <3>4
  <2> QED
    BY <1>0, <1>2, <2>3, <2>5, IsStillborn
<1> QED
  BY <1>4, <1>5

\* What nobody stopped, and is served or was created last, has its place.
LEMMA ServesCurrent ==
  ASSUME SuccInv, NEW g \in Gen, g <= ngen, g \notin ctxDone
  PROVE  /\ Serves(g) => LifeOf(g) = "current" /\ drain[g] = "none"
         /\ ~Serves(g) => LifeOf(g) = IF drain[g] \in AfterHTTP THEN "closing" ELSE "retired"
<1>1. Serves(g) => drain[g] = "none"
  BY DEF SuccInv, DrainLeaves, Serves, closed
<1>2. ngen \in Nat /\ g \in Nat
  BY SuccFacts
<1> QED
  BY <1>1, <1>2 DEF LifeOf, Serves, AfterHTTP

\* The generation in the map, or the one Close took out of it, is stopped.
LEMMA StopClients ==
  ASSUME SuccInv, ~halted, NEW g \in Gen, g <= ngen, Serves(g), Shutdown(g),
         ngen' = ngen, halted' = halted, drain' = drain, expired' = expired,
         \A h \in Gen : h # g => (Serves(h)' <=> Serves(h))
  PROVE  Clients!Next \/ UNCHANGED Clients!vars
<1>0. /\ ngen \in Nat /\ Gen \subseteq Nat /\ g \in Nat
      /\ open \subseteq Pair /\ expired \subseteq Gen /\ Proto = {"socks", "http"}
  BY SuccFacts DEF Proto
<1>1. ctxDone' = ctxDone \cup {g} /\ open' = {x \in open : x[1] # g}
  BY DEF Shutdown
<1>2. \A h \in Gen : h # g => LifeOf(h)' = LifeOf(h)
  BY <1>1, LifeGoesOn
<1>3. LifeOf(g)' = "over"
  BY <1>0, <1>1 DEF LifeOf
<1>4. CASE g \in ctxDone
  <2>1. LifeOf(g) = "over" /\ Shut(g)
    BY <1>0, <1>4 DEF LifeOf, SuccInv, OverIsShut
  <2>2. open' = open
    BY <1>0, <1>1, <2>1 DEF Shut, Pair
  <2>3. \A h \in Gen : LifeOf(h)' = LifeOf(h)
    BY <1>2, <1>3, <2>1
  <2>4. Due' = Due
    BY <1>0, <2>3 DEF Due
  <2> QED
    BY <2>2, <2>3, <2>4, Stutters
<1>5. CASE g \notin ctxDone
  <2>1. LifeOf(g) = "current"
    BY <1>5, ServesCurrent
  <2>2. \A h \in Gen : LifeOf(h)' = IF h = g THEN "over" ELSE LifeOf(h)
    BY <1>2, <1>3
  <2>3. Due' = Due
    BY <1>0, <2>1, <2>2 DEF Due
  <2> QED
    BY <1>0, <1>1, <2>1, <2>2, <2>3, StoppedIsOver
<1> QED
  BY <1>4, <1>5

\* The HTTP server of a replaced generation is closed, or it has none.
LEMMA HTTPClients ==
  ASSUME SuccInv, NEW g \in Gen, g <= ngen, ~halted, drain[g] \notin AfterHTTP,
         ~Serves(g), ~Serves(g)',
         <<g, "http">> \in open => g \in expired,
         open' = open \ {<<g, "http">>}, expired' = expired, ctxDone' = ctxDone,
         ngen' = ngen, halted' = halted, drain'[g] \in AfterHTTP,
         \A h \in Gen : h # g => drain'[h] = drain[h] /\ (Serves(h)' <=> Serves(h))
  PROVE  Clients!Next \/ UNCHANGED Clients!vars
<1>0. ngen \in Nat /\ g \in Nat /\ expired \subseteq Gen /\ "http" \in Proto
  BY SuccFacts DEF Proto
<1>1. \A h \in Gen : h # g => LifeOf(h)' = LifeOf(h)
  BY LifeGoesOn
<1>2. CASE g \in ctxDone
  <2>1. Shut(g)
    BY <1>2 DEF SuccInv, OverIsShut
  <2>2. open' = open
    BY <1>0, <2>1 DEF Shut
  <2>3. \A h \in Gen : LifeOf(h)' = LifeOf(h)
    BY <1>1, <1>2, LifeGoesOn
  <2>4. Due' = Due
    BY <1>0, <2>3 DEF Due
  <2> QED
    BY <2>2, <2>3, <2>4, Stutters
<1>3. CASE g \notin ctxDone
  <2>1. LifeOf(g) = "retired"
    BY <1>3, ServesCurrent
  <2>2. LifeOf(g)' = "closing"
    BY <1>0, <1>3 DEF LifeOf
  <2>3. \A h \in Gen : LifeOf(h)' = IF h = g THEN "closing" ELSE LifeOf(h)
    BY <1>1, <2>2
  <2>4. Due' = Due
    BY <1>0, <2>1, <2>3 DEF Due
  <2>5. <<g, "http">> \in open => g \in Due
    BY <2>1 DEF Due
  <2> QED
    BY <2>1, <2>3, <2>4, <2>5, HTTPCloses
<1> QED
  BY <1>2, <1>3

\* The drain of a replaced generation
LEMMA DrainClients ==
  ASSUME SuccInv, [Next]_vars, ~halted, NEW g \in Gen, Drainer(g)
  PROVE  Clients!Next \/ UNCHANGED Clients!vars
<1>0. /\ ngen \in Nat /\ g \in Nat /\ expired \subseteq Gen /\ Proto = {"socks", "http"}
      /\ drain \in [Gen -> DrainState] /\ TypeInv
  BY SuccFacts DEF Proto
<1>1. /\ ngen' = ngen /\ instances' = instances /\ closer' = closer /\ victim' = victim
      /\ halted' = halted
  BY DEF Drainer, DrainBegin, DrainEnd, DrainJoin, DrainExpires, drainRest, genVars, closeVars
<1>2. \A h \in Gen : Serves(h)' <=> Serves(h)
  BY <1>1 DEF Serves
<1>3. drain[g] # "none" => g <= ngen /\ ~Serves(g)
  <2>1. DrainOrder /\ DrainLeaves
    BY DEF SuccInv, LossInv, DrainInv
  <2> QED
    BY <2>1 DEF DrainOrder, DrainLeaves, Serves, closed
<1>4. ASSUME NEW p \in Proto, DrainBegin(g, p) PROVE UNCHANGED Clients!vars
  <2>1. /\ open' = open /\ expired' = expired /\ ctxDone' = ctxDone
        /\ \A h \in Gen : drain[h] \in AfterHTTP <=> drain'[h] \in AfterHTTP
    BY <1>0, <1>4 DEF DrainBegin, AfterHTTP
  <2>2. \A h \in Gen : LifeOf(h)' = LifeOf(h)
    BY <1>1, <1>2, <2>1, LifeGoesOn
  <2>3. Due' = Due
    BY <1>0, <2>1, <2>2 DEF Due
  <2> QED
    BY <1>1, <2>1, <2>2, <2>3, Stutters
<1>5. CASE DrainEnd(g, "http")
  <2>1. /\ drain[g] = "httpWait" /\ drain' = [drain EXCEPT ![g] = "socks"]
        /\ <<g, "http">> \notin open \/ g \in expired
        /\ open' = open \ {<<g, "http">>} /\ ctxDone' = ctxDone /\ expired' = expired
    BY <1>5 DEF DrainEnd, AfterDrain
  <2>2. \A h \in Gen : h # g => drain'[h] = drain[h]
    BY <1>0, <2>1
  <2>3. drain'[g] \in AfterHTTP /\ drain[g] \notin AfterHTTP
    BY <1>0, <2>1 DEF AfterHTTP
  <2> QED
    BY <1>1, <1>2, <1>3, <2>1, <2>2, <2>3, HTTPClients
<1>6. CASE DrainEnd(g, "socks")
  <2>1. /\ drain[g] = "socksWait" /\ drain' = [drain EXCEPT ![g] = "join"]
        /\ <<g, "socks">> \notin open \/ g \in expired
        /\ open' = open \ {<<g, "socks">>} /\ ctxDone' = ctxDone \cup {g} /\ expired' = expired
    BY <1>6 DEF DrainEnd, AfterDrain
  <2>2. \A h \in Gen : h # g => drain'[h] = drain[h] /\ LifeOf(h)' = LifeOf(h)
    BY <1>0, <1>1, <1>2, <2>1, LifeGoesOn
  <2>3. LifeOf(g)' = "over"
    BY <1>0, <1>1, <1>3, <2>1 DEF LifeOf
  <2>4. CASE g \in ctxDone
    <3>1. Shut(g) /\ LifeOf(g) = "over"
      BY <1>0, <1>3, <2>1, <2>4 DEF SuccInv, OverIsShut, LifeOf
    <3>2. open' = open /\ \A h \in Gen : LifeOf(h)' = LifeOf(h)
      BY <1>0, <2>1, <2>2, <2>3, <3>1 DEF Shut
    <3>3. Due' = Due
      BY <1>0, <2>1, <3>2 DEF Due
    <3> QED
      BY <1>1, <3>2, <3>3, Stutters
  <2>5. CASE g \notin ctxDone
    <3>1. LifeOf(g) = "closing"
      BY <1>3, <2>1, <2>5, ServesCurrent DEF AfterHTTP
    <3>2. \A h \in Gen : LifeOf(h)' = IF h = g THEN "over" ELSE LifeOf(h)
      BY <2>2, <2>3
    <3>3. Due' = Due \ {g} /\ (<<g, "socks">> \in open => g \in Due)
      BY <1>0, <2>1, <3>1, <3>2 DEF Due
    <3> QED
      BY <1>1, <2>1, <3>1, <3>2, <3>3, SOCKSCloses
  <2> QED
    BY <2>4, <2>5
<1>7. CASE DrainJoin(g)
  <2>1. /\ drain[g] = "join" /\ drain' = [drain EXCEPT ![g] = "done"]
        /\ open' = open /\ ctxDone' = ctxDone /\ expired' = expired \ {g}
    BY <1>7 DEF DrainJoin
  <2>2. \A h \in Gen : drain[h] \in AfterHTTP <=> drain'[h] \in AfterHTTP
    BY <1>0, <2>1 DEF AfterHTTP
  <2>3. \A h \in Gen : LifeOf(h)' = LifeOf(h)
    BY <1>1, <1>2, <2>1, <2>2, LifeGoesOn
  <2>4. LifeOf(g) = "over"
    BY <1>0, <1>3, <2>1 DEF SuccInv, DrainLeaves, LifeOf
  <2>5. Due' = Due
    BY <1>0, <2>1, <2>3, <2>4 DEF Due
  <2> QED
    BY <1>1, <2>1, <2>3, <2>5, Stutters
<1>8. CASE DrainExpires(g)
  <2>1. drain' = drain /\ open' = open /\ ctxDone' = ctxDone /\ expired' = expired \cup {g}
    BY <1>8 DEF DrainExpires
  <2>2. \A h \in Gen : LifeOf(h)' = LifeOf(h)
    BY <1>1, <1>2, <2>1, LifeGoesOn
  <2> QED
    BY <1>0, <1>1, <2>1, <2>2, TimeIsOver
<1> QED
  BY <1>0, <1>4, <1>5, <1>6, <1>7, <1>8 DEF Drainer

\* What changes neither the generations nor a drain, nor any session, is not seen.
LEMMA NobodySees ==
  ASSUME SuccInv, ngen' = ngen, ctxDone' = ctxDone, drain' = drain, expired' = expired,
         open' = open, halted' = halted,
         \A h \in Gen : h \notin ctxDone => (Serves(h)' <=> Serves(h))
  PROVE  UNCHANGED Clients!vars
<1>1. \A h \in Gen : LifeOf(h)' = LifeOf(h)
  BY LifeGoesOn
<1>2. Due' = Due
  BY <1>1, SuccFacts DEF Due
<1> QED
  BY <1>1, <1>2, Stutters

\* A call that settles lets the generation it replaced drain.
LEMMA SettleClients ==
  ASSUME SuccInv, [Next]_vars, ~halted, op.old # None, ScheduleDrain(op.old),
         op.step \in {"waitNew", "waitBack"}, ngen' = ngen, ctxDone' = ctxDone,
         expired' = expired, open' = open, halted' = halted,
         instances' = instances, closer' = closer, victim' = victim
  PROVE  Clients!Next \/ UNCHANGED Clients!vars
<1>g. PICK g \in Gen : g = op.old
  BY SuccFacts
<1>0. /\ ngen \in Nat /\ g \in Gen /\ g <= ngen /\ drain \in [Gen -> DrainState]
      /\ TypeInv /\ expired \subseteq Gen /\ op.step \in {"waitNew", "waitBack"}
      /\ ScheduleDrain(g)
  BY <1>g, SuccFacts
<1>1. \A h \in Gen : Serves(h)' <=> Serves(h)
  BY DEF Serves
<1>2. drain[g] = "none" /\ ~Serves(g) /\ g \notin expired
  <2>1. CallOrder /\ CallOwns /\ DrainLeaves
    BY DEF SuccInv, LossInv
  <2>2. drain[g] = "none" /\ g # instances
    BY <1>0, <1>g, <2>1 DEF CallOrder
  <2>3. ~closed
    BY <1>0, <2>1 DEF CallOwns
  <2> QED
    BY <1>0, <2>1, <2>2, <2>3 DEF DrainLeaves, Serves, closed
<1>3. /\ \A h \in Gen : h # g => drain'[h] = drain[h]
      /\ drain'[g] = IF Has(g, "http") THEN "http" ELSE "socks"
  BY <1>0 DEF ScheduleDrain
<1>4. CASE Has(g, "http")
  <2>1. \A h \in Gen : drain[h] \in AfterHTTP <=> drain'[h] \in AfterHTTP
    BY <1>2, <1>3, <1>4 DEF AfterHTTP
  <2>2. \A h \in Gen : LifeOf(h)' = LifeOf(h)
    BY <1>1, <2>1, LifeGoesOn
  <2>3. Due' = Due
    BY <1>0, <2>2 DEF Due
  <2> QED
    BY <2>2, <2>3, Stutters
<1>5. CASE ~Has(g, "http")
  <2>1. <<g, "http">> \notin open
    <3>1. \A h \in Gen : ~Has(h, "http") => <<h, "http">> \notin open
      BY DEF SuccInv, LossInv, DrainInv, HTTPSilent
    <3> QED
      BY <1>0, <1>5, <3>1
  <2>2. drain'[g] \in AfterHTTP /\ drain[g] \notin AfterHTTP
    BY <1>2, <1>3, <1>5 DEF AfterHTTP
  <2>3. open' = open \ {<<g, "http">>}
    BY <2>1
  <2>4. ~Serves(g)'
    BY <1>0, <1>1, <1>2
  <2> QED
    BY <1>0, <1>1, <1>2, <1>3, <2>1, <2>2, <2>3, <2>4, HTTPClients
<1> QED
  BY <1>4, <1>5

\* A call that creates nothing
LEMMA CallClients ==
  ASSUME SuccInv, [Next]_vars, ~halted, ngen' = ngen, Transition
  PROVE  Clients!Next \/ UNCHANGED Clients!vars
<1>0. /\ TypeInv /\ CallInv /\ ngen \in Nat /\ op \in OpType(ngen)
      /\ instances \in 0..ngen /\ op.old \in 0..ngen /\ op.new \in 0..ngen
      /\ \A n \in 0..ngen : n \in Gen \/ n = None
      /\ CallOrder /\ StartedOrOver
  BY SuccFacts DEF SuccInv
<1>a. closer # "taken" /\ \A h \in Gen : Serves(h) <=> h = instances
  <2>1. ~closed
    BY CloseKeeps
  <2> QED
    BY <2>1 DEF closed, Serves
<1> USE DEF genVars, srvVars, drainVars, closeVars
<1>1. CASE DisableOld \/ Remove \/ NewFails
  <2>1. PICK g \in 0..ngen :
          /\ g # None /\ g = instances /\ Shutdown(g)
          /\ instances' = instances \/ instances' = None
    <3>1. CASE DisableOld
      BY <1>0, <3>1 DEF DisableOld, CallInv
    <3>2. CASE Remove
      BY <1>0, <3>2 DEF Remove
    <3>3. CASE NewFails
      BY <1>0, <3>3 DEF NewFails, CallInv
    <3> QED
      BY <1>1, <3>1, <3>2, <3>3
  <2>2. g \in Gen /\ g <= ngen /\ Serves(g)
    BY <1>0, <1>a, <2>1
  <2>3. /\ drain' = drain /\ expired' = expired /\ halted' = halted /\ closer' = closer
    BY <1>1 DEF DisableOld, Remove, NewFails
  <2>4. \A h \in Gen : h # g => (Serves(h)' <=> Serves(h))
    BY <1>a, <2>1, <2>3 DEF Serves, Gen, None
  <2> QED
    BY <2>1, <2>2, <2>3, <2>4, StopClients
<1>2. CASE (NewReady /\ op.old # None) \/ RollbackSettles
  <2>1. op.old # None /\ ScheduleDrain(op.old) /\ op.step \in {"waitNew", "waitBack"}
    BY <1>0, <1>2 DEF NewReady, RollbackSettles, CallInv
  <2>2. /\ ctxDone' = ctxDone /\ expired' = expired /\ open' = open /\ halted' = halted
        /\ instances' = instances /\ closer' = closer /\ victim' = victim
    BY <1>2 DEF NewReady, RollbackSettles
  <2> QED
    BY <2>1, <2>2, SettleClients
<1>3. CASE DropNew \/ RestorePlaceholder
  <2>1. /\ ctxDone' = ctxDone /\ drain' = drain /\ expired' = expired /\ open' = open
        /\ halted' = halted /\ closer' = closer /\ victim' = victim
        /\ instances = op.new /\ op.new \in ctxDone
    BY <1>0, <1>3 DEF DropNew, RestorePlaceholder, CallInv, CallOrder
  <2>2. instances' = None \/ instances' \in ctxDone
    <3>1. CASE RestorePlaceholder
      <4>1. op.old \in Gen /\ op.old <= ngen /\ op.old \notin launched
        BY <1>0, <3>1 DEF RestorePlaceholder
      <4> QED
        BY <1>0, <3>1, <4>1 DEF RestorePlaceholder, StartedOrOver
    <3> QED
      BY <1>3, <3>1 DEF DropNew
  <2>3. \A h \in Gen : h \notin ctxDone => (Serves(h)' <=> Serves(h))
    BY <1>a, <2>1, <2>2 DEF Serves, Gen, None
  <2> QED
    BY <2>1, <2>3, NobodySees
<1>4. CASE \/ StartAll \/ BeginReload \/ PreflightFails \/ ReloadNothing \/ StopJoined
           \/ NewReady /\ op.old = None
  <2>1. /\ ctxDone' = ctxDone /\ drain' = drain /\ expired' = expired /\ open' = open
        /\ halted' = halted /\ closer' = closer /\ victim' = victim /\ instances' = instances
    <3>1. CASE StartAll
      <4>1. ~(stored.row /\ stored.on)
        BY <1>0, <3>1 DEF StartAll, Create
      <4> QED
        BY <3>1, <4>1 DEF StartAll
    <3>2. CASE BeginReload \/ PreflightFails \/ ReloadNothing \/ StopJoined
      BY <3>2 DEF BeginReload, PreflightFails, ReloadNothing, StopJoined
    <3>3. CASE NewReady /\ op.old = None
      BY <3>3 DEF NewReady
    <3> QED
      BY <1>4, <3>1, <3>2, <3>3
  <2>2. \A h \in Gen : Serves(h)' <=> Serves(h)
    BY <2>1 DEF Serves
  <2> QED
    BY <2>1, <2>2, NobodySees
<1>5. ~(EnableNew \/ HotSwap \/ Rollback)
  BY <1>0 DEF EnableNew, HotSwap, Rollback, Create
<1> QED
  BY <1>1, <1>2, <1>3, <1>4, <1>5 DEF Transition

\* Close
LEMMA CloseClients ==
  ASSUME SuccInv, ~halted, Closing
  PROVE  Clients!Next \/ UNCHANGED Clients!vars
<1>0. /\ ngen \in Nat /\ victim \in 0..ngen /\ expired \subseteq Gen
      /\ \A n \in 0..ngen : n \in Gen \/ n = None
  BY SuccFacts
<1> USE DEF genVars, srvVars, drainVars
<1>1. ngen' = ngen /\ drain' = drain /\ halted' = halted
  BY DEF Closing, CloseTake, CloseShutdown, CloseJoined, CloseDone, closeRest
<1>2. CASE CloseTake
  <2>1. /\ ctxDone' = ctxDone /\ open' = open /\ closer = "open" /\ closer' = "taken"
        /\ victim' = instances /\ instances' = None /\ expired \subseteq expired'
        /\ expired' \subseteq Gen
    BY <1>0, <1>2 DEF CloseTake
  <2>2. \A h \in Gen : Serves(h)' <=> Serves(h)
    BY <2>1 DEF Serves, Gen, None
  <2>3. \A h \in Gen : LifeOf(h)' = LifeOf(h)
    BY <1>1, <2>1, <2>2, LifeGoesOn
  <2> QED
    BY <1>1, <2>1, <2>3, TimeIsOver
<1>3. CASE CloseShutdown /\ victim # None
  <2>1. /\ victim \in Gen /\ victim <= ngen /\ Shutdown(victim) /\ closer = "taken"
        /\ closer' = "join" /\ victim' = victim /\ instances' = instances /\ expired' = expired
    BY <1>0, <1>3 DEF CloseShutdown
  <2>2. Serves(victim) /\ \A h \in Gen : h # victim => (Serves(h)' <=> Serves(h))
    BY <2>1 DEF Serves
  <2> QED
    BY <1>1, <2>1, <2>2, StopClients
<1>4. CASE (CloseShutdown /\ victim = None) \/ CloseJoined \/ CloseDone
  <2>1. /\ ctxDone' = ctxDone /\ open' = open /\ expired' = expired /\ victim' = victim
        /\ instances' = instances /\ closer' # "taken"
        /\ closer # "taken" \/ victim = None
    BY <1>4 DEF CloseShutdown, CloseJoined, CloseDone
  <2>2. \A h \in Gen : Serves(h)' <=> Serves(h)
    BY <2>1 DEF Serves, Gen, None
  <2> QED
    BY <1>1, <2>1, <2>2, NobodySees
<1> QED
  BY <1>2, <1>3, <1>4 DEF Closing

\* Sessions, and what a listener loop does to them
LEMMA SessionClients ==
  ASSUME SuccInv, ~halted, NEW g \in Gen, NEW p \in Proto,
         Accept(g, p) \/ SessionEnds(g, p) \/ ListenerLoop(g, p) \/ AcceptFails(g, p)
  PROVE  Clients!Next \/ UNCHANGED Clients!vars
<1>0. "http" \in Proto
  BY DEF Proto
<1> USE DEF genVars, srvVars, drainVars, closeVars
<1>1. /\ ngen' = ngen /\ drain' = drain /\ expired' = expired /\ halted' = halted
      /\ ctxDone' = ctxDone /\ instances' = instances /\ closer' = closer /\ victim' = victim
  BY DEF Accept, SessionEnds, ListenerLoop, Bind, Install, Retry, Watch, AcceptFails,
     listenerRest
<1>2. \A h \in Gen : Serves(h)' <=> Serves(h)
  BY <1>1 DEF Serves
<1>3. \A h \in Gen : LifeOf(h)' = LifeOf(h)
  BY <1>1, <1>2, LifeGoesOn
<1>4. Due' = Due
  BY <1>1, <1>3, SuccFacts DEF Due
<1>5. CASE Accept(g, p)
  <2>1. g <= ngen /\ ~Shut(g) /\ (p = "http" => drain[g] \notin AfterHTTP)
    BY <1>5, AcceptServes
  <2>2. g \notin ctxDone
    BY <2>1 DEF SuccInv, OverIsShut
  <2>3. p = "socks" => Serves(g)
    <3> SUFFICES ASSUME p = "socks" PROVE Serves(g)
      OBVIOUS
    <3>1. lst[<<g, "socks">>] = "serving"
      BY <1>5 DEF Accept
    <3>2. <<g, "socks">> \notin refuses
      BY <3>1 DEF SuccInv, LossInv, IndInv, RefusalEndsLoop
    <3>3. g = instances \/ (closed /\ g = victim)
      BY <2>1, <3>2 DEF SuccInv, GoneRefuses
    <3>4. closed /\ g = victim => closer = "taken"
      <4>1. closer \in {"open", "taken", "join", "drains", "done"}
        BY SuccFacts DEF TypeOK
      <4>2. closer \in {"join", "drains", "done"} /\ g = victim => Shut(g)
        BY DEF SuccInv, LossInv, CloseOwns
      <4> QED
        BY <2>1, <4>1, <4>2 DEF closed
    <3> QED
      BY <3>3, <3>4 DEF Serves
  <2>4. LifeOf(g) = "current" \/ (LifeOf(g) = "retired" /\ p = "http")
    <3>1. p = "socks" \/ p = "http"
      BY DEF Proto
    <3> QED
      BY <2>1, <2>2, <2>3, <3>1, ServesCurrent
  <2>5. <<g, p>> \notin open /\ open' = open \cup {<<g, p>>}
    BY <1>5 DEF Accept
  <2> QED
    BY <1>1, <1>3, <1>4, <2>4, <2>5, SessionBegins
<1>6. CASE SessionEnds(g, p)
  BY <1>1, <1>3, <1>4, <1>6, SessionGoes DEF SessionEnds
<1>7. CASE ListenerLoop(g, p) \/ AcceptFails(g, p)
  <2>1. open' = open \/ open' = open \ {<<g, "http">>}
    BY <1>7 DEF ListenerLoop, Bind, Install, Retry, Watch, AcceptFails, listenerRest
  <2>2. CASE open' = open
    BY <1>1, <1>3, <1>4, <2>2, Stutters
  <2>3. CASE open' = open \ {<<g, "http">>}
    BY <1>0, <1>1, <1>3, <1>4, <2>3, SessionGoes
  <2> QED
    BY <2>1, <2>2, <2>3
<1> QED
  BY <1>5, <1>6, <1>7

\* Every step of the manager is one that its clients may see, or none to them.
LEMMA StepClients == SuccInv /\ [Next]_vars => [Clients!Next]_(Clients!vars)
<1> SUFFICES ASSUME SuccInv, [Next]_vars PROVE Clients!Next \/ UNCHANGED Clients!vars
  OBVIOUS
<1>1. CASE halted
  BY <1>1, HaltedClients
<1>2. CASE ~halted /\ ngen' # ngen
  BY <1>2, CreateClients
<1>3. CASE ~halted /\ ngen' = ngen
  <2>1. CASE Administrator \/ UNCHANGED vars
    <3>1. /\ ctxDone' = ctxDone /\ drain' = drain /\ expired' = expired /\ open' = open
          /\ halted' = halted /\ instances' = instances /\ closer' = closer /\ victim' = victim
      BY <2>1 DEF Administrator, SaveConfig, DeleteRow, vars, genVars, srvVars, drainVars,
         closeVars
    <3>2. \A h \in Gen : Serves(h)' <=> Serves(h)
      BY <3>1 DEF Serves
    <3> QED
      BY <1>3, <3>1, <3>2, NobodySees
  <2>2. CASE Transition
    BY <1>3, <2>2, CallClients
  <2>3. CASE \E g \in Gen, p \in Proto : ListenerLoop(g, p) \/ AcceptFails(g, p)
    BY <1>3, <2>3, SessionClients
  <2>4. CASE Sessions
    BY <1>3, <2>4, SessionClients DEF Sessions
  <2>5. CASE \E g \in Gen : Drainer(g)
    BY <1>3, <2>5, DrainClients
  <2>6. CASE Interrupt
    BY <2>6, InterruptClients
  <2>7. CASE Closing
    BY <1>3, <2>7, CloseClients
  <2> QED
    BY <2>1, <2>2, <2>3, <2>4, <2>5, <2>6, <2>7 DEF Next
<1> QED
  BY <1>1, <1>2, <1>3

\* Before the program starts there is no generation.
LEMMA InitClients == Init => Clients!Init
<1> SUFFICES ASSUME Init PROVE Clients!Init
  OBVIOUS
<1>1. \A g \in Gen : LifeOf(g) = "none"
  BY DEF Init, LifeOf, Gen
<1> QED
  BY <1>1 DEF Init, Clients!Init

\* The clients of a server that is reconfigured, restarted and closed while they use it see
\* generations that succeed one another: only one serves at a time, what was replaced never
\* serves again and is closed in order, and what is over has nothing left
\* (manager.go:220-336, 593-628).
THEOREM ClientsSeeSuccession == Spec => GenerationsSucceed
<1>1. Init => SuccInv /\ Clients!Init
  BY InitSucc, InitClients
<1>2. SuccInv /\ [Next]_vars => SuccInv' /\ [Clients!Next]_(Clients!vars)
  BY SuccStep, StepClients
<1> QED
  BY <1>1, <1>2, PTL DEF Spec, GenerationsSucceed, Clients!Spec

-----------------------------------------------------------------------------
(* Nobody waits for ever                                                   *)

\* What a call or Close waits for has been stopped, and a drain that is left when the
\* manager closes has no time left.
WaitedIsStopped ==
  /\ op.step \in {"disable", "remove"} => op.old \in ctxDone
  /\ closer \in {"join", "drains", "done"} /\ victim # None => victim \in ctxDone
CutShort == closed => \A g \in Gen : Draining(g) => g \in expired

StuckInv == SuccInv /\ WaitedIsStopped /\ CutShort

LEMMA WaitedIsStoppedStep == StuckInv /\ SuccInv' /\ [Next]_vars => WaitedIsStopped'
<1> SUFFICES ASSUME StuckInv, SuccInv', [Next]_vars PROVE WaitedIsStopped'
  OBVIOUS
<1>0. /\ SuccInv /\ TypeInv /\ WaitedIsStopped /\ ctxDone \subseteq ctxDone'
      /\ op \in OpType(ngen)
  <2>1. SuccInv /\ WaitedIsStopped
    BY DEF StuckInv
  <2>2. ctxDone \subseteq Gen /\ TypeInv /\ op \in OpType(ngen)
    BY <2>1, SuccFacts
  <2> QED
    BY <2>1, <2>2, ContextSteps DEF Interrupt
<1>1. ASSUME op'.step \in {"disable", "remove"} PROVE op'.old \in ctxDone'
  <2>1. CASE DisableOld \/ Remove
    BY <1>0, <2>1 DEF DisableOld, Remove, Shutdown, OpType
  <2>2. CASE Transition /\ ~DisableOld /\ ~Remove
    <3>1. op'.step \notin {"disable", "remove"}
      <4>1. CASE StartAll \/ PreflightFails \/ ReloadNothing \/ NewReady \/ DropNew
                 \/ RestorePlaceholder \/ RollbackSettles \/ StopJoined
        <5>1. op' = Idle
          BY <4>1 DEF StartAll, PreflightFails, ReloadNothing, NewReady, DropNew,
             RestorePlaceholder, RollbackSettles, StopJoined
        <5> QED
          BY <5>1, IdleType
      <4>2. CASE BeginReload \/ EnableNew \/ HotSwap \/ Rollback
        BY <4>2 DEF BeginReload, EnableNew, HotSwap, Rollback, Awaiting
      <4>3. CASE NewFails
        BY <1>0, <4>3 DEF NewFails, OpType
      <4> QED
        BY <2>2, <4>1, <4>2, <4>3 DEF Transition
    <3> QED
      BY <1>1, <3>1
  <2>3. CASE ~Transition
    <3>1. op'.step = op.step /\ op'.old = op.old
      BY <1>0, <2>3, Elsewhere DEF CloseTake
    <3> QED
      BY <1>0, <1>1, <3>1 DEF WaitedIsStopped
  <2> QED
    BY <2>1, <2>2, <2>3
<1>2. ASSUME closer' \in {"join", "drains", "done"}, victim' # None PROVE victim' \in ctxDone'
  <2>1. CASE CloseShutdown
    BY <1>2, <2>1 DEF CloseShutdown, Shutdown
  <2>2. CASE ~CloseShutdown
    <3>1. closer \in {"join", "drains", "done"} /\ victim' = victim
      <4>1. CASE Closing
        BY <1>2, <2>2, <4>1 DEF Closing, CloseTake, CloseJoined, CloseDone
      <4>2. CASE Transition
        BY <1>2, <4>2 DEF Transition, StartAll, BeginReload, PreflightFails, ReloadNothing,
           EnableNew, DisableOld, HotSwap, NewReady, NewFails, DropNew, RestorePlaceholder,
           Rollback, RollbackSettles, Remove, StopJoined, closeVars
      <4>3. CASE Administrator \/ Sessions \/ Interrupt \/ UNCHANGED vars
        BY <1>2, <4>3 DEF Administrator, SaveConfig, DeleteRow, Sessions, Accept, SessionEnds,
           Interrupt, vars, closeVars
      <4>4. ASSUME NEW g \in Gen, NEW p \in Proto, ListenerLoop(g, p) \/ AcceptFails(g, p)
            PROVE  closer' = closer /\ victim' = victim
        BY <4>4 DEF ListenerLoop, Bind, Install, Retry, Watch, AcceptFails, listenerRest, closeVars
      <4>5. ASSUME NEW g \in Gen, Drainer(g)
            PROVE  closer' = closer /\ victim' = victim
        BY <4>5 DEF Drainer, DrainBegin, DrainEnd, DrainJoin, DrainExpires, drainRest, closeVars
      <4> QED
        BY <1>2, <4>1, <4>2, <4>3, <4>4, <4>5 DEF Next
    <3> QED
      BY <1>0, <1>2, <3>1 DEF WaitedIsStopped
  <2> QED
    BY <2>1, <2>2
<1> QED
  BY <1>1, <1>2 DEF WaitedIsStopped

\* Close ends the time of every drain, and no drain is scheduled once it has begun.
LEMMA CutShortStep == StuckInv /\ SuccInv' /\ [Next]_vars => CutShort'
<1> SUFFICES ASSUME StuckInv, SuccInv', [Next]_vars, closed', NEW g \in Gen, Draining(g)'
             PROVE  g \in expired'
  BY DEF CutShort
<1>0. SuccInv /\ CutShort /\ drain \in [Gen -> DrainState]
  BY SuccFacts DEF StuckInv
<1>1. CASE CloseTake
  BY <1>1 DEF CloseTake, Draining
<1>2. CASE ~CloseTake
  <2>1. closed /\ ~Transition
    BY <1>0, <1>2, CloseKeeps
  <2>2. CASE drain' = drain /\ expired' = expired
    BY <1>0, <2>1, <2>2 DEF CutShort, Draining
  <2>3. ASSUME NEW h \in Gen, Drainer(h) PROVE g \in expired'
    <3>1. Draining(g)
      BY <1>0, <2>3 DEF Drainer, DrainBegin, DrainEnd, DrainJoin, DrainExpires, Draining, Proto
    <3>2. g \in expired
      BY <1>0, <2>1, <3>1 DEF CutShort
    <3>3. ~DrainJoin(h) \/ g # h
      BY <1>0 DEF DrainJoin, Draining
    <3> QED
      BY <2>3, <3>2, <3>3 DEF Drainer, DrainBegin, DrainEnd, DrainJoin, DrainExpires
  <2>4. CASE Administrator \/ Sessions \/ Interrupt \/ Closing \/ UNCHANGED vars
    <3>1. drain' = drain /\ expired' = expired
      BY <1>2, <2>4 DEF Administrator, SaveConfig, DeleteRow, Sessions, Accept, SessionEnds,
         Interrupt, Closing, CloseShutdown, CloseJoined, CloseDone, vars, drainVars
    <3> QED
      BY <2>2, <3>1
  <2>5. ASSUME NEW h \in Gen, NEW p \in Proto, ListenerLoop(h, p) \/ AcceptFails(h, p)
        PROVE  drain' = drain /\ expired' = expired
    BY <2>5 DEF ListenerLoop, Bind, Install, Retry, Watch, AcceptFails, listenerRest, drainVars
  <2> QED
    BY <2>1, <2>2, <2>3, <2>4, <2>5 DEF Next
<1> QED
  BY <1>1, <1>2

\* Who waits, waits for somebody whose turn it is.
LEMMA StuckByNobody == StuckInv => NobodyStuck
<1> SUFFICES ASSUME StuckInv PROVE NobodyStuck
  OBVIOUS
<1>0. /\ SuccInv /\ TypeInv /\ CallInv /\ op \in OpType(ngen) /\ DrainLeaves /\ CallOrder
      /\ WaitedIsStopped /\ CutShort /\ ctxDone \subseteq Gen /\ drain \in [Gen -> DrainState]
      /\ \A n \in 0..ngen : n \in Gen \/ n = None
      /\ op.new \in 0..ngen /\ victim \in 0..ngen
  <2>1. SuccInv /\ WaitedIsStopped /\ CutShort
    BY DEF StuckInv
  <2> QED
    BY <2>1, SuccFacts DEF SuccInv
<1>1. ASSUME op.step # "idle"
      PROVE  CallsTurn \/ \E g \in {op.old, op.new} \cap Gen : LoopsTurn(g)
  <2>1. CASE op.step \in {"start", "loaded", "waitNew", "waitBack"}
    BY <2>1 DEF CallsTurn
  <2>2. CASE op.step = "stopNew"
    <3>1. op.new \in ctxDone /\ op.new \in Gen
      BY <1>0, <2>2 DEF CallInv, CallOrder
    <3> QED
      BY <2>2, <3>1 DEF CallsTurn, LoopsTurn
  <2>3. CASE op.step \in {"disable", "remove"}
    <3>1. op.old \in ctxDone /\ op.old \in Gen
      BY <1>0, <2>3 DEF WaitedIsStopped
    <3> QED
      BY <2>3, <3>1 DEF CallsTurn, LoopsTurn
  <2> QED
    BY <1>0, <1>1, <2>1, <2>2, <2>3 DEF OpType, OpStep
<1>2. ASSUME NEW g \in Gen, drain[g] = "join" PROVE DrainsTurn(g) \/ LoopsTurn(g)
  BY <1>0, <1>2 DEF DrainLeaves, DrainsTurn, LoopsTurn
<1>3. ASSUME closer \in {"taken", "join", "drains"}
      PROVE  ClosesTurn \/ \E g \in Gen : LoopsTurn(g) \/ DrainsTurn(g)
  <2>1. CASE closer = "taken"
    BY <2>1 DEF ClosesTurn
  <2>2. CASE closer = "join" /\ victim # None
    <3>1. victim \in ctxDone /\ victim \in Gen
      BY <1>0, <2>2 DEF WaitedIsStopped
    <3> QED
      BY <2>2, <3>1 DEF ClosesTurn, LoopsTurn
  <2>3. CASE closer = "join" /\ victim = None
    BY <2>3 DEF ClosesTurn
  <2>4. ASSUME closer = "drains", NEW g \in Gen, Draining(g)
        PROVE  DrainsTurn(g) \/ LoopsTurn(g)
    <3>1. g \in expired
      BY <1>0, <2>4 DEF CutShort, closed
    <3>2. drain[g] \in {"http", "httpWait", "socks", "socksWait", "join"}
      BY <1>0, <2>4 DEF Draining, DrainState
    <3>3. CASE drain[g] \in {"http", "socks"}
      BY <3>3 DEF DrainsTurn, Proto
    <3>4. CASE drain[g] \in {"httpWait", "socksWait"}
      BY <3>1, <3>4 DEF DrainsTurn, Proto
    <3> QED
      BY <1>2, <3>2, <3>3, <3>4
  <2> QED
    BY <1>3, <2>1, <2>2, <2>3, <2>4 DEF ClosesTurn
<1> QED
  BY <1>1, <1>2, <1>3 DEF NobodyStuck

LEMMA InitStuck == Init => StuckInv
<1> SUFFICES ASSUME Init PROVE WaitedIsStopped /\ CutShort
  BY InitSucc DEF StuckInv
<1> QED
  BY DEF Init, Idle, WaitedIsStopped, CutShort, closed

LEMMA StuckStep == StuckInv /\ [Next]_vars => StuckInv'
<1>1. StuckInv /\ [Next]_vars => SuccInv'
  BY SuccStep DEF StuckInv
<1> QED
  BY <1>1, WaitedIsStoppedStep, CutShortStep DEF StuckInv

\* Between calls every generation that still works, or holds a session, is in the map, is
\* being drained or is in Close's hands, whatever failed on the way; when Close has
\* returned nothing is left; and a call, a drain or Close that waits for goroutines waits
\* for one that can go on, Close without waiting for clients or for the drain timeout
\* (manager.go:316-452, 593-690).
THEOREM NothingIsLost == Spec => []NothingLost
<1>1. StuckInv => NothingLost
  BY OwnersLoseNothing, StuckByNobody DEF StuckInv, SuccInv, NothingLost
<1> QED
  BY <1>1, InitStuck, StuckStep, PTL DEF Spec
=============================================================================
