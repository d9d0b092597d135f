------------------------------- MODULE Manager -------------------------------
(***************************************************************************)
(* The lifecycle of one configured server in internal/manager: StartAll,   *)
(* hot Reload with rollback, Remove, the background drain of a retired     *)
(* generation, and Close.  A generation is one `instance`: a SOCKS5 and    *)
(* possibly an HTTP listener goroutine, each in a bind/serve/retry loop,   *)
(* and the sessions the two servers have accepted.                         *)
(*                                                                         *)
(* The mutex m.transition is held by at most one lifecycle call; what that *)
(* call is doing is the variable op, and op.step = "idle" is the mutex     *)
(* free.  Listener goroutines, sessions, drains and the administrator's    *)
(* writes to the store interleave with every step of it.                   *)
(***************************************************************************)
EXTENDS Integers, FiniteSets

CONSTANTS
  Versions,       \* configurations an administrator may store for the server
  HTTPVersions,   \* those whose http_proxy.enabled is set
  Limit,          \* session budget (max_connections) of each configuration
  MaxGen,         \* bound: generations created in a behaviour
  MaxSaves,       \* bound: administrator writes to the store
  MaxFaults       \* bound: preflight, bind and accept failures from outside

ASSUME ManagerAssumption ==
  /\ Versions # {}
  /\ HTTPVersions \subseteq Versions
  /\ Limit \in [Versions -> Nat]
  /\ MaxGen \in Nat \ {0} /\ MaxSaves \in Nat /\ MaxFaults \in Nat

None  == 0
Gen   == 1..MaxGen
Proto == {"socks", "http"}
Pair  == Gen \X Proto

VARIABLES
  stored,     \* the server's row in SQLite: [row, on, cfg]
  instances,  \* m.instances[id]: the current generation, or None
  ngen,       \* generations created so far
  cfgOf,      \* the configuration of each generation
  lim,        \* the generation that allocated a generation's instanceLimits
  limMax,     \* the configuration last applied to those limits (setMax)
  launched,   \* generations whose goroutines were started
  ctxDone,    \* generations whose context was cancelled
  lst,        \* the state of each listener goroutine
  refuses,    \* servers that refuse to install a listener they have bound
  ready,      \* servers that have installed a listener (their ready channel is
              \* closed) and were not shut down since
  open,       \* sessions: at most one per server
  drain,      \* progress of the drain goroutine of a retired generation
  expired,    \* generations whose drain context is done
  op,         \* the lifecycle call that holds m.transition
  closer,     \* progress of Close
  victim,     \* the generation Close took out of m.instances
  halted,     \* the root context was cancelled (SIGINT or SIGTERM)
  saves, faults

genVars   == <<ngen, cfgOf, lim, launched>>
srvVars   == <<lst, refuses, ready, open>>
drainVars == <<drain, expired>>
closeVars == <<closer, victim, halted>>
vars == <<stored, instances, genVars, limMax, ctxDone, srvVars, drainVars, op,
          closeVars, saves, faults>>

ListenerState == {"off", "binding", "bound", "serving", "retry", "ended"}
DrainState    == {"none", "http", "httpWait", "socks", "socksWait", "join", "done"}
OpStep == {"idle", "start", "loaded", "waitNew", "stopNew", "waitBack", "disable",
           "remove"}
Idle   == [step |-> "idle", on |-> FALSE, cfg |-> CHOOSE v \in Versions : TRUE,
           old |-> None, new |-> None, err |-> FALSE]

TypeOK ==
  /\ stored \in [row : BOOLEAN, on : BOOLEAN, cfg : Versions]
  /\ instances \in 0..ngen
  /\ ngen \in 0..MaxGen
  /\ cfgOf \in [Gen -> Versions]
  /\ lim \in [Gen -> Gen]
  /\ limMax \in [Gen -> Versions]
  /\ launched \subseteq Gen
  /\ ctxDone \subseteq Gen
  /\ lst \in [Pair -> ListenerState]
  /\ refuses \subseteq Pair
  /\ ready \subseteq Pair
  /\ open \subseteq Pair
  /\ drain \in [Gen -> DrainState]
  /\ expired \subseteq Gen
  /\ op \in [step : OpStep, on : BOOLEAN, cfg : Versions,
             old : 0..ngen, new : 0..ngen, err : BOOLEAN]
  /\ closer \in {"open", "taken", "join", "drains", "done"}
  /\ victim \in 0..ngen
  /\ halted \in BOOLEAN
  /\ saves \in 0..MaxSaves
  /\ faults \in 0..MaxFaults

-----------------------------------------------------------------------------
(* State of a generation                                                   *)

closed == closer # "open"

Has(g, p) == p = "socks" \/ cfgOf[g] \in HTTPVersions

\* waitReady sees every ready channel of g closed
AllReady(g) == \A p \in Proto : Has(g, p) => <<g, p>> \in ready

\* inst.wg has no listener goroutine left to wait for.  The heartbeat goroutine it has too
\* (manager.go:469, 533) is that of a server without a Vohive device here, which asks for no
\* Reload and ends with its context (heartbeat.go:179-233); Heartbeat has the others.
Joined(g) == \A p \in Proto : lst[<<g, p>>] \in {"off", "ended"}

Draining(g) == drain[g] \notin {"none", "done"}

\* What a drain does when its HTTP server is closed
AfterHTTP == {"socks", "socksWait", "join", "done"}

\* The sessions that hold a slot of the limits object owned by generation o
Charged(o) == {s \in open : lim[s[1]] = o}

-----------------------------------------------------------------------------
(* What the lifecycle calls do to a generation                             *)

\* Closing the listening socket of a server whose accept loop runs ends the
\* loop; a goroutine between Listen and the installation is not affected.
CloseListener(x) == IF lst[x] = "serving" THEN "ended" ELSE lst[x]

CloseListeners(g) ==
  [x \in Pair |-> IF x[1] = g THEN CloseListener(x) ELSE lst[x]]

\* shutdownInstance up to inst.wg.Wait
Shutdown(g) ==
  /\ ctxDone' = ctxDone \cup {g}
  /\ lst' = CloseListeners(g)
  /\ refuses' = refuses \cup {x \in Pair : x[1] = g}
  /\ ready' = {x \in ready : x[1] # g}
  /\ open' = {x \in open : x[1] # g}

\* Faults of newInstance: the limits are not kept, or never those of a predecessor
CreateLosesLimits(g, v, o) ==
  /\ ngen' = g
  /\ cfgOf' = [cfgOf EXCEPT ![g] = v]
  /\ lim' = [lim EXCEPT ![g] = None]
  /\ limMax' = [limMax EXCEPT ![o] = v]

CreateFreshLimits(g, v, o) ==
  /\ ngen' = g
  /\ cfgOf' = [cfgOf EXCEPT ![g] = v]
  /\ lim' = [lim EXCEPT ![g] = g]
  /\ limMax' = [limMax EXCEPT ![g] = v]

\* newInstance followed by launch; o owns the limits the generation uses
Create(g, v, o) ==
  /\ ngen' = g
  /\ cfgOf' = [cfgOf EXCEPT ![g] = v]
  /\ lim' = [lim EXCEPT ![g] = o]
  /\ limMax' = [limMax EXCEPT ![o] = v]

\* The listener goroutines launch starts, on top of the listener states f
Launched(f, g, v) ==
  [x \in Pair |-> IF x[1] = g /\ (x[2] = "socks" \/ v \in HTTPVersions)
                  THEN "binding" ELSE f[x]]

\* saveRuntimeConfig: an UPDATE that changes nothing when the row is gone, and
\* that may fail; it always fails once the root context is done
SaveRuntime(v, on) ==
  \/ stored.row /\ ~halted /\ stored' = [row |-> TRUE, on |-> on, cfg |-> v]
  \/ UNCHANGED stored

\* Fault: the HTTP server is not drained first
DrainSOCKSOnly(g) == drain' = [drain EXCEPT ![g] = "socks"]

ScheduleDrain(g) ==
  drain' = [drain EXCEPT ![g] = IF Has(g, "http") THEN "http" ELSE "socks"]

\* The call waits for the listeners of generation g, whose startupErrors is empty
Awaiting(g, s) == [step |-> s, on |-> op.on, cfg |-> op.cfg, old |-> op.old,
                   new |-> g, err |-> FALSE]

-----------------------------------------------------------------------------
(* The administrator's writes (internal/webui, through internal/store)     *)

SaveConfig(v, on) ==
  /\ stored.row
  /\ saves < MaxSaves
  /\ stored' = [row |-> TRUE, on |-> on, cfg |-> v]
  /\ saves' = saves + 1
  /\ UNCHANGED <<instances, genVars, limMax, ctxDone, srvVars, drainVars, op,
                 closeVars, faults>>

DeleteRow ==
  /\ stored.row
  /\ saves < MaxSaves
  /\ stored' = [stored EXCEPT !.row = FALSE]
  /\ saves' = saves + 1
  /\ UNCHANGED <<instances, genVars, limMax, ctxDone, srvVars, drainVars, op,
                 closeVars, faults>>

-----------------------------------------------------------------------------
(* StartAll and Reload, one action per stretch of code between two waits.  *)
(* A call that is refused at once (manager closed, row missing) changes    *)
(* nothing and is not an action.                                           *)

\* StartAll: start(cfg) launches without waiting for the listeners.  A failed
\* preflight leaves a stopped placeholder in the map.
StartAll ==
  /\ op.step = "start"
  /\ op' = Idle
  /\ IF stored.row /\ stored.on
     THEN LET g == ngen + 1 IN
          /\ Create(g, stored.cfg, g)
          /\ instances' = g
          /\ \/ /\ launched' = launched \cup {g}
                /\ lst' = Launched(lst, g, stored.cfg)
                /\ UNCHANGED <<ctxDone, refuses, faults>>
             \/ /\ faults < MaxFaults
                /\ faults' = faults + 1
                /\ ctxDone' = ctxDone \cup {g}
                /\ refuses' = refuses \cup {x \in Pair : x[1] = g}
                /\ UNCHANGED <<launched, lst>>
     ELSE UNCHANGED <<instances, genVars, limMax, ctxDone, lst, refuses, faults>>
  /\ UNCHANGED <<stored, ready, open, drainVars, closeVars, saves>>

\* Lock m.transition, read the row and the current instance.  A Reload creates
\* at most two generations, so the bound never stops one half way.
BeginReload ==
  /\ op.step = "idle"
  /\ ~closed /\ ~halted
  /\ stored.row
  /\ ngen + 2 <= MaxGen
  /\ op' = [step |-> "loaded", on |-> stored.on, cfg |-> stored.cfg,
            old |-> instances, new |-> None, err |-> FALSE]
  /\ UNCHANGED <<stored, instances, genVars, limMax, ctxDone, srvVars, drainVars,
                 closeVars, saves, faults>>

PreflightFails ==
  /\ op.step = "loaded" /\ op.on
  /\ faults < MaxFaults
  /\ faults' = faults + 1
  /\ IF op.old = None THEN SaveRuntime(op.cfg, FALSE)
                      ELSE SaveRuntime(cfgOf[op.old], TRUE)
  /\ op' = Idle
  /\ UNCHANGED <<instances, genVars, limMax, ctxDone, srvVars, drainVars,
                 closeVars, saves>>

\* Nothing runs and nothing should
ReloadNothing ==
  /\ op.step = "loaded" /\ ~op.on /\ op.old = None
  /\ op' = Idle
  /\ UNCHANGED <<stored, instances, genVars, limMax, ctxDone, srvVars, drainVars,
                 closeVars, saves, faults>>

\* The first generation of an enabled server, with limits of its own
EnableNew ==
  /\ op.step = "loaded" /\ op.on /\ op.old = None
  /\ LET g == ngen + 1 IN
     /\ Create(g, op.cfg, g)
     /\ launched' = launched \cup {g}
     /\ lst' = Launched(lst, g, op.cfg)
     /\ instances' = g
     /\ op' = Awaiting(g, "waitNew")
  /\ UNCHANGED <<stored, ctxDone, refuses, ready, open, drainVars,
                 closeVars, saves, faults>>

DisableOld ==
  /\ op.step = "loaded" /\ ~op.on /\ op.old # None
  /\ instances' = None
  /\ Shutdown(op.old)
  /\ op' = [op EXCEPT !.step = "disable"]
  /\ UNCHANGED <<stored, genVars, limMax, drainVars, closeVars, saves, faults>>

\* The hot path: stopAccepting closes both old sockets, and only the SOCKS5
\* server remembers that it must not accept again; the replacement takes the old
\* generation's limits and its place in the map, and is launched.
HotSwap ==
  /\ op.step = "loaded" /\ op.on /\ op.old # None
  /\ LET g == ngen + 1 IN
     /\ Create(g, op.cfg, lim[op.old])
     /\ launched' = launched \cup {g}
     /\ refuses' = refuses \cup {<<op.old, "socks">>}
     /\ lst' = Launched(CloseListeners(op.old), g, op.cfg)
     /\ instances' = g
     /\ op' = Awaiting(g, "waitNew")
  /\ UNCHANGED <<stored, ctxDone, ready, open, drainVars, closeVars,
                 saves, faults>>

\* waitReady returned nil; a replaced generation starts to drain
NewReady ==
  /\ op.step = "waitNew" /\ AllReady(op.new)
  /\ IF op.old = None THEN UNCHANGED drain ELSE ScheduleDrain(op.old)
  /\ op' = Idle
  /\ UNCHANGED <<stored, instances, genVars, limMax, ctxDone, srvVars, expired,
                 closeVars, saves, faults>>

\* waitReady returned an error: a startup error, the five second timeout or the
\* end of the root context
NewFails ==
  /\ op.step = "waitNew"
  /\ op.err \/ ~AllReady(op.new) \/ halted
  /\ Shutdown(op.new)
  /\ op' = [op EXCEPT !.step = "stopNew"]
  /\ UNCHANGED <<stored, instances, genVars, limMax, drainVars, closeVars, saves,
                 faults>>

\* After the failed generation's goroutines ended: forget a first generation
\* and disable its configuration,
DropNew ==
  /\ op.step = "stopNew" /\ Joined(op.new) /\ op.old = None
  /\ instances' = None
  /\ SaveRuntime(op.cfg, FALSE)
  /\ op' = Idle
  /\ UNCHANGED <<genVars, limMax, ctxDone, srvVars, drainVars, closeVars, saves,
                 faults>>

\* Fault: the limits stay those of the replacement
RestoreKeepsLimits ==
  /\ op.step = "stopNew" /\ Joined(op.new)
  /\ op.old # None /\ op.old \notin launched
  /\ instances' = op.old
  /\ SaveRuntime(cfgOf[op.old], TRUE)
  /\ op' = Idle
  /\ UNCHANGED <<genVars, limMax, ctxDone, srvVars, drainVars, closeVars, saves,
                 faults>>

\* or put a placeholder that never ran back as it was,
RestorePlaceholder ==
  /\ op.step = "stopNew" /\ Joined(op.new)
  /\ op.old # None /\ op.old \notin launched
  /\ limMax' = [limMax EXCEPT ![lim[op.old]] = cfgOf[op.old]]
  /\ instances' = op.old
  /\ SaveRuntime(cfgOf[op.old], TRUE)
  /\ op' = Idle
  /\ UNCHANGED <<genVars, ctxDone, srvVars, drainVars, closeVars, saves, faults>>

\* or launch a third generation from the old configuration.
Rollback ==
  /\ op.step = "stopNew" /\ Joined(op.new)
  /\ op.old # None /\ op.old \in launched
  /\ LET g == ngen + 1 IN
     /\ Create(g, cfgOf[op.old], lim[op.old])
     /\ launched' = launched \cup {g}
     /\ lst' = Launched(lst, g, cfgOf[op.old])
     /\ instances' = g
     /\ op' = Awaiting(g, "waitBack")
  /\ UNCHANGED <<stored, ctxDone, refuses, ready, open, drainVars,
                 closeVars, saves, faults>>

\* Fault: the generation a rollback replaced is not drained
RollbackForgetsDrain ==
  /\ op.step = "waitBack"
  /\ SaveRuntime(cfgOf[op.old], TRUE)
  /\ op' = Idle
  /\ UNCHANGED <<instances, genVars, limMax, ctxDone, srvVars, drainVars, closeVars,
                 saves, faults>>

\* The rollback is ready or timed out: the old configuration is stored
\* again and the old generation drains in either case.
RollbackSettles ==
  /\ op.step = "waitBack"
  /\ SaveRuntime(cfgOf[op.old], TRUE)
  /\ ScheduleDrain(op.old)
  /\ op' = Idle
  /\ UNCHANGED <<instances, genVars, limMax, ctxDone, srvVars, expired, closeVars,
                 saves, faults>>

\* Remove is called for a server whose row has just been deleted
Remove ==
  /\ op.step = "idle" /\ ~stored.row
  /\ instances # None
  /\ instances' = None
  /\ Shutdown(instances)
  /\ op' = [step |-> "remove", on |-> FALSE, cfg |-> Idle.cfg,
            old |-> instances, new |-> None, err |-> FALSE]
  /\ UNCHANGED <<stored, genVars, limMax, drainVars, closeVars, saves, faults>>

\* inst.wg.Wait returned in Remove or in the Reload of a disabled server
StopJoined ==
  /\ op.step \in {"disable", "remove"} /\ Joined(op.old)
  /\ op' = Idle
  /\ UNCHANGED <<stored, instances, genVars, limMax, ctxDone, srvVars, drainVars,
                 closeVars, saves, faults>>

Transition ==
  \/ StartAll \/ BeginReload \/ PreflightFails \/ ReloadNothing \/ EnableNew
  \/ DisableOld \/ HotSwap \/ NewReady \/ NewFails \/ DropNew
  \/ RestorePlaceholder \/ Rollback \/ RollbackSettles \/ Remove \/ StopJoined

-----------------------------------------------------------------------------
(* The listener goroutines: launch's retry loop around ListenAndServe      *)

\* The socket of an address is held from Listen to its close
Held(p) == \E g \in Gen : lst[<<g, p>>] \in {"bound", "serving"}

listenerRest == <<stored, instances, genVars, limMax, ctxDone, refuses, open,
                  drainVars, closeVars, saves>>

\* An error is queued in the instance's startupErrors; only the waitReady of the
\* call that launched the instance ever reads it
StartupError(g) ==
  op' = IF op.step = "waitNew" /\ op.new = g THEN [op EXCEPT !.err = TRUE] ELSE op

Bind(g, p) ==
  /\ lst[<<g, p>>] = "binding"
  /\ \/ /\ g \in ctxDone
        /\ lst' = [lst EXCEPT ![<<g, p>>] = "ended"]
        /\ UNCHANGED <<op, faults>>
     \/ /\ g \notin ctxDone /\ ~Held(p)
        /\ lst' = [lst EXCEPT ![<<g, p>>] = "bound"]
        /\ UNCHANGED <<op, faults>>
     \/ /\ g \notin ctxDone
        /\ IF Held(p) THEN UNCHANGED faults
                      ELSE faults < MaxFaults /\ faults' = faults + 1
        /\ lst' = [lst EXCEPT ![<<g, p>>] = "retry"]
        /\ StartupError(g)
  /\ UNCHANGED <<ready, listenerRest>>

\* Fault: the SOCKS5 server does not look at acceptingStopped either
InstallIgnoresStop(g, p) ==
  /\ lst[<<g, p>>] = "bound"
  /\ IF <<g, p>> \in refuses /\ g \in ctxDone
     THEN /\ lst' = [lst EXCEPT ![<<g, p>>] = "ended"]
          /\ UNCHANGED ready
     ELSE /\ lst' = [lst EXCEPT ![<<g, p>>] = "serving"]
          /\ ready' = ready \cup {<<g, p>>}
  /\ UNCHANGED <<op, faults, listenerRest>>

\* The flags are read under the server's mutex after the address is bound
Install(g, p) ==
  /\ lst[<<g, p>>] = "bound"
  /\ IF <<g, p>> \in refuses
     THEN /\ lst' = [lst EXCEPT ![<<g, p>>] = "ended"]
          /\ UNCHANGED ready
     ELSE /\ lst' = [lst EXCEPT ![<<g, p>>] = "serving"]
          /\ ready' = ready \cup {<<g, p>>}
  /\ UNCHANGED <<op, faults, listenerRest>>

\* An accept error that is not temporary ends the loop and is retried
AcceptFails(g, p) ==
  /\ lst[<<g, p>>] = "serving"
  /\ faults < MaxFaults
  /\ faults' = faults + 1
  /\ lst' = [lst EXCEPT ![<<g, p>>] = "retry"]
  /\ StartupError(g)
  /\ UNCHANGED <<ready, listenerRest>>

\* Fault: a listener that could not bind is given up
RetryGivesUp(g, p) ==
  /\ lst[<<g, p>>] = "retry"
  /\ lst' = [lst EXCEPT ![<<g, p>>] = "ended"]
  /\ UNCHANGED <<ready, op, faults, listenerRest>>

\* waitForRetry
Retry(g, p) ==
  /\ lst[<<g, p>>] = "retry"
  /\ lst' = [lst EXCEPT ![<<g, p>>] = IF g \in ctxDone THEN "ended" ELSE "binding"]
  /\ UNCHANGED <<ready, op, faults, listenerRest>>

\* The goroutine that watches the context of an accept loop closes the SOCKS5
\* listener, or the whole HTTP server
Watch(g, p) ==
  /\ lst[<<g, p>>] = "serving" /\ g \in ctxDone
  /\ lst' = [lst EXCEPT ![<<g, p>>] = "ended"]
  /\ IF p = "http"
     THEN /\ refuses' = refuses \cup {<<g, p>>}
          /\ open' = open \ {<<g, p>>}
     ELSE UNCHANGED <<refuses, open>>
  /\ UNCHANGED <<stored, instances, genVars, limMax, ctxDone, ready, drainVars,
                 op, closeVars, saves, faults>>

-----------------------------------------------------------------------------
(* Sessions.  A SOCKS5 session starts on an accepted connection; an HTTP   *)
(* request or tunnel may also start on a connection that was kept alive    *)
(* after its listener was closed, until the server shuts down.             *)

Accept(g, p) ==
  /\ <<g, p>> \notin open
  /\ IF p = "socks" THEN lst[<<g, p>>] = "serving"
                    ELSE <<g, p>> \in ready \ refuses
  /\ Cardinality(Charged(lim[g])) < Limit[limMax[lim[g]]]
  /\ open' = open \cup {<<g, p>>}
  /\ UNCHANGED <<stored, instances, genVars, limMax, ctxDone, lst, refuses, ready,
                 drainVars, op, closeVars, saves, faults>>

SessionEnds(g, p) ==
  /\ <<g, p>> \in open
  /\ open' = open \ {<<g, p>>}
  /\ UNCHANGED <<stored, instances, genVars, limMax, ctxDone, lst, refuses, ready,
                 drainVars, op, closeVars, saves, faults>>

-----------------------------------------------------------------------------
(* The drain goroutine of a retired generation: GracefulClose of the HTTP  *)
(* server, then of the SOCKS5 server, then the generation's context.       *)

drainRest == <<stored, instances, genVars, limMax, op, closeVars,
               saves, faults>>

\* GracefulClose begins: the listener is closed and the server refuses new work
DrainBegin(g, p) ==
  /\ drain[g] = p
  /\ drain' = [drain EXCEPT ![g] = IF p = "http" THEN "httpWait" ELSE "socksWait"]
  /\ lst' = [lst EXCEPT ![<<g, p>>] = CloseListener(<<g, p>>)]
  /\ refuses' = refuses \cup {<<g, p>>}
  /\ ready' = ready \ {<<g, p>>}
  /\ UNCHANGED <<ctxDone, open, expired, drainRest>>

AfterDrain(p) == IF p = "http" THEN "socks" ELSE "join"

\* Fault: the drain does not wait
DrainEndsAtOnce(g, p) ==
  /\ drain[g] = IF p = "http" THEN "httpWait" ELSE "socksWait"
  /\ open' = open \ {<<g, p>>}
  /\ drain' = [drain EXCEPT ![g] = AfterDrain(p)]
  /\ IF p = "socks" THEN ctxDone' = ctxDone \cup {g} ELSE UNCHANGED ctxDone
  /\ UNCHANGED <<lst, refuses, ready, expired, drainRest>>

\* No session left, or the deadline has passed and the sessions are closed.
\* The SOCKS5 server is the last; the generation's context ends with it.
DrainEnd(g, p) ==
  /\ drain[g] = IF p = "http" THEN "httpWait" ELSE "socksWait"
  /\ <<g, p>> \notin open \/ g \in expired \/ halted
  /\ open' = open \ {<<g, p>>}
  /\ drain' = [drain EXCEPT ![g] = AfterDrain(p)]
  /\ IF p = "socks" THEN ctxDone' = ctxDone \cup {g} ELSE UNCHANGED ctxDone
  /\ UNCHANGED <<lst, refuses, ready, expired, drainRest>>

DrainJoin(g) ==
  /\ drain[g] = "join" /\ Joined(g)
  /\ drain' = [drain EXCEPT ![g] = "done"]
  /\ expired' = expired \ {g}
  /\ UNCHANGED <<ctxDone, lst, refuses, ready, open, drainRest>>

\* Fault: a drain context without a deadline
DrainNeverExpires(g) ==
  /\ Draining(g) /\ g \notin expired /\ halted
  /\ expired' = expired \cup {g}
  /\ UNCHANGED <<ctxDone, lst, refuses, ready, open, drain, drainRest>>

\* The thirty second drain timeout
DrainExpires(g) ==
  /\ Draining(g) /\ g \notin expired
  /\ expired' = expired \cup {g}
  /\ UNCHANGED <<ctxDone, lst, refuses, ready, open, drain, drainRest>>

-----------------------------------------------------------------------------
(* Close, and the signal that precedes it                                  *)

closeRest == <<stored, genVars, limMax, saves, faults>>

\* The root context ends, and every generation's context with it
Interrupt ==
  /\ ~halted /\ op.step # "start"
  /\ halted' = TRUE
  /\ ctxDone' = Gen
  /\ UNCHANGED <<instances, srvVars, drainVars, op, closer, victim, closeRest>>

\* Under m.transition: the map is cleared and every drain is cut short
CloseTake ==
  /\ closer = "open" /\ op.step = "idle"
  /\ closer' = "taken"
  /\ victim' = instances
  /\ instances' = None
  /\ expired' = expired \cup {g \in Gen : Draining(g)}
  /\ UNCHANGED <<ctxDone, srvVars, drain, op, halted, closeRest>>

\* Fault: Close clears the map and forgets what was in it
CloseForgetsVictim ==
  /\ closer = "taken"
  /\ closer' = "join"
  /\ UNCHANGED <<ctxDone, srvVars, instances, drainVars, op, victim, halted,
                 closeRest>>

\* The statistics collector has stopped; the instances follow
CloseShutdown ==
  /\ closer = "taken"
  /\ closer' = "join"
  /\ IF victim = None THEN UNCHANGED <<ctxDone, srvVars>>
                      ELSE Shutdown(victim)
  /\ UNCHANGED <<instances, drainVars, op, victim, halted, closeRest>>

CloseJoined ==
  /\ closer = "join"
  /\ victim # None => Joined(victim)
  /\ closer' = "drains"
  /\ UNCHANGED <<instances, ctxDone, srvVars, drainVars, op, victim,
                 halted, closeRest>>

\* Fault: Close does not wait for the drains
CloseSkipsDrains ==
  /\ closer = "drains"
  /\ closer' = "done"
  /\ UNCHANGED <<instances, ctxDone, srvVars, drainVars, op, victim, halted,
                 closeRest>>

\* m.drainWG.Wait
CloseDone ==
  /\ closer = "drains"
  /\ \A g \in Gen : ~Draining(g)
  /\ closer' = "done"
  /\ UNCHANGED <<instances, ctxDone, srvVars, drainVars, op, victim,
                 halted, closeRest>>

-----------------------------------------------------------------------------
Init ==
  /\ stored \in [row : {TRUE}, on : BOOLEAN, cfg : Versions]
  /\ instances = None /\ ngen = 0
  /\ cfgOf = [g \in Gen |-> Idle.cfg]
  /\ lim = [g \in Gen |-> g]
  /\ limMax = [g \in Gen |-> Idle.cfg]
  /\ launched = {} /\ ctxDone = {} /\ refuses = {} /\ ready = {}
  /\ open = {} /\ expired = {}
  /\ lst = [x \in Pair |-> "off"]
  /\ drain = [g \in Gen |-> "none"]
  /\ op = [Idle EXCEPT !.step = "start"]
  /\ closer = "open" /\ victim = None /\ halted = FALSE
  /\ saves = 0 /\ faults = 0

Administrator == \/ \E v \in Versions, on \in BOOLEAN : SaveConfig(v, on)
                 \/ DeleteRow

ListenerLoop(g, p) ==
  Bind(g, p) \/ Install(g, p) \/ Retry(g, p) \/ Watch(g, p)

Sessions == \E g \in Gen, p \in Proto : Accept(g, p) \/ SessionEnds(g, p)

Drainer(g) == \/ \E p \in Proto : DrainBegin(g, p) \/ DrainEnd(g, p)
              \/ DrainJoin(g) \/ DrainExpires(g)

Closing == CloseTake \/ CloseShutdown \/ CloseJoined \/ CloseDone

Next ==
  \/ Administrator
  \/ Transition
  \/ \E g \in Gen, p \in Proto : ListenerLoop(g, p) \/ AcceptFails(g, p)
  \/ Sessions
  \/ \E g \in Gen : Drainer(g)
  \/ Interrupt
  \/ Closing

Spec == Init /\ [][Next]_vars

(***************************************************************************)
(* Every goroutine is scheduled, every timer fires (waitReady, the retry   *)
(* backoff, the drain timeout), and a call that holds m.transition goes    *)
(* on.  Nothing obliges the administrator, a client or an outside failure. *)
(***************************************************************************)
CallStep ==
  \/ StartAll \/ PreflightFails \/ ReloadNothing \/ EnableNew \/ DisableOld
  \/ HotSwap \/ NewReady \/ NewFails \/ DropNew \/ RestorePlaceholder
  \/ Rollback \/ RollbackSettles \/ StopJoined

FairSpec ==
  /\ Spec
  /\ WF_vars(CallStep)
  /\ \A g \in Gen, p \in Proto : WF_vars(ListenerLoop(g, p))
  /\ \A g \in Gen : WF_vars(Drainer(g))
  /\ WF_vars(CloseShutdown \/ CloseJoined \/ CloseDone)

-----------------------------------------------------------------------------
(* What the handoff promises                                               *)

\* While the manager is open, no SOCKS5 listener but the current generation's
\* accepts: a generation that left the map (manager.go:265, 282, 304) never
\* comes back through its retry loop, whatever state that loop was in.
OnlyCurrentAcceptsSOCKS ==
  \A g \in Gen : lst[<<g, "socks">>] = "serving" /\ ~closed => g = instances

\* No generation is lost: when no call is in progress, a generation outside the
\* map has a drain that will release it, or has no goroutine and no session left
\* (or is the one Close is stopping).
NoOrphan ==
  op.step = "idle" =>
    \A g \in 1..ngen :
      \/ g = instances
      \/ drain[g] # "none"
      \/ closed /\ g = victim
      \/ Joined(g) /\ \A p \in Proto : <<g, p>> \notin open

\* After every call the limits in force are those of the current generation's
\* configuration: a replacement that failed does not leave its own behind.
LimitsFollowCurrent ==
  op.step = "idle" /\ instances # None =>
    limMax[lim[instances]] = cfgOf[instances]

\* The SOCKS5 server of a retired generation, whose dialer its HTTP requests
\* use, is not closed before the last of them ended (manager.go:614-616).
HTTPDrainsBeforeSOCKS ==
  \A g \in Gen : drain[g] \in AfterHTTP => <<g, "http">> \notin open

\* Once Close has returned nothing of the manager is left: no instance, no
\* listener goroutine of any generation, no session.
CloseLeavesNothing ==
  closer = "done" =>
    instances = None /\ open = {} /\ \A g \in Gen : Joined(g)

\* All sessions of the server together stay within its budget, whichever
\* generations hold them (README.md:329).  It does not hold: a server that is
\* disabled and enabled again while a generation drains gets fresh limits.
HardLimit == \E v \in Versions : Cardinality(open) <= Limit[v]

\* As long as the stored configuration is not written, they do: reloads, failed
\* ones included, hand one object of limits on (policy/access.go:194-196).
BudgetShared == saves = 0 => Cardinality(open) <= Limit[stored.cfg]

\* What can go on without a client or the drain timeout: the goroutines of a generation
\* whose context has ended, until they have;
LoopsTurn(g) == g \in ctxDone /\ ~Joined(g)

\* a drain, unless it waits for a session that has time left, or for such goroutines;
DrainsTurn(g) ==
  \/ drain[g] \in Proto
  \/ \E p \in Proto :
       /\ drain[g] = IF p = "http" THEN "httpWait" ELSE "socksWait"
       /\ <<g, p>> \notin open \/ g \in expired \/ halted
  \/ drain[g] = "join" /\ Joined(g)

\* a call, unless it waits for the goroutines of a generation it has stopped;
CallsTurn ==
  \/ op.step \in {"start", "loaded", "waitNew", "waitBack"}
  \/ op.step = "stopNew" /\ Joined(op.new)
  \/ op.step \in {"disable", "remove"} /\ Joined(op.old)

\* Close, unless it waits for those of the last generation or for a drain.
ClosesTurn ==
  \/ closer = "taken"
  \/ closer = "join" /\ (victim # None => Joined(victim))
  \/ closer = "drains" /\ \A g \in Gen : ~Draining(g)

\* These are the guards of the actions.
TurnsExact ==
  /\ CallsTurn <=> ENABLED CallStep
  /\ ClosesTurn <=> ENABLED (CloseShutdown \/ CloseJoined \/ CloseDone)
  /\ \A g \in Gen :
       /\ g \in ctxDone => (LoopsTurn(g) <=> ENABLED (\E p \in Proto : ListenerLoop(g, p)))
       /\ DrainsTurn(g) <=> ENABLED (DrainJoin(g) \/ \E p \in Proto : DrainBegin(g, p) \/ DrainEnd(g, p))

\* Nobody waits for ever for a goroutine: whoever holds m.transition can go on, or the
\* generation it has stopped can; so can a drain that has closed its servers; and Close, or
\* what it waits for, can go on whatever clients do, without waiting for the drain timeout
\* (manager.go:316-366, 454-487, 614-628).
NobodyStuck ==
  /\ op.step # "idle" => CallsTurn \/ \E g \in {op.old, op.new} \cap Gen : LoopsTurn(g)
  /\ \A g \in Gen : drain[g] = "join" => DrainsTurn(g) \/ LoopsTurn(g)
  /\ closer \in {"taken", "join", "drains"} =>
       ClosesTurn \/ \E g \in Gen : LoopsTurn(g) \/ DrainsTurn(g)

\* A generation and its sessions have an owner, before Close returns and after it, and
\* whoever waits for one waits for something that goes on
NothingLost == NoOrphan /\ CloseLeavesNothing /\ NobodyStuck

\* The limits follow the configuration, and all generations share them
LimitsHold == LimitsFollowCurrent /\ BudgetShared

\* While the manager is open, no HTTP listener but the current generation's
\* accepts, so that a replacement can bind the same port (server.go:183-184 of
\* internal/httpproxy).
OnlyCurrentAcceptsHTTP ==
  \A g \in Gen : lst[<<g, "http">>] = "serving" /\ ~closed => g = instances

\* A Reload that keeps the server enabled, and the drain that follows it, close
\* no established session except those of a replacement that failed and those
\* still open when the drain timeout or the root context ends.
SessionsSurviveReload ==
  [][(op' # op /\ op.on) \/ drain' # drain =>
       \A s \in open \ open' : s[1] = op.new \/ s[1] \in expired \/ halted]_vars

\* The life of a generation as its clients see it
LifeOf(g) ==
  IF g > ngen THEN "none"
  ELSE IF g \in ctxDone THEN "over"
  ELSE IF drain[g] \in AfterHTTP THEN "closing"
  ELSE IF g = instances \/ (closer = "taken" /\ g = victim) THEN "current"
  ELSE "retired"

Clients == INSTANCE Succession WITH
  life <- [g \in Gen |-> LifeOf(g)],
  live <- open,
  due <- {g \in expired : LifeOf(g) \in {"retired", "closing"}},
  ended <- halted

\* What happens to the generations is a succession: one serves at a time, one that was
\* replaced never serves again and keeps its sessions until they end or its time is over,
\* the SOCKS5 server longer than the HTTP server, and what is over has nothing left
\* (manager.go:220-336, 593-628).
GenerationsSucceed == Clients!Spec

\* Every lifecycle call of a server without a Vohive device returns and releases m.transition,
\* and so does Close, which waits for that mutex, every goroutine and every drain
\* (manager.go:187-366, 454-568).  With a device it need not: HeartbeatReloadReturns of Heartbeat.
CallsReturn ==
  /\ op.step # "idle" ~> op.step = "idle"
  /\ closer # "open" ~> closer = "done"

\* Every retired generation is eventually drained, its sessions closed at the
\* latest by the timeout.
RetiredDrains == \A g \in Gen : Draining(g) ~> drain[g] = "done"

\* A current generation that was launched eventually serves on every listener,
\* even after a rollback that lost the race for its own address, unless it is
\* replaced or the manager stops first.
CurrentServes ==
  \A g \in Gen :
    instances = g /\ g \in launched ~>
      \/ instances # g \/ halted
      \/ \A p \in Proto : Has(g, p) => lst[<<g, p>>] = "serving"

\* Every generation gets to its end or to its work (manager.go:455-534, 593-628)
GenerationsSettle == RetiredDrains /\ CurrentServes

=============================================================================
