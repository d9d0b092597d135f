------------------------------- MODULE Metrics -------------------------------
(***************************************************************************)
(* The traffic counters of one server across its generations               *)
(* (metrics_handoff.go, Manager.Snapshots) and the collector that stores   *)
(* their differences every minute (stats_collector.go), on top of the      *)
(* lifecycle of module Manager.                                            *)
(*                                                                         *)
(* All counters of a server are treated alike, field by field, so that one *)
(* counter per generation stands for them.  A generation that leaves       *)
(* m.instances hands its total over (carry), the total at that moment is   *)
(* its base, and while it drains only what it counts beyond its base is    *)
(* added to a snapshot.                                                    *)
(***************************************************************************)
EXTENDS Manager, Functions

CONSTANT MaxTraffic   \* bound: what all generations count in a behaviour

ASSUME MetricsAssumption == MaxTraffic \in Nat

VARIABLES
  count,      \* the counter of each generation's servers
  carry,      \* m.metricCarry[id]
  retiring,   \* the keys of m.retiringMetrics[id]
  base,       \* and their values
  last,       \* the collector's previous snapshot, c.last[id]
  rows,       \* the sum of the rows in server_stats
  unsaved,    \* observer: the latest row was not stored
  dropped     \* observer: launched generations that never handed over

counters  == <<carry, retiring, base>>
collector == <<last, rows, unsaved>>
metricVars == <<count, counters, collector, dropped>>
mVars == <<vars, metricVars>>

Traffic == 0..MaxTraffic

MetricsTypeOK ==
  /\ count \in [Gen -> Traffic]
  /\ carry \in Traffic
  /\ retiring \subseteq Gen
  /\ base \in [Gen -> Traffic]
  /\ last \in Traffic
  /\ rows \in Nat
  /\ unsaved \in BOOLEAN
  /\ dropped \subseteq Gen

-----------------------------------------------------------------------------
(* The handoff                                                             *)

subtractCounter(a, b) == IF a < b THEN a ELSE a - b

\* beginMetricHandoffLocked: only a generation that was launched hands over
BeginHandoff(g) ==
  IF g \in launched
  THEN /\ carry' = carry + count[g]
       /\ base' = [base EXCEPT ![g] = count[g]]
       /\ retiring' = retiring \cup {g}
  ELSE UNCHANGED counters

\* Fault: nothing of the counter is folded in
FinishForgets(g) ==
  IF g \in retiring
  THEN /\ retiring' = retiring \ {g}
       /\ UNCHANGED <<carry, base>>
  ELSE UNCHANGED counters

\* finishMetricHandoff: nothing to do for a generation Remove has forgotten
FinishHandoff(g) ==
  IF g \in retiring
  THEN /\ carry' = carry + subtractCounter(count[g], base[g])
       /\ retiring' = retiring \ {g}
       /\ UNCHANGED base
  ELSE UNCHANGED counters

\* Fault: a draining generation is counted in full
SnapshotAddsTotals ==
  count[instances] + carry + SumFunctionOnSet(count, retiring)

\* Snapshots, for the server of the current generation
Snapshot ==
  count[instances] + carry
    + SumFunctionOnSet([g \in Gen |-> subtractCounter(count[g], base[g])], retiring)

-----------------------------------------------------------------------------
(* The steps of the lifecycle that touch the counters                      *)

MHotSwap ==
  /\ HotSwap
  /\ BeginHandoff(op.old)
  /\ UNCHANGED <<count, collector, dropped>>

MDisableOld ==
  /\ DisableOld
  /\ BeginHandoff(op.old)
  /\ UNCHANGED <<count, collector, dropped>>

MRemove ==
  /\ Remove
  /\ BeginHandoff(instances)
  /\ UNCHANGED <<count, collector, dropped>>

\* The Reload of a disabled server folds the final counters in; Remove deletes
\* everything the manager knows of the server.
MStopJoined ==
  /\ StopJoined
  /\ IF op.step = "disable"
     THEN FinishHandoff(op.old)
     ELSE carry' = 0 /\ retiring' = {} /\ UNCHANGED base
  /\ UNCHANGED <<count, collector, dropped>>

MDrainJoin(g) ==
  /\ DrainJoin(g)
  /\ FinishHandoff(g)
  /\ UNCHANGED <<count, collector, dropped>>

\* A replacement that did not become ready is shut down with no handoff
MNewFails ==
  /\ NewFails
  /\ dropped' = dropped \cup {op.new}
  /\ UNCHANGED <<count, counters, collector>>

\* Every other step of module Manager
Unmetered ==
  /\ \/ Administrator
     \/ StartAll \/ BeginReload \/ PreflightFails \/ ReloadNothing \/ EnableNew
     \/ NewReady \/ DropNew \/ RestorePlaceholder \/ Rollback \/ RollbackSettles
     \/ \E g \in Gen, p \in Proto : ListenerLoop(g, p) \/ AcceptFails(g, p)
     \/ Sessions
     \/ \E g \in Gen : DrainExpires(g)
     \/ \E g \in Gen, p \in Proto : DrainBegin(g, p) \/ DrainEnd(g, p)
     \/ Interrupt
     \/ Closing
  /\ UNCHANGED metricVars

-----------------------------------------------------------------------------
(* Traffic and the collector                                               *)

Total(S) == SumFunctionOnSet(count, S)

\* A session counts a connection, a request, a packet or some bytes
CountTraffic(g) ==
  /\ \E p \in Proto : <<g, p>> \in open
  /\ Total(Gen) < MaxTraffic
  /\ count' = [count EXCEPT ![g] = @ + 1]
  /\ UNCHANGED <<vars, counters, collector, dropped>>

subOrCurrent(cur, prev) == IF cur < prev THEN cur ELSE cur - prev

\* collect: the new snapshot replaces the previous one before the row is stored,
\* which may fail, and does once the root context is done
Collect ==
  /\ instances # None /\ ~closed
  /\ last' = Snapshot
  /\ \/ /\ ~halted
        /\ rows' = rows + subOrCurrent(Snapshot, last)
        /\ unsaved' = FALSE
        /\ UNCHANGED faults
     \/ /\ halted \/ faults < MaxFaults
        /\ faults' = IF halted THEN faults ELSE faults + 1
        /\ unsaved' = TRUE
        /\ UNCHANGED rows
  /\ UNCHANGED <<stored, instances, genVars, limMax, ctxDone, srvVars, drainVars,
                 op, closeVars, saves>>
  /\ UNCHANGED <<count, counters, dropped>>

-----------------------------------------------------------------------------
MInit ==
  /\ Init
  /\ count = [g \in Gen |-> 0] /\ base = [g \in Gen |-> 0]
  /\ carry = 0 /\ retiring = {}
  /\ last = 0 /\ rows = 0 /\ unsaved = FALSE /\ dropped = {}

MNext ==
  \/ MHotSwap \/ MDisableOld \/ MRemove \/ MStopJoined \/ MNewFails
  \/ \E g \in Gen : MDrainJoin(g) \/ CountTraffic(g)
  \/ Unmetered
  \/ Collect

MSpec == MInit /\ [][MNext]_mVars

-----------------------------------------------------------------------------
\* A snapshot counts what every generation of the server has counted, exactly
\* once, whichever of them are current, draining or gone; only replacements that
\* failed are missing (metrics_handoff.go:15-37).
Conservation ==
  instances # None => Snapshot = Total(1..ngen \ (dropped \ {instances}))

\* While no replacement has failed and no row was lost, the rows of server_stats
\* add up to the latest snapshot: no difference is stored twice or skipped, over
\* reloads, over a time when the server was disabled, and over the end of drains.
RowsAddUp == dropped = {} /\ faults = 0 /\ ~halted => rows = last

\* The snapshot has every byte once, and the rows have what the snapshots had
\* (metrics_handoff.go:15-75, stats_collector.go:62-145).
TrafficKept == Conservation /\ RowsAddUp

\* Snapshots are monotonic across a hot reload (metrics_handoff.go:15-17).
SnapshotsMonotonic ==
  [][instances # None /\ instances' # None => Snapshot' >= Snapshot]_mVars

\* The collector stores the traffic of the server by taking differences of the
\* counters (stats_collector.go:21-22): never more than there was.
RowsWithinTraffic == rows <= Total(Gen)

\* A row that could not be written is made up for by the next tick
\* (docs/superpowers/specs/2026-08-06-persistent-statistics-design.md:133).
NextTickRetries ==
  dropped = {} /\ ~unsaved => rows = last

=============================================================================
