--------------------------- MODULE Configuration ---------------------------
(***************************************************************************)
(* The stored configuration of the servers and what runs of it: the web    *)
(* API's save, toggle and delete (internal/webui/server.go), which change  *)
(* the row, then the instance, and compensate when that fails, together    *)
(* with the manager's Reload (internal/manager/manager.go), which heart-   *)
(* beats and recoveries also call, and which writes rows back by itself.   *)
(*                                                                         *)
(* The hand-over of listeners and sessions is the subject of Manager: here *)
(* a replacement becomes ready or does not.  Of a configuration only the   *)
(* enabled flag and the listen address matter.                             *)
(***************************************************************************)
EXTENDS Integers

CONSTANTS
  MaxIds,        \* bound: server ids, each given once (AUTOINCREMENT)
  Addrs,         \* listen addresses
  Handlers,      \* requests of the web API under way at once
  Background,    \* goroutines that call Reload by themselves
  MaxRequests, MaxReloads,  \* bounds: requests, background Reloads
  MaxFaults      \* bound: database operations that fail

ConfigurationAssumption ==
  /\ Handlers \cap Background = {}
  /\ MaxIds \in Nat \ {0}
  /\ MaxRequests \in Nat /\ MaxReloads \in Nat /\ MaxFaults \in Nat

Ids    == 1..MaxIds
Procs  == Handlers \cup Background
Nobody == "nobody"
NoAddr == "none"
NamesAssumption == Nobody \notin Procs /\ NoAddr \notin Addrs

VARIABLES
  row,      \* server_configs: a configuration, or NoRow
  nextId,
  inst,     \* m.instances: the configuration and whether it was launched, or NoInst
  pc,       \* where each handler and background goroutine is
  req,      \* a handler's request: [op, id, new, prev]
  rel,      \* a Reload: [id, cfg, back], back written to the row if it fails
  holder,   \* of m.transition
  editor,   \* of configurationMu
  requests, reloads, faults,  \* spent budgets
  deleted   \* observer: ids whose deletion was answered

countVars == <<requests, reloads, faults>>
vars == <<row, nextId, inst, pc, req, rel, holder, editor, countVars, deleted>>

NoRow  == [on |-> FALSE, addr |-> NoAddr]
NoInst == [cfg |-> NoRow, launched |-> FALSE]
Cfg    == [on : BOOLEAN, addr : Addrs]
NoReq  == [op |-> "none", id |-> 1, new |-> NoRow, prev |-> NoRow]
NoRel  == [id |-> 1, cfg |-> NoRow, back |-> NoRow]

TypeOK ==
  /\ row \in [Ids -> Cfg \cup {NoRow}] /\ nextId \in 1..(MaxIds + 1)
  /\ inst \in [Ids -> [cfg : Cfg \cup {NoRow}, launched : BOOLEAN]]
  /\ pc \in [Procs -> {"idle", "start", "check", "write", "lock", "load", "ready",
                       "recheck", "rewrite", "undocheck", "undo", "erase", "remove",
                       "uncreate", "ok", "failed", "refused"}]
  /\ req \in [Handlers -> [op : {"none", "create", "save", "toggle", "delete"}, id : Ids,
                           new : Cfg \cup {NoRow}, prev : Cfg \cup {NoRow}]]
  /\ rel \in [Procs -> [id : Ids, cfg : Cfg \cup {NoRow}, back : Cfg \cup {NoRow}]]
  /\ \A p \in Procs : pc[p] \in {"recheck", "rewrite"} => rel[p].back \in Cfg
  /\ holder \in Procs \cup {Nobody} /\ editor \in Handlers \cup {Nobody}
  /\ requests \in 0..MaxRequests /\ reloads \in 0..MaxReloads /\ faults \in 0..MaxFaults
  /\ deleted \subseteq Ids

-----------------------------------------------------------------------------
(* The store: Store.saveServer checks for a conflict, then writes          *)

Conflict(id, cfg) == \E j \in Ids \ {id} : row[j].addr = cfg.addr

Goto(p, l)   == pc' = [pc EXCEPT ![p] = l]
Fault        == faults < MaxFaults /\ faults' = faults + 1
\* Goes on without m.transition
Leaves(p, l) == Goto(p, l) /\ holder' = IF holder = p THEN Nobody ELSE holder

storeRest == <<nextId, inst, req, rel, editor, requests, reloads, deleted>>

Checks(p, id, cfg, next, fail) ==
  /\ \/ ~Conflict(id, cfg) /\ Goto(p, next) /\ UNCHANGED <<holder, faults>>
     \/ Conflict(id, cfg) /\ Leaves(p, fail) /\ UNCHANGED faults
     \/ Fault /\ Leaves(p, fail)
  /\ UNCHANGED <<row, storeRest>>

\* The INSERT of a new row, or an UPDATE, which finds the row or fails
Writes(p, id, cfg, insert, next, fail) ==
  /\ \/ /\ insert \/ row[id] # NoRow
        /\ row' = [row EXCEPT ![id] = cfg]
        /\ Leaves(p, next)
        /\ UNCHANGED faults
     \/ /\ ~insert /\ row[id] = NoRow
        /\ Leaves(p, fail)
        /\ UNCHANGED <<row, faults>>
     \/ Fault /\ Leaves(p, fail) /\ UNCHANGED row
  /\ UNCHANGED storeRest

\* DeleteServer
Deletes(p, id, next, fail) ==
  /\ \/ row' = [row EXCEPT ![id] = NoRow] /\ Goto(p, next) /\ UNCHANGED faults
     \/ Fault /\ Goto(p, fail) /\ UNCHANGED row
  /\ UNCHANGED <<holder, storeRest>>

-----------------------------------------------------------------------------
(* Manager.Reload; its result is where it leaves: "ok" or "failed"         *)

relRest == <<nextId, req, editor, requests, reloads, deleted>>

ReloadLocks(p) ==
  /\ pc[p] = "lock" /\ holder = Nobody
  /\ holder' = p
  /\ Goto(p, "load")
  /\ UNCHANGED <<row, inst, rel, faults, relRest>>

LoadFails(p) ==
  /\ pc[p] = "load"
  /\ \/ row[rel[p].id] = NoRow /\ UNCHANGED faults
     \/ Fault
  /\ Leaves(p, "failed")
  /\ UNCHANGED <<row, inst, rel, relRest>>

\* The row is disabled: the instance, if there is one, is dropped and shut down
ReloadStops(p) ==
  LET id == rel[p].id IN
  /\ pc[p] = "load" /\ row[id] # NoRow /\ ~row[id].on
  /\ inst' = [inst EXCEPT ![id] = NoInst]
  /\ Leaves(p, "ok")
  /\ UNCHANGED <<row, rel, faults, relRest>>

\* The preflight fails, or a replacement is installed and launched.  What a failure
\* writes back is the previous instance's configuration, or the new one disabled.
ReloadStarts(p) ==
  LET id == rel[p].id IN
  /\ pc[p] = "load" /\ row[id] # NoRow /\ row[id].on
  /\ rel' = [rel EXCEPT ![p] = [id |-> id, cfg |-> row[id],
                                back |-> IF inst[id] = NoInst
                                         THEN [row[id] EXCEPT !.on = FALSE]
                                         ELSE inst[id].cfg]]
  /\ Goto(p, "recheck") \/ Goto(p, "ready")
  /\ UNCHANGED <<row, inst, holder, faults, relRest>>

\* waitReady: the replacement takes over, or is shut down and what was there before,
\* if anything, is brought back
ReloadReady(p) ==
  /\ pc[p] = "ready"
  /\ \/ /\ inst' = [inst EXCEPT ![rel[p].id] = [cfg |-> rel[p].cfg, launched |-> TRUE]]
        /\ Leaves(p, "ok")
     \/ /\ Goto(p, "recheck")
        /\ UNCHANGED <<inst, holder>>
  /\ UNCHANGED <<row, rel, faults, relRest>>

\* saveRuntimeConfig; Reload fails whether or not it could write
SavesBack(p) ==
  \/ pc[p] = "recheck" /\ Checks(p, rel[p].id, rel[p].back, "rewrite", "failed")
  \/ pc[p] = "rewrite" /\ Writes(p, rel[p].id, rel[p].back, FALSE, "failed", "failed")

Reload(p) ==
  \/ ReloadLocks(p) \/ LoadFails(p) \/ ReloadStops(p) \/ ReloadStarts(p)
  \/ ReloadReady(p) \/ SavesBack(p)

\* A heartbeat that recovered, or a recovery through Vohive, of a launched instance
BackgroundReload(b) ==
  \/ /\ pc[b] = "idle" /\ reloads < MaxReloads
     /\ \E i \in Ids : inst[i].launched /\ rel' = [rel EXCEPT ![b] = [NoRel EXCEPT !.id = i]]
     /\ Goto(b, "lock")
     /\ reloads' = reloads + 1
     /\ UNCHANGED <<row, nextId, inst, req, holder, editor, requests, faults, deleted>>
  \/ /\ pc[b] \in {"ok", "failed"}
     /\ Goto(b, "idle")
     /\ rel' = [rel EXCEPT ![b] = NoRel]
     /\ UNCHANGED <<row, nextId, inst, req, holder, editor, countVars, deleted>>

-----------------------------------------------------------------------------
(* The handlers of the web API                                             *)

webRest == <<row, inst, rel, holder, reloads, deleted>>

\* A request is decoded and waits for configurationMu
RequestArrives(h) ==
  /\ pc[h] = "idle" /\ requests < MaxRequests
  /\ requests' = requests + 1
  /\ \/ \E c \in Cfg : req' = [req EXCEPT ![h] = [NoReq EXCEPT !.op = "create", !.new = c]]
     \/ \E c \in Cfg, i \in Ids : i < nextId /\
          req' = [req EXCEPT ![h] = [NoReq EXCEPT !.op = "save", !.id = i, !.new = c]]
     \/ \E o \in {"toggle", "delete"}, i \in Ids : i < nextId /\
          req' = [req EXCEPT ![h] = [NoReq EXCEPT !.op = o, !.id = i]]
  /\ Goto(h, "start")
  /\ UNCHANGED <<nextId, editor, faults, webRest>>

\* The configuration is locked and the previous one is read
Edits(h) ==
  /\ pc[h] = "start" /\ req[h].op # "create" /\ editor = Nobody
  /\ editor' = h
  /\ \/ /\ row[req[h].id] # NoRow
        /\ LET was == row[req[h].id] IN
           req' = [req EXCEPT ![h].prev = was,
                              ![h].new = IF req[h].op = "toggle"
                                         THEN [on |-> ~was.on, addr |-> was.addr]
                                         ELSE req[h].new]
        /\ Goto(h, IF req[h].op = "delete" THEN "erase" ELSE "check")
        /\ UNCHANGED faults
     \/ /\ (row[req[h].id] = NoRow /\ UNCHANGED faults) \/ Fault
        /\ req' = [req EXCEPT ![h].prev = row[req[h].id]]
        /\ Goto(h, "refused")
  /\ UNCHANGED <<nextId, requests, webRest>>

\* A new server; its id is the one that the INSERT will give
Creates(h) ==
  /\ pc[h] = "start" /\ req[h].op = "create" /\ editor = Nobody /\ nextId <= MaxIds
  /\ editor' = h
  /\ req' = [req EXCEPT ![h].id = nextId]
  /\ nextId' = nextId + 1
  /\ Goto(h, "check")
  /\ UNCHANGED <<requests, faults, webRest>>

\* SaveServer, and the Reload that follows it
Stores(h) ==
  \/ pc[h] = "check" /\ Checks(h, req[h].id, req[h].new, "write", "refused")
  \/ /\ pc[h] = "write"
     /\ LET id == req[h].id IN
        /\ \/ /\ req[h].op = "create" \/ row[id] # NoRow
              /\ row' = [row EXCEPT ![id] = req[h].new]
              /\ rel' = [rel EXCEPT ![h] = [NoRel EXCEPT !.id = id]]
              /\ Goto(h, "lock")
              /\ UNCHANGED faults
           \/ Fault /\ Goto(h, "refused") /\ UNCHANGED <<row, rel>>
     /\ UNCHANGED <<nextId, inst, req, holder, editor, requests, reloads, deleted>>

\* Fault: a failed Reload is reported, the row stays
KeepsNewRow(h) ==
  /\ pc[h] = "failed"
  /\ Goto(h, "refused")
  /\ UNCHANGED <<nextId, req, editor, requests, faults, webRest>>

\* Reload has failed
Compensates(h) ==
  /\ pc[h] = "failed"
  /\ Goto(h, IF req[h].op = "create" THEN "remove" ELSE "undocheck")
  /\ UNCHANGED <<nextId, req, editor, requests, faults, webRest>>

Undoes(h) ==
  \/ pc[h] = "undocheck" /\ Checks(h, req[h].id, req[h].prev, "undo", "refused")
  \/ pc[h] = "undo" /\ Writes(h, req[h].id, req[h].prev, FALSE, "refused", "refused")
  \/ pc[h] = "uncreate" /\ Deletes(h, req[h].id, "refused", "refused")

Erases(h) == pc[h] = "erase" /\ Deletes(h, req[h].id, "remove", "refused")

\* Fault: an instance that a Reload works on is not removed
RemoveTries(h) ==
  /\ pc[h] = "remove"
  /\ inst' = IF holder = Nobody THEN [inst EXCEPT ![req[h].id] = NoInst] ELSE inst
  /\ Goto(h, IF req[h].op = "delete" THEN "ok" ELSE "uncreate")
  /\ UNCHANGED <<nextId, req, editor, requests, faults, row, rel, holder, reloads, deleted>>

\* Fault: the instance of a deleted server is forgotten
RemoveForgets(h) ==
  /\ pc[h] = "remove" /\ holder = Nobody
  /\ Goto(h, IF req[h].op = "delete" THEN "ok" ELSE "uncreate")
  /\ UNCHANGED <<nextId, req, editor, requests, faults, webRest>>

\* Manager.Remove, of a deleted server or of a new one that did not start
Removes(h) ==
  /\ pc[h] = "remove" /\ holder = Nobody
  /\ inst' = [inst EXCEPT ![req[h].id] = NoInst]
  /\ Goto(h, IF req[h].op = "delete" THEN "ok" ELSE "uncreate")
  /\ UNCHANGED <<nextId, req, editor, requests, faults, row, rel, holder, reloads, deleted>>

Answers(h) ==
  /\ pc[h] \in {"ok", "refused"}
  /\ Goto(h, "idle")
  /\ editor' = Nobody
  /\ deleted' = IF pc[h] = "ok" /\ req[h].op = "delete"
                THEN deleted \cup {req[h].id} ELSE deleted
  /\ req' = [req EXCEPT ![h] = NoReq]
  /\ rel' = [rel EXCEPT ![h] = NoRel]
  /\ UNCHANGED <<row, nextId, inst, holder, countVars>>

Handler(h) ==
  \/ RequestArrives(h) \/ Edits(h) \/ Creates(h) \/ Stores(h) \/ Reload(h)
  \/ Compensates(h) \/ Undoes(h) \/ Erases(h) \/ Removes(h) \/ Answers(h)

-----------------------------------------------------------------------------
\* One server, started by StartAll unless it is disabled; a failed preflight has left
\* a placeholder
Init ==
  /\ \E c \in Cfg, l \in BOOLEAN :
       /\ row = [i \in Ids |-> IF i = 1 THEN c ELSE NoRow]
       /\ inst = [i \in Ids |-> IF i = 1 /\ c.on THEN [cfg |-> c, launched |-> l]
                                ELSE NoInst]
  /\ nextId = 2
  /\ pc = [p \in Procs |-> "idle"]
  /\ req = [h \in Handlers |-> NoReq] /\ rel = [p \in Procs |-> NoRel]
  /\ holder = Nobody /\ editor = Nobody
  /\ requests = 0 /\ reloads = 0 /\ faults = 0
  /\ deleted = {}

Next ==
  \/ \E h \in Handlers : Handler(h)
  \/ \E b \in Background : Reload(b) \/ BackgroundReload(b)

Spec == Init /\ [][Next]_vars

-----------------------------------------------------------------------------
\* No two stored servers have the same listen address, although the check and the
\* write are two statements, and Reload writes rows without configurationMu
\* (store.go:345-383).
AddressesUnique ==
  \A i, j \in Ids : i # j /\ row[i] # NoRow /\ row[j] # NoRow => row[i].addr # row[j].addr

\* When nobody is changing anything, what runs is what is stored, unless the database
\* has failed.
RunsWhatIsStored ==
  editor = Nobody /\ holder = Nobody /\ faults = 0 =>
    \A i \in Ids : inst[i].cfg = IF row[i].on THEN row[i] ELSE NoRow

\* Once a deletion has been answered nothing of that server runs, whatever Reload was
\* waiting or under way (webui/server.go:485-509).
DeletedStaysStopped == \A i \in deleted : inst[i] = NoInst

\* A request that is refused leaves the row as it found it, unless the database has
\* failed (webui/server.go:464-479, 534-541).
RefusedKept(h) ==
  pc[h] = "refused" /\ pc'[h] = "idle" /\ faults = 0 => row[req[h].id] = req[h].prev

RefusedChangesNothing == [][\A h \in Handlers : RefusedKept(h)]_vars

\* A request that is answered with success has stored what it was asked to store
\* (README.md:453, webui/server.go:481 and 543).
AnsweredStored(h) ==
  pc[h] = "ok" /\ pc'[h] = "idle" /\ req[h].op # "delete" => row[req[h].id] = req[h].new

AnsweredIsStored == [][\A h \in Handlers : AnsweredStored(h)]_vars

=============================================================================
